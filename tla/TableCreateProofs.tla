--------------------------- MODULE TableCreateProofs ---------------------------
(***************************************************************************)
(* Proofs about TableCreate, for any calls, settings and bounds: what an   *)
(* undo removes (UndoSparesOthers), in every setting; and what a caller is *)
(* told (OutcomeTruthful), what a plan that failed leaves (NothingLeft),   *)
(* and where a call's files land (LandsAsAsked), in settings each theorem  *)
(* names. In the settings of these three, what others do does not fall     *)
(* between an undo's look at the table and its deletion, which nothing in  *)
(* the code prevents: then a commit can lose its version 0.                *)
(***************************************************************************)
EXTENDS TableCreate, FiniteSetTheorems, TLAPS

-----------------------------------------------------------------------------
(* The settings the theorems are about. *)

\* An undo's look at the table and its deletion are one step to the others.
NoOverlap == "overlap" \notin Faults

\* No finalize request registers a table after another writer dropped it.
LateOrDrop == ~({"late", "drop"} \subseteq Faults)

\* write_table compares its layout with that of the table it finds, and appends to the
\* table it finds then: no other call creates (and may undo) a table of its layout, or
\* all tables are alike.
NoLookalike ==
    \A j, k \in Job :
        setting.api[j] = "write_table" /\ j # k /\ setting.layout[j] = setting.layout[k] =>
            \A i \in Job \cup {Other} : setting.layout[i] = setting.layout[j]

-----------------------------------------------------------------------------
(* The inductive invariant. *)

\* The call is write_table's.
WritesTable(j) == setting.api[j] = "write_table"

\* The setting is one of those the theorems are about.
Fixed == setting \in Settings /\ "overlap" \notin Faults

\* A table is where its creator puts it, a commit is to a table, and the catalog
\* registers what is there.
Places ==
    /\ \A l \in Location : zero[l] = None => commits[l] = <<>>
    /\ \A j \in Job : zero[j] = None \/ (zero[j] = j /\ Managed)
    /\ zero[Other] = None \/ (zero[Other] = Other /\ Catalogued)
    /\ zero[Shared] = None \/ ~Managed
    /\ name # None => Catalogued /\ (IF Managed THEN zero[name] = name ELSE name \in {Shared, Other})

\* A commit's snapshot and an undo's look at the table exclude each other.
Excluded == \A j, k \in Job : pc[j] = "put" => pc[k] \notin {"drop", "rmtree"}

\* Where a planned call is: before its files, in a commit() call, undoing, over.
Unwritten == {"new", "planned"}
Committing == {"publish", "open", "finalize", "registered", "absent", "resolve", "attempt", "put",
               "landed", "register"}
Undoing == {"undo", "drop", "discard"}
GaveUp == {"refused", "ignored", "existing", "failed", "aborted"}

\* The steps a call takes depend on its method, mode and kind of name.
Control(j) ==
    /\ Planned(j) =>
         /\ pc[j] \in Unwritten \cup Committing \cup Undoing \cup {"idle", "abort"}
         /\ pc[j] \in Unwritten \cup Committing => result[j] = "none"
         /\ pc[j] \in Undoing => result[j] \in {"failed", "aborted"}
         /\ pc[j] = "abort" => result[j] = "failed" /\ ~Keeps(j)
         /\ pc[j] \in {"publish", "open"} => ~Managed
         /\ pc[j] = "register" => setting.kind = "external"
         /\ pc[j] \in {"finalize", "registered", "absent", "resolve"} => Managed /\ calls[j] > 0
         /\ result[j] # "created"
    /\ ~Planned(j) =>
         /\ pc[j] \in {"new", "idle", "create", "enroll", "raised", "created", "existing", "append",
                       "cleanup", "rmtree"}
         /\ pc[j] \in {"existing", "append", "cleanup", "rmtree"} => WritesTable(j)
         /\ pc[j] \notin {"idle", "cleanup", "rmtree"} => result[j] = "none"
         /\ pc[j] \in {"cleanup", "rmtree"} => result[j] \in {"unknown", "failed"}
         /\ pc[j] = "enroll" => Catalogued
         /\ pc[j] = "rmtree" => setting.kind = "local"
         /\ pc[j] = "existing" => Mode(j) \in {"append", "overwrite"}
         /\ result[j] \notin {"aborted", "landed", "unregistered", "error"}

\* What is about to be removed is the call's own, and empty.
Removal(j) ==
    /\ pc[j] \in {"drop", "rmtree"} => zero[Home(j)] = j /\ commits[Home(j)] = <<>>
    /\ Managed /\ pc[j] \in {"abort", "undo", "drop"} => name = j

\* Before a call creates its table there is none of its own; what it stages stays.
Creation(j) ==
    /\ pc[j] \in {"new", "create"} => zero[Home(j)] # j
    /\ ~Planned(j) =>
         /\ pc[j] \in {"enroll", "created"} => zero[Home(j)] = j
         /\ pc[j] \in {"append", "cleanup", "rmtree"} /\ identity[j] = j =>
              target[j] = Home(j) /\ zero[Home(j)] = j
         /\ Managed /\ pc[j] = "enroll" => name # j
    /\ Planned(j) /\ Managed /\ pc[j] # "new" =>
         zero[j] = j \/ (pc[j] = "idle" /\ result[j] \in {"refused", "ignored", "existing"})
    /\ j \in late => Planned(j) /\ Managed /\ zero[j] = j /\ "late" \in Faults

\* A planned call commits to its own table, or to another's that suits its files.
Target(j) ==
    /\ Planned(j) /\ pc[j] \in {"attempt", "put", "landed", "register", "abort"} =>
         /\ target[j] = Home(j)
         /\ Managed => identity[j] = j
         /\ identity[j] # None
         /\ identity[j] # j => Mode(j) = "append" /\ setting.layout[j] = setting.layout[identity[j]]
    /\ Planned(j) /\ pc[j] \in {"attempt", "put", "abort"} /\ identity[j] # j => zero[Home(j)] # j
    /\ pc[j] = "put" => zero[target[j]] = identity[j]

\* A call's files are committed somewhere.
HasLanded(j) == \E l \in Location : LandedIn(j, l)

\* A call's files land once, in the table it commits to.
LandsOnce(j) ==
    \A l \in Location : \A m, n \in DOMAIN commits[l] : commits[l][m] = j /\ commits[l][n] = j => m = n

\* ... and nowhere else; a plan's, in the place it creates its table at.
LandsThere(j) ==
    \A l \in Location : LandedIn(j, l) => target[j] = l /\ (Planned(j) => l = Home(j))

\* A call knows whether its files have landed.
Told(j) ==
    /\ Planned(j) =>
         /\ pc[j] \in Unwritten \cup {"put", "abort"} => ~HasLanded(j)
         /\ pc[j] \in {"landed", "register"} => HasLanded(j)
    /\ ~Planned(j) /\ result[j] \notin {"committed", "unknown"} => ~HasLanded(j)
    /\ pc[j] = "idle" /\ result[j] \in {"committed", "unregistered", "landed"} => HasLanded(j)

\* What holds of each call, and of all.
SafeCall(j) ==
    /\ Control(j) /\ Removal(j) /\ Creation(j) /\ Target(j)
    /\ LandsOnce(j) /\ LandsThere(j) /\ Told(j)

SafeCalls == \A j \in Job : SafeCall(j)

Inv == Fixed /\ TypeOK /\ Places /\ Excluded /\ SafeCalls

(* What the other theorems need besides. *)

\* A call commits to another writer's table only as its mode and layout allow.
Honoured(j) ==
    \A l \in Location : LandedIn(j, l) /\ zero[l] # j =>
        /\ setting.layout[j] = setting.layout[zero[l]]
        /\ Mode(j) = "append" \/ (Mode(j) = "overwrite" /\ ~Planned(j))

\* The table write_table is about to append to suits it.
Suits(j) ==
    pc[j] = "append" /\ identity[j] # j =>
        /\ Mode(j) \in {"append", "overwrite"}
        /\ identity[j] \in Job \cup {Other}
        /\ setting.layout[j] = setting.layout[identity[j]]
        /\ identity[j] = Other => zero[target[j]] = Other

\* What a plan is told it did not commit is in no table that stands, now or later.
Withdrawn(j) ==
    /\ Planned(j) /\ (pc[j] \in Undoing \/ (pc[j] = "idle" /\ result[j] \in GaveUp)) /\ HasLanded(j) =>
         Managed /\ name # j
    /\ Managed /\ Planned(j) /\ "drop" \notin Faults /\ HasLanded(j) => name = j

\* A call that gives way has no table of its own under the name.
GivesWay(j) ==
    /\ "late" \notin Faults
    /\ Planned(j) \/ ("applied" \notin Faults /\ setting.kind # "external")
    /\ pc[j] = "raised" \/ (pc[j] = "idle" /\ result[j] = "ignored")
    /\ zero[Home(j)] = j
    => Managed /\ name # j

\* A plan's files are there while they may be committed; written ones when they are.
Files(j) ==
    /\ Planned(j) =>
         /\ pc[j] \in Committing \/ (pc[j] = "idle" /\ result[j] \notin GaveUp) => j \in files
         /\ pc[j] = "idle" /\ result[j] = "failed" /\ Keeps(j) => j \in files
         /\ pc[j] \in Undoing /\ result[j] = "failed" => ~Keeps(j)
    /\ ~Planned(j) /\ HasLanded(j) => j \in files

\* A plan that gave up has deleted its files and its template.
Cleared(j) ==
    Planned(j) /\ "delete" \notin Faults =>
        /\ pc[j] \in Unwritten => j \notin files
        /\ pc[j] = "new" => j \notin template
        /\ ~Keeps(j) /\ (pc[j] \in Undoing \/ (pc[j] = "idle" /\ result[j] \in GaveUp)) => j \notin files
        /\ ~Keeps(j) /\ pc[j] = "idle" /\ result[j] \in GaveUp /\ j \in template =>
             Managed /\ calls[j] > 0 /\ result[j] \in {"refused", "ignored"}

\* A plan that gave up leaves no empty table of its own.
NoneEmpty(j) ==
    /\ Planned(j) /\ Faults \cap {"delete", "late"} = {} /\ ~Keeps(j)
    /\ pc[j] \in Unwritten \cup {"discard"} \/ (pc[j] = "idle" /\ result[j] \in GaveUp)
    /\ zero[Home(j)] = j /\ Live(Home(j))
    => commits[Home(j)] # <<>>

-----------------------------------------------------------------------------
(* What a step of a call does to each variable, as the others see it. *)

\* A step of a call, by whatever method.
CallStep(j) == PlanStep(j) \/ WriteStep(j)

\* The places of a call and what it returns (TypeOK).
Pcs == {"new", "planned", "idle", "publish", "open", "finalize", "registered", "absent", "resolve",
        "attempt", "put", "landed", "register", "abort", "undo", "drop", "discard", "create",
        "enroll", "raised", "created", "existing", "append", "cleanup", "rmtree"}
Results == {"none", "refused", "ignored", "existing", "unknown", "error", "committed",
            "unregistered", "failed", "aborted", "landed", "created"}

\* f' is f, but for j, and takes its values in S.
Only(j, f, g, S) == g \in [Job -> S] /\ \A k \in Job \ {j} : g[k] = f[k]

\* The others' membership is as it was.
Spares(j, S, T) == T \subseteq Job /\ \A k \in Job \ {j} : k \in T <=> k \in S

\* A step of a call moves that call only.
MovesCall(j) == Only(j, pc, pc', Pcs) /\ Only(j, result, result', Results)

\* It sets variables of its own only.
OwnVariables(j) ==
    /\ Only(j, calls, calls', 0..MaxCalls) /\ Only(j, attempt, attempt', 0..Retries)
    /\ Only(j, target, target', Location) /\ Only(j, identity, identity', Job \cup {Other, None})
    /\ Only(j, base, base', Nat) /\ Only(j, existed, existed', BOOLEAN)

\* It puts in the sets, or takes from them, itself only.
OwnSets(j) == Spares(j, late, late') /\ Spares(j, files, files') /\ Spares(j, template, template')

\* Moving a call, or not, keeps to the call.
LEMMA ExceptOnly ==
    ASSUME NEW S, NEW f \in [Job -> S], NEW j \in Job, NEW v \in S
    PROVE  Only(j, f, f, S) /\ Only(j, f, [f EXCEPT ![j] = v], S)
BY DEF Only

\* The calls are where they can be, and have returned what they can.
Running == pc \in [Job -> Pcs] /\ result \in [Job -> Results]

\* They are, as to types.
LEMMA TypedRunning == TypeOK => Running
BY DEF TypeOK, Running, Pcs, Results

\* A step that moves a call on moves that call only.
LEMMA GotoMoves ==
    ASSUME Running, NEW j \in Job, NEW l \in Pcs, Goto(j, l) PROVE MovesCall(j)
BY DEF Running, Goto, MovesCall, Only

\* So does one that also sets its result,
LEMMA EndingMoves ==
    ASSUME Running, NEW j \in Job, NEW l \in Pcs, NEW r \in Results, Ending(j, l, r) PROVE MovesCall(j)
BY DEF Running, Ending, MovesCall, Only

\* ... or returns from it.
LEMMA FinishMoves ==
    ASSUME Running, NEW j \in Job, NEW r \in Results, Finish(j, r) PROVE MovesCall(j)
BY EndingMoves DEF Finish, Pcs

\* A step of a call moves that call.
LEMMA RunningMoves == ASSUME Running, NEW j \in Job, CallStep(j) PROVE MovesCall(j)
<1> USE GotoMoves, EndingMoves, FinishMoves DEF Pcs, Results
<1>1. CASE PlanWrite(j)
  BY <1>1 DEF PlanWrite, SaveMode
<1>2. CASE PlanRefused(j)
  BY <1>2 DEF PlanRefused
<1>3. CASE WriteFiles(j)
  BY <1>3 DEF WriteFiles
<1>4. CASE CommitCall(j)
  <2>1. (IF Managed THEN "finalize" ELSE "publish") \in Pcs
    OBVIOUS
  <2> QED  BY <1>4, <2>1 DEF CommitCall
<1>5. CASE Publish(j)
  BY <1>5 DEF Publish
<1>6. CASE Open(j)
  <2>1. (IF Mode(j) = "ignore" THEN "ignored" ELSE "refused") \in Results
    OBVIOUS
  <2> QED  BY <1>6, <2>1 DEF Open, Retarget
<1>7. CASE Finalize(j)
  BY <1>7 DEF Finalize
<1>8. CASE FinalizeLate(j)
  BY <1>8 DEF FinalizeLate, Running, MovesCall, Only
<1>9. CASE RegisteredAnyway(j)
  BY <1>9 DEF RegisteredAnyway
<1>10. CASE CertainlyAbsent(j)
  BY <1>10 DEF CertainlyAbsent
<1>11. CASE Resolve(j)
  <2>1. (IF Mode(j) = "ignore" THEN "ignored" ELSE "refused") \in Results
    OBVIOUS
  <2> QED  BY <1>11, <2>1 DEF Resolve, Retarget
<1>12. CASE Attempt(j)
  BY <1>12 DEF Attempt
<1>13. CASE Put(j)
  BY <1>13 DEF Put
<1>14. CASE PutUnanswered(j)
  BY <1>14 DEF PutUnanswered, UnknownOutcome
<1>15. CASE Landed(j)
  BY <1>15 DEF Landed
<1>16. CASE Register(j)
  BY <1>16 DEF Register
<1>17. CASE CertainFailure(j)
  BY <1>17 DEF CertainFailure
<1>18. CASE UndoCheck(j)
  BY <1>18 DEF UndoCheck
<1>19. CASE UndoDrop(j)
  BY <1>19 DEF UndoDrop
<1>20. CASE Discard(j)
  BY <1>20 DEF Discard
<1>21. CASE AbortCall(j)
  BY <1>21 DEF AbortCall
<1>22. CASE CheckExists(j)
  BY <1>22 DEF CheckExists, SaveMode
<1>23. CASE CreateLog(j)
  BY <1>23 DEF CreateLog
<1>24. CASE Enroll(j)
  BY <1>24 DEF Enroll
<1>25. CASE CreateRaised(j)
  BY <1>25 DEF CreateRaised
<1>26. CASE Created(j)
  BY <1>26 DEF Created
<1>27. CASE WriteExisting(j)
  BY <1>27 DEF WriteExisting
<1>28. CASE AppendData(j)
  BY <1>28 DEF AppendData
<1>29. CASE CleanupCheck(j)
  BY <1>29 DEF CleanupCheck
<1>30. CASE RemoveLog(j)
  BY <1>30 DEF RemoveLog
<1> QED  BY <1>1, <1>2, <1>3, <1>4, <1>5, <1>6, <1>7, <1>8, <1>9, <1>10, <1>11, <1>12, <1>13, <1>14,
     <1>15, <1>16, <1>17, <1>18, <1>19, <1>20, <1>21, <1>22, <1>23, <1>24, <1>25, <1>26, <1>27,
     <1>28, <1>29, <1>30 DEF CallStep, PlanStep, WriteStep

\* So it does in a state of the right types.
LEMMA CallMoves == ASSUME TypeOK, NEW j \in Job, CallStep(j) PROVE MovesCall(j)
BY RunningMoves, TypedRunning

\* A call that turns to a table keeps its other variables.
LEMMA RetargetOwns ==
    ASSUME TypeOK, NEW j \in Job, NEW l \in Location,
           target' = [target EXCEPT ![j] = l], identity' = [identity EXCEPT ![j] = zero[l]],
           UNCHANGED <<calls, attempt, base, existed>>
    PROVE  OwnVariables(j)
BY DEF TypeOK, OwnVariables, Only

\* Counting an attempt, while one is left, is a call's own matter.
LEMMA RetryOwns ==
    ASSUME TypeOK, NEW j \in Job,
           UNCHANGED attempt \/ (AttemptsLeft(j) /\ attempt' = [attempt EXCEPT ![j] = @ + 1]),
           UNCHANGED <<calls, target, identity, base, existed>>
    PROVE  OwnVariables(j)
<1>1. attempt \in [Job -> 0..Retries] /\ Retries \in Nat
  BY ConstantsAssumption DEF TypeOK
<1>2. Only(j, attempt, attempt', 0..Retries)
  <2>1. CASE UNCHANGED attempt
    BY <1>1, <2>1 DEF Only
  <2>2. CASE AttemptsLeft(j) /\ attempt' = [attempt EXCEPT ![j] = @ + 1]
    <3>1. attempt[j] + 1 \in 0..Retries
      BY <1>1, <2>2 DEF AttemptsLeft
    <3> QED  BY <1>1, <2>2, <3>1 DEF Only
  <2> QED  BY <2>1, <2>2
<1> QED  BY <1>2 DEF TypeOK, OwnVariables, Only

\* A step of a call changes its own variables only.
LEMMA CallOwnVariables == ASSUME TypeOK, NEW j \in Job, CallStep(j) PROVE OwnVariables(j)
<1>0. CASE UNCHANGED caller
  BY <1>0 DEF TypeOK, OwnVariables, Only, caller
<1>1. CASE CommitCall(j)
  BY <1>1, ConstantsAssumption DEF TypeOK, OwnVariables, Only, CommitCall
<1>2. CASE Open(j)
  BY <1>2, <1>0, RetargetOwns DEF TypeOK, caller, Open, Retarget, Location
<1>3. CASE Resolve(j)
  BY <1>3, <1>0, RetargetOwns DEF TypeOK, caller, Resolve, Retarget, Location
<1>4. CASE Attempt(j)
  <2>1. UNCHANGED base \/ base' = [base EXCEPT ![j] = Len(commits[target[j]])]
    BY <1>4 DEF Attempt
  <2>2. UNCHANGED <<calls, attempt, target, identity, existed>>
    BY <1>4 DEF Attempt
  <2>3. Len(commits[target[j]]) \in Nat
    BY DEF TypeOK
  <2>4. Only(j, base, base', Nat)
    BY <2>1, <2>3 DEF TypeOK, Only
  <2> QED  BY <2>2, <2>4 DEF TypeOK, OwnVariables, Only
<1>5. CASE Put(j)
  <2>1. /\ UNCHANGED attempt \/ (AttemptsLeft(j) /\ attempt' = [attempt EXCEPT ![j] = @ + 1])
        /\ UNCHANGED <<calls, target, identity, base, existed>>
    BY <1>5 DEF Put
  <2> QED  BY <2>1, RetryOwns
<1>6. CASE PutUnanswered(j)
  <2>1. /\ UNCHANGED attempt \/ (AttemptsLeft(j) /\ attempt' = [attempt EXCEPT ![j] = @ + 1])
        /\ UNCHANGED <<calls, target, identity, base, existed>>
    BY <1>6 DEF PutUnanswered
  <2> QED  BY <2>1, RetryOwns
<1>7. CASE CheckExists(j)
  <2>1. /\ existed' = [existed EXCEPT ![j] = logDir]
        /\ UNCHANGED <<calls, attempt, target, identity, base>>
    BY <1>7 DEF CheckExists
  <2>2. Only(j, existed, existed', BOOLEAN)
    BY <2>1 DEF TypeOK, Only
  <2> QED  BY <2>1, <2>2 DEF TypeOK, OwnVariables, Only
<1>8. CASE Created(j)
  <2>1. Home(j) \in Location
    BY DEF Home, Location
  <2>2. /\ target' = [target EXCEPT ![j] = Home(j)] /\ identity' = [identity EXCEPT ![j] = j]
        /\ UNCHANGED <<calls, attempt, base, existed>>
    BY <1>8 DEF Created
  <2>3. Only(j, target, target', Location) /\ Only(j, identity, identity', Job \cup {Other, None})
    BY <2>1, <2>2 DEF TypeOK, Only
  <2> QED  BY <2>2, <2>3 DEF TypeOK, OwnVariables, Only
<1>9. CASE WriteExisting(j)
  BY <1>9, <1>0, RetargetOwns DEF TypeOK, caller, WriteExisting, Location, Live
<1> QED
  BY <1>0, <1>1, <1>2, <1>3, <1>4, <1>5, <1>6, <1>7, <1>8, <1>9 DEF CallStep, PlanStep, WriteStep,
     PlanWrite, PlanRefused, WriteFiles, Publish, Finalize, FinalizeLate, RegisteredAnyway,
     CertainlyAbsent, Landed, Register, CertainFailure, UndoCheck, UndoDrop, Discard, AbortCall,
     CreateLog, Enroll, CreateRaised, AppendData, CleanupCheck, RemoveLog

\* Deleting what is a call's, or not, is no matter of the others.
LEMMA WithoutSpares ==
    ASSUME NEW j \in Job, NEW S \in SUBSET Job, NEW T \in Without(S, j) PROVE Spares(j, S, T)
BY DEF Without, Spares

\* A step of a call changes its own requests, files and template only.
LEMMA CallOwnSets == ASSUME TypeOK, NEW j \in Job, CallStep(j) PROVE OwnSets(j)
<1> USE WithoutSpares
<1>0. CASE UNCHANGED <<late, files, template>>
  BY <1>0 DEF TypeOK, OwnSets, Spares
<1>1. CASE PlanWrite(j)
  BY <1>1 DEF TypeOK, OwnSets, Spares, Without, PlanWrite, WriteTemplate
<1>2. CASE PlanRefused(j)
  BY <1>2 DEF TypeOK, OwnSets, Spares, Without, PlanRefused
<1>3. CASE WriteFiles(j)
  BY <1>3 DEF TypeOK, OwnSets, Spares, Without, WriteFiles
<1>4. CASE Open(j)
  BY <1>4 DEF TypeOK, OwnSets, Spares, Without, Open, AbortFiles
<1>5. CASE Finalize(j)
  BY <1>5 DEF TypeOK, OwnSets, Spares, Without, Finalize
<1>6. CASE FinalizeLate(j)
  BY <1>6 DEF TypeOK, OwnSets, Spares, Without, FinalizeLate
<1>7. CASE CertainlyAbsent(j)
  BY <1>7 DEF TypeOK, OwnSets, Spares, Without, CertainlyAbsent
<1>8. CASE Resolve(j)
  BY <1>8 DEF TypeOK, OwnSets, Spares, Without, Resolve
<1>9. CASE Landed(j)
  BY <1>9 DEF TypeOK, OwnSets, Spares, Without, Landed
<1>10. CASE CertainFailure(j)
  BY <1>10 DEF TypeOK, OwnSets, Spares, Without, CertainFailure, AbortFiles
<1>11. CASE Discard(j)
  BY <1>11 DEF TypeOK, OwnSets, Spares, Without, Discard
<1>12. CASE AbortCall(j)
  BY <1>12 DEF TypeOK, OwnSets, Spares, Without, AbortCall
<1>13. CASE AppendData(j)
  BY <1>13 DEF TypeOK, OwnSets, Spares, Without, AppendData
<1> QED
  BY <1>0, <1>1, <1>2, <1>3, <1>4, <1>5, <1>6, <1>7, <1>8, <1>9, <1>10, <1>11, <1>12, <1>13
     DEF CallStep, PlanStep, WriteStep, CommitCall, Publish, RegisteredAnyway, Attempt, Put,
     PutUnanswered, Register, UndoCheck, UndoDrop, CheckExists, CreateLog, Enroll, CreateRaised,
     Created, WriteExisting, CleanupCheck, RemoveLog

\* What a step of a call does to the tables: it creates one, commits to one, or removes
\* its own empty one.
MakesTable(j) ==
    /\ pc[j] \in {"new", "publish", "create"}
    /\ zero[Home(j)] = None
    /\ zero' = [zero EXCEPT ![Home(j)] = j] /\ commits' = commits

AddsCommit(j) ==
    /\ pc[j] \in {"put", "append"} /\ Undisturbed
    /\ zero[target[j]] # None /\ (Managed => name = target[j])
    /\ zero' = zero /\ commits' = [commits EXCEPT ![target[j]] = Append(@, j)]

RemovesTable(j) ==
    /\ pc[j] \in {"drop", "rmtree"} /\ ~Managed
    /\ zero[Shared] = j /\ commits[Shared] = <<>>
    /\ zero' = [zero EXCEPT ![Shared] = None] /\ commits' = commits

TablesStep(j) ==
    UNCHANGED <<zero, commits>> \/ MakesTable(j) \/ AddsCommit(j) \/ RemovesTable(j)

\* What it does to the name: it registers its table, or drops its own.
TakesName(j) ==
    /\ pc[j] \in {"finalize", "enroll", "register"} \/ j \in late
    /\ Catalogued /\ name = None /\ name' = Home(j) /\ (Managed => zero[j] = j)

DropsName(j) == pc[j] = "drop" /\ Managed /\ name = j /\ name' = None

NameStep(j) == UNCHANGED name \/ TakesName(j) \/ DropsName(j)

\* Version 0 is put where there is none.
LEMMA PutZeroMakes ==
    ASSUME TypeOK, NEW j \in Job, pc[j] \in {"new", "publish", "create"}, PutZero(Home(j), j)
    PROVE  TablesStep(j) /\ logDir' \in BOOLEAN
<1>1. Home(j) \in Location
  BY DEF Home, Location
<1> QED  BY <1>1 DEF TypeOK, PutZero, TablesStep, MakesTable

\* A commit is added to the table a call commits to.
LEMMA AddCommitAdds ==
    ASSUME TypeOK, NEW j \in Job, pc[j] \in {"put", "append"}, Undisturbed,
           zero[target[j]] # None, Managed => name = target[j], AddCommit(j, target[j])
    PROVE  TablesStep(j) /\ logDir' \in BOOLEAN
BY DEF TypeOK, AddCommit, TablesStep, AddsCommit

\* Where a call is tells its method.
LEMMA WhichCall ==
    ASSUME NEW j \in Job, Control(j)
    PROVE  /\ pc[j] \in {"create", "enroll", "raised", "created", "existing", "append", "cleanup",
                         "rmtree"} => ~Planned(j)
           /\ pc[j] \in {"planned", "abort"} \cup Committing \cup Undoing => Planned(j)
BY DEF Control, Unwritten, Committing, Undoing

\* What a step of a call does to the tables.
LEMMA CallTables ==
    ASSUME TypeOK, Fixed, NEW j \in Job, SafeCall(j), CallStep(j)
    PROVE  TablesStep(j) /\ logDir' \in BOOLEAN
<1> USE DEF SafeCall
<1>0. CASE UNCHANGED tables
  BY <1>0 DEF TypeOK, TablesStep, tables
<1>1. CASE PlanWrite(j)
  BY <1>1, <1>0, PutZeroMakes DEF PlanWrite, Stage, Home
<1>2. CASE Publish(j)
  <2>1. Home(j) = Shared
    BY <1>2 DEF Control, Publish, Planned, Unwritten, Home
  <2> QED  BY <1>2, <1>0, <2>1, PutZeroMakes DEF Publish
<1>3. CASE Put(j)
  <2>1. Planned(j)
    BY <1>3 DEF Control, Put
  <2>2. zero[target[j]] # None
    BY <1>3, <2>1 DEF Target, Put
  <2> QED  BY <1>3, <1>0, <2>2, AddCommitAdds DEF Put, Current
<1>4. CASE PutUnanswered(j)
  <2>1. Planned(j)
    BY <1>4 DEF Control, PutUnanswered
  <2>2. zero[target[j]] # None
    BY <1>4, <2>1 DEF Target, PutUnanswered
  <2> QED  BY <1>4, <1>0, <2>2, AddCommitAdds DEF PutUnanswered, Current
<1>5. CASE UndoDrop(j)
  <2>1. CASE Managed
    BY <1>5, <2>1 DEF UndoDrop, TypeOK, TablesStep
  <2>2. CASE ~Managed
    BY <1>5, <2>2 DEF UndoDrop, TypeOK, TablesStep, RemovesTable, Removal, Home
  <2> QED  BY <2>1, <2>2
<1>6. CASE CreateLog(j)
  BY <1>6, <1>0, PutZeroMakes DEF CreateLog
<1>7. CASE AppendData(j)
  BY <1>7, <1>0, AddCommitAdds DEF AppendData, Live
<1>8. CASE RemoveLog(j)
  <2>1. setting.kind = "local"
    BY <1>8, WhichCall DEF RemoveLog, Control
  <2>2. zero[Shared] = j /\ commits[Shared] = <<>>
    BY <1>8, <2>1 DEF RemoveLog, Removal, Home, Managed
  <2>3. commits' = commits
    BY <1>8, <2>2 DEF RemoveLog, TypeOK
  <2> QED  BY <1>8, <2>1, <2>2, <2>3 DEF RemoveLog, TypeOK, TablesStep, RemovesTable, Managed
<1> QED
  BY <1>0, <1>1, <1>2, <1>3, <1>4, <1>5, <1>6, <1>7, <1>8 DEF CallStep, PlanStep, WriteStep,
     PlanRefused, WriteFiles, CommitCall, Open, Finalize, FinalizeLate, RegisteredAnyway,
     CertainlyAbsent, Resolve, Attempt, Landed, Register, CertainFailure, UndoCheck, Discard,
     AbortCall, CheckExists, Enroll, CreateRaised, Created, WriteExisting, CleanupCheck

\* What a step of a call does to the name.
LEMMA CallName ==
    ASSUME TypeOK, Fixed, NEW j \in Job, SafeCall(j), CallStep(j) PROVE NameStep(j)
<1> USE DEF SafeCall
<1>0. CASE UNCHANGED name
  BY <1>0 DEF NameStep
<1>1. CASE Finalize(j)
  <2>1. Planned(j) /\ Managed
    BY <1>1 DEF Control, Finalize
  <2>2. zero[j] = j
    BY <1>1, <2>1 DEF Creation, Finalize
  <2> QED  BY <1>1, <1>0, <2>1, <2>2 DEF Finalize, Claim, NameStep, TakesName, Home, Catalogued, Managed
<1>2. CASE FinalizeLate(j)
  <2>1. Managed /\ zero[j] = j
    BY <1>2 DEF FinalizeLate, Creation
  <2> QED  BY <1>2, <2>1 DEF FinalizeLate, NameStep, TakesName, Home, Catalogued, Managed
<1>3. CASE Register(j)
  <2>1. setting.kind = "external"
    BY <1>3 DEF Control, Register
  <2> QED  BY <1>3, <1>0, <2>1 DEF Register, Claim, NameStep, TakesName, Home, Catalogued, Managed
<1>4. CASE Enroll(j)
  <2>1. Catalogued /\ zero[Home(j)] = j
    BY <1>4, WhichCall DEF Control, Creation, Enroll
  <2> QED  BY <1>4, <1>0, <2>1 DEF Enroll, Claim, NameStep, TakesName, Home
<1>5. CASE UndoDrop(j)
  <2>1. CASE Managed
    BY <1>5, <1>0, <2>1 DEF UndoDrop, Removal, NameStep, DropsName
  <2> QED  BY <1>5, <1>0, <2>1 DEF UndoDrop
<1> QED
  BY <1>0, <1>1, <1>2, <1>3, <1>4, <1>5 DEF CallStep, PlanStep, WriteStep, PlanWrite, PlanRefused,
     WriteFiles, CommitCall, Publish, Open, RegisteredAnyway, CertainlyAbsent, Resolve, Attempt,
     Put, PutUnanswered, Landed, CertainFailure, UndoCheck, Discard, AbortCall, CheckExists,
     CreateLog, CreateRaised, Created, WriteExisting, AppendData, CleanupCheck, RemoveLog

-----------------------------------------------------------------------------
(* A step as the calls see it that do not take it. *)

\* Who else makes tables and commits.
Writers(k) == (Job \ {k}) \cup {Other}

\* Their own variables stay.
OwnStays(k) ==
    /\ pc'[k] = pc[k] /\ result'[k] = result[k] /\ calls'[k] = calls[k] /\ attempt'[k] = attempt[k]
    /\ target'[k] = target[k] /\ identity'[k] = identity[k] /\ base'[k] = base[k]
    /\ existed'[k] = existed[k]
    /\ k \in late' <=> k \in late
    /\ k \in files' <=> k \in files
    /\ k \in template' <=> k \in template

\* A table is created where there is none, or one that is not theirs is removed, empty
\* and out of no commit's way.
ZeroSeen(k) ==
    \A l \in Location :
        \/ zero'[l] = zero[l]
        \/ zero[l] = None /\ zero'[l] \in Writers(k)
        \/ /\ zero'[l] = None /\ zero[l] \in Job \ {k} /\ ~Managed /\ l = Shared
           /\ commits[l] = <<>> /\ commits'[l] = <<>> /\ pc[k] # "put"

\* Another writer commits to a table that is there.
CommitsSeen(k) ==
    \A l \in Location :
        \/ commits'[l] = commits[l]
        \/ /\ \E i \in Writers(k) : commits'[l] = Append(commits[l], i)
           /\ zero[l] # None /\ zero'[l] = zero[l] /\ pc[k] \notin {"drop", "rmtree"}

\* The name is registered by others, or dropped by them.
NameSeen(k) ==
    \/ name' = name
    \/ name = None /\ (Managed => name' # k)
    \/ /\ name' = None
       /\ \/ "drop" \in Faults /\ pc[k] \notin {"abort", "undo", "drop"}
          \/ Managed /\ name # k

\* What a step of another call, or of the other writer, is to a call.
Seen(k) == setting' = setting /\ OwnStays(k) /\ ZeroSeen(k) /\ CommitsSeen(k) /\ NameSeen(k)

\* The other calls see a call's step so.
LEMMA CallSeen ==
    ASSUME TypeOK, Fixed, Excluded, SafeCalls, UNCHANGED setting,
           NEW j \in Job, NEW k \in Job \ {j}, CallStep(j)
    PROVE  Seen(k)
<1>1. SafeCall(j)
  BY DEF SafeCalls
<1>2. OwnStays(k)
  BY CallMoves, CallOwnVariables, CallOwnSets
  DEF MovesCall, OwnVariables, OwnSets, Only, Spares, OwnStays
<1>3. TablesStep(j) /\ NameStep(j)
  BY <1>1, CallTables, CallName
<1>4. Home(j) \in Location /\ target[j] \in Location /\ Shared \in Location
  BY DEF Home, Location, TypeOK
<1>5. ZeroSeen(k) /\ CommitsSeen(k)
  <2>1. CASE UNCHANGED <<zero, commits>>
    BY <2>1 DEF ZeroSeen, CommitsSeen
  <2>2. CASE MakesTable(j)
    BY <2>2, <1>4 DEF MakesTable, ZeroSeen, CommitsSeen, Writers, TypeOK
  <2>3. CASE AddsCommit(j)
    <3>1. pc[k] \notin {"drop", "rmtree"}
      BY <2>3 DEF AddsCommit, Undisturbed, Fails, Fixed
    <3>2. j \in Writers(k)
      BY DEF Writers
    <3> QED  BY <2>3, <3>1, <3>2, <1>4 DEF AddsCommit, ZeroSeen, CommitsSeen, TypeOK
  <2>4. CASE RemovesTable(j)
    <3>1. pc[k] # "put"
      BY <2>4 DEF RemovesTable, Excluded
    <3> QED  BY <2>4, <3>1, <1>4 DEF RemovesTable, ZeroSeen, CommitsSeen, TypeOK
  <2> QED  BY <1>3, <2>1, <2>2, <2>3, <2>4 DEF TablesStep
<1>6. NameSeen(k)
  BY <1>3 DEF NameStep, TakesName, DropsName, NameSeen, Home
<1> QED  BY <1>2, <1>5, <1>6 DEF Seen

\* A step of the other writer.
OthersStep == OtherCreate \/ OtherCommit \/ OtherDrop

\* All calls see a step of the other writer so.
LEMMA OtherSeen ==
    ASSUME TypeOK, Fixed, UNCHANGED setting, NEW k \in Job, OthersStep
    PROVE  Seen(k)
<1> USE ConstantsAssumption
<1>1. OwnStays(k) /\ Undisturbed
  BY DEF OthersStep, OtherCreate, OtherCommit, OtherDrop, OtherStep, caller, OwnStays
<1>2. pc[k] \notin {"drop", "rmtree"}
  BY <1>1 DEF Undisturbed, Fixed, Fails
<1>3. CASE OtherCreate
  <2>1. CommitsSeen(k)
    BY <1>3 DEF OtherCreate, PutZero, CommitsSeen
  <2>2. ZeroSeen(k)
    BY <1>3 DEF OtherCreate, PutZero, ZeroSeen, Writers, TypeOK, Location
  <2>3. NameSeen(k)
    BY <1>3 DEF OtherCreate, NameSeen, Managed
  <2> QED  BY <1>1, <2>1, <2>2, <2>3 DEF Seen
<1>4. CASE OtherCommit
  <2>1. ZeroSeen(k) /\ NameSeen(k)
    BY <1>4 DEF OtherCommit, AddCommit, ZeroSeen, NameSeen
  <2>2. CommitsSeen(k)
    BY <1>2, <1>4 DEF OtherCommit, AddCommit, Live, CommitsSeen, Writers, TypeOK
  <2> QED  BY <1>1, <2>1, <2>2 DEF Seen
<1>5. CASE OtherDrop
  <2>1. ZeroSeen(k) /\ CommitsSeen(k)
    BY <1>5 DEF OtherDrop, tables, ZeroSeen, CommitsSeen
  <2>2. NameSeen(k)
    BY <1>2, <1>5 DEF OtherDrop, NameSeen, Fixed, Fails
  <2> QED  BY <1>1, <2>1, <2>2 DEF Seen
<1> QED  BY <1>3, <1>4, <1>5 DEF OthersStep

-----------------------------------------------------------------------------
(* What the others do leaves a call as it is. *)

\* The setting is fixed.
LEMMA SettingFixed ==
    ASSUME UNCHANGED setting
    PROVE  /\ Fixed => Fixed'
           /\ Managed' = Managed /\ Catalogued' = Catalogued /\ Faults' = Faults
           /\ \A j : /\ Home(j)' = Home(j) /\ Planned(j)' = Planned(j) /\ Mode(j)' = Mode(j)
                     /\ Keeps(j)' = Keeps(j) /\ WritesTable(j)' = WritesTable(j)
BY DEF Fixed, Managed, Catalogued, Faults, Home, Planned, Mode, Keeps, WritesTable

\* Nobody else commits for a call.
LEMMA SeenLanded ==
    ASSUME TypeOK, NEW k \in Job, CommitsSeen(k), NEW l \in Location
    PROVE  /\ LandedIn(k, l)' <=> LandedIn(k, l)
           /\ \A m \in DOMAIN commits'[l] : commits'[l][m] = k =>
                 m \in DOMAIN commits[l] /\ commits[l][m] = k
<1> USE ConstantsAssumption DEF TypeOK
<1>1. CASE commits'[l] = commits[l]
  BY <1>1 DEF LandedIn
<1>2. CASE commits'[l] # commits[l]
  <2>1. PICK i \in Writers(k) : commits'[l] = Append(commits[l], i)
    BY <1>2 DEF CommitsSeen
  <2>2. i # k /\ i \in Job \cup {Other}
    BY DEF Writers
  <2>3. \A m \in DOMAIN commits[l] : m \in DOMAIN commits'[l] /\ commits'[l][m] = commits[l][m]
    BY <2>1, <2>2
  <2>4. \A m \in DOMAIN commits'[l] : m \in DOMAIN commits[l] \/ commits'[l][m] = i
    BY <2>1, <2>2
  <2> QED  BY <2>2, <2>3, <2>4 DEF LandedIn
<1> QED  BY <1>1, <1>2

\* What a commit adds is there, after what was there.
LEMMA AppendFacts ==
    ASSUME NEW S, NEW s \in Seq(S), NEW i \in S
    PROVE  /\ Append(s, i) # <<>>
           /\ Append(s, i) \in Seq(S)
           /\ DOMAIN Append(s, i) = DOMAIN s \cup {Len(s) + 1}
           /\ \A m \in DOMAIN s : Append(s, i)[m] = s[m]
           /\ Append(s, i)[Len(s) + 1] = i
<1>1. Len(Append(s, i)) = Len(s) + 1 /\ Len(<<>>) = 0 /\ Len(s) \in Nat
  OBVIOUS
<1>2. DOMAIN Append(s, i) = 1..(Len(s) + 1) /\ DOMAIN s = 1..Len(s)
  OBVIOUS
<1> QED  BY <1>1, <1>2

\* A table with commits stays.
LEMMA SeenStands ==
    ASSUME TypeOK, Places, NEW k \in Job, ZeroSeen(k), CommitsSeen(k), NEW l \in Location, commits[l] # <<>>
    PROVE  zero'[l] = zero[l] /\ commits'[l] # <<>>
<1>1. zero'[l] = zero[l]
  BY DEF ZeroSeen, Places
<1>2. CASE commits'[l] = commits[l]
  BY <1>1, <1>2
<1>3. CASE commits'[l] # commits[l]
  <2>1. PICK i \in Writers(k) : commits'[l] = Append(commits[l], i)
    BY <1>3 DEF CommitsSeen
  <2>2. Append(commits[l], i) # <<>>
    <3>1. commits[l] \in Seq(Job \cup {Other}) /\ i \in Job \cup {Other}
      BY DEF TypeOK, Writers
    <3> QED  BY <3>1, AppendFacts
  <2> QED  BY <1>1, <2>1, <2>2
<1> QED  BY <1>1, <1>2, <1>3

\* What is a call's own stays, and the others make none of it.
LEMMA SeenOwn ==
    ASSUME NEW k \in Job, ZeroSeen(k), NEW l \in Location
    PROVE  zero'[l] = k <=> zero[l] = k
BY ConstantsAssumption DEF ZeroSeen, Writers

\* The invariant of a call is stable under the others' steps.
LEMMA SeenSafe ==
    ASSUME TypeOK, Fixed, Places, NEW k \in Job, SafeCall(k), Seen(k)
    PROVE  SafeCall(k)'
<1>1. setting' = setting /\ OwnStays(k) /\ ZeroSeen(k) /\ CommitsSeen(k) /\ NameSeen(k)
  BY DEF Seen
<1> USE <1>1, SettingFixed
<1>2. Home(k) \in Location /\ target[k] \in Location
  BY DEF Home, Location, TypeOK
<1>3. \A l \in Location : (zero'[l] = k <=> zero[l] = k) /\ (LandedIn(k, l)' <=> LandedIn(k, l))
  BY SeenOwn, SeenLanded
<1>4. Control(k)'
  BY DEF SafeCall, Control, OwnStays
<1>5. Removal(k)'
  <2>1. Removal(k)
    BY DEF SafeCall
  <2>2. pc[k] \in {"drop", "rmtree"} => commits'[Home(k)] = commits[Home(k)]
    BY <1>2 DEF CommitsSeen
  <2>3. Managed /\ pc[k] \in {"abort", "undo", "drop"} => name' = name
    BY <2>1, ConstantsAssumption DEF NameSeen, Removal
  <2> QED  BY <1>2, <1>3, <2>1, <2>2, <2>3 DEF Removal, OwnStays
<1>6. Creation(k)'
  <2>1. Managed => Home(k) = k
    BY DEF Home
  <2>2. Managed /\ name # k => name' # k
    BY ConstantsAssumption DEF NameSeen
  <2> QED  BY <1>2, <1>3, <2>1, <2>2 DEF SafeCall, Creation, OwnStays
<1>7. Target(k)'
  <2>1. Target(k)
    BY DEF SafeCall
  <2>2. pc[k] = "put" => Planned(k) /\ identity[k] # None
    BY <2>1, WhichCall DEF SafeCall, Committing, Target
  <2>3. pc[k] = "put" => zero'[target[k]] = zero[target[k]]
    BY <1>2, <2>1, <2>2 DEF ZeroSeen, Target
  <2> QED  BY <1>2, <1>3, <2>1, <2>3 DEF Target, OwnStays
<1>8. LandsOnce(k)'
  BY SeenLanded DEF SafeCall, LandsOnce
<1>9. LandsThere(k)'
  BY <1>3 DEF SafeCall, LandsThere, OwnStays
<1>10. Told(k)'
  <2>1. HasLanded(k)' <=> HasLanded(k)
    BY <1>3 DEF HasLanded
  <2> QED  BY <2>1 DEF SafeCall, Told, OwnStays
<1> QED  BY <1>4, <1>5, <1>6, <1>7, <1>8, <1>9, <1>10 DEF SafeCall

-----------------------------------------------------------------------------
(* Types, tables and the exclusion of commits and undos. *)

\* A step of a call keeps the types.
LEMMA CallTypeOK ==
    ASSUME TypeOK, Fixed, NEW j \in Job, SafeCall(j), CallStep(j), met' \subseteq Job PROVE TypeOK'
<1>1. MovesCall(j) /\ OwnVariables(j) /\ OwnSets(j)
  BY CallMoves, CallOwnVariables, CallOwnSets
<1>2. TablesStep(j) /\ NameStep(j) /\ logDir' \in BOOLEAN
  BY CallTables, CallName
<1>3. others' = others
  BY DEF CallStep, PlanStep, WriteStep, PlanWrite, PlanRefused, WriteFiles, CommitCall, Publish,
     Open, Finalize, FinalizeLate, RegisteredAnyway, CertainlyAbsent, Resolve, Attempt, Put,
     PutUnanswered, Landed, Register, CertainFailure, UndoCheck, UndoDrop, Discard, AbortCall,
     CheckExists, CreateLog, Enroll, CreateRaised, Created, WriteExisting, AppendData, CleanupCheck,
     RemoveLog
<1>4. Home(j) \in Location /\ Shared \in Location /\ None \notin Location
  BY ConstantsAssumption DEF Home, Location
<1>5. zero' \in [Location -> Job \cup {Other, None}]
  BY <1>2, <1>4 DEF TypeOK, TablesStep, MakesTable, AddsCommit, RemovesTable
<1>6. commits' \in [Location -> Seq(Job \cup {Other})]
  <2>1. CASE commits' = commits
    BY <2>1 DEF TypeOK
  <2>2. CASE AddsCommit(j)
    <3>1. target[j] \in Location /\ commits[target[j]] \in Seq(Job \cup {Other})
      BY DEF TypeOK
    <3>2. Append(commits[target[j]], j) \in Seq(Job \cup {Other})
      BY <3>1, AppendFacts
    <3> QED  BY <2>2, <3>2 DEF TypeOK, AddsCommit
  <2> QED  BY <1>2, <2>1, <2>2 DEF TablesStep, MakesTable, RemovesTable
<1>7. name' \in Location \cup {None}
  BY <1>2, <1>4 DEF TypeOK, NameStep, TakesName, DropsName
<1> QED  BY <1>1, <1>2, <1>3, <1>5, <1>6, <1>7
  DEF TypeOK, MovesCall, OwnVariables, OwnSets, Only, Spares, Pcs, Results

\* A step of the other writer keeps the types.
LEMMA OtherTypeOK == ASSUME TypeOK, OthersStep, met' \subseteq Job PROVE TypeOK'
<1> USE ConstantsAssumption
<1>1. /\ UNCHANGED <<late, files, template, pc, calls, attempt, target, identity, base, existed, result>>
      /\ others' \in 0..MaxOthers
  BY DEF OthersStep, OtherCreate, OtherCommit, OtherDrop, OtherStep, caller, TypeOK
<1>2. /\ zero' \in [Location -> Job \cup {Other, None}] /\ logDir' \in BOOLEAN
      /\ name' \in Location \cup {None}
  <2>1. CASE OtherCreate
    <3>1. PICK l \in {Shared, Other} : PutZero(l, Other)
      BY <2>1 DEF OtherCreate
    <3>2. zero' \in [Location -> Job \cup {Other, None}] /\ logDir' \in BOOLEAN
      BY <3>1 DEF PutZero, TypeOK, Location
    <3>3. name' \in {name, Shared, Other}
      BY <2>1 DEF OtherCreate
    <3> QED  BY <3>2, <3>3 DEF TypeOK, Location
  <2>2. CASE OtherCommit \/ OtherDrop
    BY <2>2 DEF OtherCommit, OtherDrop, AddCommit, tables, TypeOK
  <2> QED  BY <2>1, <2>2 DEF OthersStep
<1>3. commits' \in [Location -> Seq(Job \cup {Other})]
  <2>1. CASE OtherCreate \/ OtherDrop
    BY <2>1 DEF OtherCreate, OtherDrop, PutZero, tables, TypeOK
  <2>2. CASE OtherCommit
    <3>1. PICK l \in Location : commits' = [commits EXCEPT ![l] = Append(@, Other)]
      BY <2>2 DEF OtherCommit, AddCommit
    <3>2. Append(commits[l], Other) \in Seq(Job \cup {Other})
      BY AppendFacts DEF TypeOK
    <3> QED  BY <3>1, <3>2 DEF TypeOK
  <2> QED  BY <2>1, <2>2 DEF OthersStep
<1> QED  BY <1>1, <1>2, <1>3 DEF TypeOK

\* A step of a call keeps the tables and the name in order.
LEMMA CallPlaces ==
    ASSUME TypeOK, Fixed, Places, UNCHANGED setting, NEW j \in Job, SafeCall(j), CallStep(j)
    PROVE  Places'
<1> USE ConstantsAssumption, SettingFixed
<1>1. TablesStep(j) /\ NameStep(j)
  BY CallTables, CallName
<1>2. Home(j) \in Location /\ target[j] \in Location /\ Shared \in Location /\ None \notin Location
  BY DEF Home, Location, TypeOK
<1>3. \A l \in Location : zero'[l] = None => commits'[l] = <<>>
  BY <1>1, <1>2 DEF TablesStep, MakesTable, AddsCommit, RemovesTable, Places, TypeOK
<1>4. /\ \A k \in Job : zero'[k] = None \/ (zero'[k] = k /\ Managed)
      /\ zero'[Other] = None \/ (zero'[Other] = Other /\ Catalogued)
      /\ zero'[Shared] = None \/ ~Managed
  <2>1. CASE zero' = zero
    BY <2>1 DEF Places
  <2>2. CASE MakesTable(j)
    BY <2>2, <1>2 DEF MakesTable, Places, TypeOK, Home, Location
  <2>3. CASE RemovesTable(j)
    BY <2>3, <1>2 DEF RemovesTable, Places, TypeOK, Location
  <2> QED  BY <1>1, <2>1, <2>2, <2>3 DEF TablesStep, AddsCommit
<1>5. Managed => \A l \in Location : zero[l] # None => zero'[l] = zero[l]
  BY <1>1, <1>2 DEF TablesStep, MakesTable, AddsCommit, RemovesTable, TypeOK
<1>6. name' # None => Catalogued /\ (IF Managed THEN zero'[name'] = name' ELSE name' \in {Shared, Other})
  <2>1. CASE UNCHANGED name
    BY <1>5, <2>1 DEF Places, TypeOK
  <2>2. CASE TakesName(j)
    BY <1>2, <1>5, <2>2 DEF TakesName, Home
  <2>3. CASE DropsName(j)
    BY <2>3 DEF DropsName
  <2> QED  BY <1>1, <2>1, <2>2, <2>3 DEF NameStep
<1> QED  BY <1>3, <1>4, <1>6 DEF Places

\* So does a step of the other writer.
LEMMA OtherPlaces ==
    ASSUME TypeOK, Fixed, Places, UNCHANGED setting, OthersStep PROVE Places'
<1> USE ConstantsAssumption, SettingFixed
<1>1. CASE OtherCreate
  <2>1. CASE /\ ~Managed /\ zero[Shared] = None /\ PutZero(Shared, Other)
             /\ name' = name \/ (name' = Shared /\ Catalogued)
    <3>1. \A l \in Location \ {Shared} : zero'[l] = zero[l]
      BY <2>1 DEF PutZero, TypeOK
    <3>2. zero'[Shared] = Other /\ commits' = commits
      BY <2>1 DEF PutZero, TypeOK, Location
    <3> QED  BY <2>1, <3>1, <3>2 DEF Places, Location
  <2>2. CASE Catalogued /\ name = None /\ zero[Other] = None /\ PutZero(Other, Other) /\ name' = Other
    BY <2>2 DEF Places, PutZero, TypeOK, Location
  <2> QED  BY <1>1, <2>1, <2>2 DEF OtherCreate, Catalogued
<1>2. CASE OtherCommit
  BY <1>2 DEF OtherCommit, AddCommit, Live, Places, TypeOK
<1>3. CASE OtherDrop
  BY <1>3 DEF OtherDrop, tables, Places
<1> QED  BY <1>1, <1>2, <1>3 DEF OthersStep

\* A snapshot waits for the undos under way, an undo for the commits under way.
LEMMA CallWaits ==
    ASSUME TypeOK, Fixed, NEW j \in Job, CallStep(j), pc'[j] # pc[j]
    PROVE  /\ pc'[j] = "put" => \A k \in Job : pc[k] \notin {"drop", "rmtree"}
           /\ pc'[j] \in {"drop", "rmtree"} => \A k \in Job \ {j} : pc[k] # "put"
<1> USE DEF TypeOK, Goto, Ending, Finish
<1>1. CASE Attempt(j)
  BY <1>1 DEF Attempt, Undisturbed, Fixed, Fails
<1>2. CASE UndoCheck(j)
  BY <1>2 DEF UndoCheck, Quiet, Fixed, Fails
<1>3. CASE CleanupCheck(j)
  BY <1>3 DEF CleanupCheck, Quiet, Fixed, Fails
<1>4. CASE PlanWrite(j)
  BY <1>4 DEF PlanWrite, SaveMode
<1>5. CASE PlanRefused(j)
  BY <1>5 DEF PlanRefused
<1>6. CASE WriteFiles(j)
  BY <1>6 DEF WriteFiles
<1>7. CASE CommitCall(j)
  BY <1>7 DEF CommitCall
<1>8. CASE Publish(j)
  BY <1>8 DEF Publish
<1>9. CASE Open(j)
  BY <1>9 DEF Open, Retarget
<1>10. CASE Finalize(j)
  BY <1>10 DEF Finalize
<1>11. CASE FinalizeLate(j)
  BY <1>11 DEF FinalizeLate
<1>12. CASE RegisteredAnyway(j)
  BY <1>12 DEF RegisteredAnyway
<1>13. CASE CertainlyAbsent(j)
  BY <1>13 DEF CertainlyAbsent
<1>14. CASE Resolve(j)
  BY <1>14 DEF Resolve, Retarget
<1>15. CASE Put(j)
  BY <1>15 DEF Put
<1>16. CASE PutUnanswered(j)
  BY <1>16 DEF PutUnanswered, UnknownOutcome
<1>17. CASE Landed(j)
  BY <1>17 DEF Landed
<1>18. CASE Register(j)
  BY <1>18 DEF Register
<1>19. CASE CertainFailure(j)
  BY <1>19 DEF CertainFailure
<1>20. CASE UndoDrop(j)
  BY <1>20 DEF UndoDrop
<1>21. CASE Discard(j)
  BY <1>21 DEF Discard
<1>22. CASE AbortCall(j)
  BY <1>22 DEF AbortCall
<1>23. CASE CheckExists(j)
  BY <1>23 DEF CheckExists, SaveMode
<1>24. CASE CreateLog(j)
  BY <1>24 DEF CreateLog
<1>25. CASE Enroll(j)
  BY <1>25 DEF Enroll
<1>26. CASE CreateRaised(j)
  BY <1>26 DEF CreateRaised
<1>27. CASE Created(j)
  BY <1>27 DEF Created
<1>28. CASE WriteExisting(j)
  BY <1>28 DEF WriteExisting
<1>29. CASE AppendData(j)
  BY <1>29 DEF AppendData
<1>30. CASE RemoveLog(j)
  BY <1>30 DEF RemoveLog
<1> QED  BY <1>1, <1>2, <1>3, <1>4, <1>5, <1>6, <1>7, <1>8, <1>9, <1>10, <1>11, <1>12, <1>13, <1>14,
     <1>15, <1>16, <1>17, <1>18, <1>19, <1>20, <1>21, <1>22, <1>23, <1>24, <1>25, <1>26, <1>27,
     <1>28, <1>29, <1>30 DEF CallStep, PlanStep, WriteStep

\* Commits and undos keep excluding each other.
LEMMA CallExcluded ==
    ASSUME TypeOK, Fixed, Excluded, NEW j \in Job, CallStep(j) PROVE Excluded'
<1>1. \A k \in Job \ {j} : pc'[k] = pc[k]
  BY CallMoves DEF MovesCall, Only
<1> QED  BY <1>1, CallWaits DEF Excluded

-----------------------------------------------------------------------------
(* What a call's own step leaves of its invariant. *)

\* A call goes on as its method, mode and kind of name have it.
LEMMA CallControl ==
    ASSUME TypeOK, Fixed, UNCHANGED setting, NEW j \in Job, Control(j), Target(j), CallStep(j)
    PROVE  Control(j)'
<1> USE SettingFixed DEF Control, TypeOK, Goto, Ending, Finish, Unwritten, Committing, Undoing
<1>1. CASE PlanWrite(j)
  <2>1. Planned(j)
    BY <1>1 DEF PlanWrite, Planned
  <2>2. \/ pc'[j] = "planned" /\ result'[j] = result[j]
        \/ pc'[j] = "idle" /\ result'[j] \in {"refused", "ignored", "existing"}
    BY <1>1 DEF PlanWrite, SaveMode
  <2> QED  BY <1>1, <2>1, <2>2 DEF PlanWrite
<1>2. CASE PlanRefused(j)
  BY <1>2 DEF PlanRefused
<1>3. CASE WriteFiles(j)
  BY <1>3 DEF WriteFiles
<1>4. CASE CommitCall(j)
  <2>1. pc'[j] = (IF Managed THEN "finalize" ELSE "publish") /\ result'[j] = "none"
    BY <1>4 DEF CommitCall
  <2>2. calls'[j] > 0
    BY <1>4 DEF CommitCall
  <2>3. Planned(j)
    BY <1>4 DEF CommitCall, MayCall, Planned
  <2> QED  BY <2>1, <2>2, <2>3
<1>5. CASE Publish(j)
  BY <1>5 DEF Publish
<1>6. CASE Open(j)
  BY <1>6 DEF Open, Retarget
<1>7. CASE Finalize(j)
  BY <1>7 DEF Finalize, caller
<1>8. CASE FinalizeLate(j)
  BY <1>8 DEF FinalizeLate, caller
<1>9. CASE RegisteredAnyway(j)
  BY <1>9 DEF RegisteredAnyway, caller
<1>10. CASE CertainlyAbsent(j)
  BY <1>10 DEF CertainlyAbsent
<1>11. CASE Resolve(j)
  BY <1>11 DEF Resolve, Retarget
<1>12. CASE Attempt(j)
  BY <1>12 DEF Attempt
<1>13. CASE Put(j)
  BY <1>13 DEF Put
<1>14. CASE PutUnanswered(j)
  BY <1>14 DEF PutUnanswered, UnknownOutcome
<1>15. CASE Landed(j)
  BY <1>15 DEF Landed
<1>16. CASE Register(j)
  BY <1>16 DEF Register
<1>17. CASE CertainFailure(j)
  BY <1>17 DEF CertainFailure
<1>18. CASE UndoCheck(j)
  BY <1>18 DEF UndoCheck
<1>19. CASE UndoDrop(j)
  BY <1>19 DEF UndoDrop
<1>20. CASE Discard(j)
  BY <1>20 DEF Discard
<1>21. CASE AbortCall(j)
  <2>1. \/ pc'[j] \in {"undo", "discard"} /\ result'[j] = "aborted"
        \/ pc'[j] = "idle" /\ result'[j] = "landed"
    BY <1>21 DEF AbortCall
  <2>2. Planned(j)
    BY <1>21 DEF AbortCall, MayCall, Planned
  <2> QED  BY <2>1, <2>2
<1>22. CASE CheckExists(j)
  <2>1. ~Planned(j)
    BY <1>22 DEF CheckExists, Planned
  <2>2. \/ pc'[j] = "create" /\ result'[j] = result[j]
        \/ pc'[j] = "existing" /\ result'[j] = result[j] /\ Mode(j) \notin {"error", "ignore"}
        \/ pc'[j] = "idle" /\ result'[j] \in {"refused", "ignored", "existing"}
    BY <1>22 DEF CheckExists, SaveMode
  <2>3. Mode(j) \in {"append", "overwrite", "error", "ignore"}
    BY ConstantsAssumption DEF Fixed, Mode
  <2>4. setting.api[j] \in {"plan_write", "write_table", "create_table"}
        /\ (setting.api[j] = "create_table" => Mode(j) \in {"error", "ignore"})
    BY ConstantsAssumption DEF Fixed, Mode
  <2> QED  BY <1>22, <2>1, <2>2, <2>3, <2>4 DEF CheckExists, Planned, WritesTable
<1>23. CASE CreateLog(j)
  BY <1>23 DEF CreateLog
<1>24. CASE Enroll(j)
  BY <1>24 DEF Enroll
<1>25. CASE CreateRaised(j)
  <2>1. ~Planned(j)
    BY <1>25, WhichCall DEF CreateRaised
  <2>2. \/ /\ pc'[j] = "existing" /\ result'[j] = result[j]
           /\ setting.api[j] # "create_table" /\ Mode(j) \notin {"error", "ignore"}
        \/ pc'[j] = "idle" /\ result'[j] \in {"refused", "ignored"}
    BY <1>25 DEF CreateRaised
  <2>3. Mode(j) \in {"append", "overwrite", "error", "ignore"}
    BY ConstantsAssumption DEF Fixed, Mode
  <2>4. setting.api[j] \in {"plan_write", "write_table", "create_table"}
    BY ConstantsAssumption DEF Fixed
  <2> QED  BY <1>25, <2>1, <2>2, <2>3, <2>4 DEF CreateRaised, Planned, WritesTable
<1>26. CASE Created(j)
  <2>1. ~Planned(j)
    BY <1>26, WhichCall DEF Created
  <2>2. \/ pc'[j] = "append" /\ result'[j] = result[j] /\ setting.api[j] # "create_table"
        \/ pc'[j] = "idle" /\ result'[j] = "created"
    BY <1>26 DEF Created
  <2>3. setting.api[j] \in {"plan_write", "write_table", "create_table"}
    BY ConstantsAssumption DEF Fixed
  <2> QED  BY <1>26, <2>1, <2>2, <2>3 DEF Created, Planned, WritesTable
<1>27. CASE WriteExisting(j)
  BY <1>27 DEF WriteExisting
<1>28. CASE AppendData(j)
  BY <1>28 DEF AppendData
<1>29. CASE CleanupCheck(j)
  BY <1>29 DEF CleanupCheck
<1>30. CASE RemoveLog(j)
  BY <1>30 DEF RemoveLog
<1> QED  BY <1>1, <1>2, <1>3, <1>4, <1>5, <1>6, <1>7, <1>8, <1>9, <1>10, <1>11, <1>12, <1>13, <1>14,
     <1>15, <1>16, <1>17, <1>18, <1>19, <1>20, <1>21, <1>22, <1>23, <1>24, <1>25, <1>26, <1>27,
     <1>28, <1>29, <1>30 DEF CallStep, PlanStep, WriteStep

\* What a call removes is its own, and empty: it looked.
LEMMA CallRemoval ==
    ASSUME TypeOK, Fixed, UNCHANGED setting, NEW j \in Job, SafeCall(j), CallStep(j)
    PROVE  Removal(j)'
<1> USE SettingFixed DEF Removal, TypeOK, Goto, Ending, Finish, tables
<1>0. Control(j) /\ Removal(j) /\ Creation(j) /\ Target(j)
  BY DEF SafeCall
<1>1. CASE PlanWrite(j)
  BY <1>1 DEF PlanWrite, SaveMode
<1>2. CASE PlanRefused(j)
  BY <1>2 DEF PlanRefused
<1>3. CASE WriteFiles(j)
  BY <1>3 DEF WriteFiles
<1>4. CASE CommitCall(j)
  BY <1>4 DEF CommitCall, MayCall
<1>5. CASE Publish(j)
  BY <1>5 DEF Publish
<1>6. CASE Open(j)
  BY <1>6 DEF Open, Retarget
<1>7. CASE Finalize(j)
  BY <1>7 DEF Finalize
<1>8. CASE FinalizeLate(j)
  BY <1>8, <1>0 DEF FinalizeLate
<1>9. CASE RegisteredAnyway(j)
  BY <1>9 DEF RegisteredAnyway
<1>10. CASE CertainlyAbsent(j)
  BY <1>10 DEF CertainlyAbsent
<1>11. CASE Resolve(j)
  BY <1>11 DEF Resolve, Retarget
<1>12. CASE Attempt(j)
  BY <1>12 DEF Attempt
<1>13. CASE Put(j)
  <2>1. Planned(j)
    BY <1>13, <1>0, WhichCall DEF Put, Committing
  <2>2. target[j] = Home(j)
    BY <1>13, <1>0, <2>1 DEF Put, Target
  <2>3. pc'[j] \in {"landed", "idle", "attempt"} \/ (pc'[j] = "abort" /\ (Managed => name = target[j]))
    BY <1>13 DEF Put
  <2> QED  BY <1>13, <2>2, <2>3 DEF Put, Home
<1>14. CASE PutUnanswered(j)
  BY <1>14 DEF PutUnanswered, UnknownOutcome
<1>15. CASE Landed(j)
  BY <1>15 DEF Landed
<1>16. CASE Register(j)
  BY <1>16 DEF Register
<1>17. CASE CertainFailure(j)
  <2>1. pc'[j] \in {"undo", "discard"}
    BY <1>17 DEF CertainFailure
  <2> QED  BY <1>17, <1>0, <2>1 DEF CertainFailure
<1>18. CASE UndoCheck(j)
  <2>1. pc'[j] = "discard" \/ (pc'[j] = "drop" /\ StillEmpty(j))
    BY <1>18 DEF UndoCheck
  <2> QED  BY <1>18, <1>0, <2>1 DEF UndoCheck, StillEmpty, Own
<1>19. CASE UndoDrop(j)
  BY <1>19 DEF UndoDrop
<1>20. CASE Discard(j)
  BY <1>20 DEF Discard
<1>21. CASE AbortCall(j)
  <2>1. pc'[j] \in {"discard", "idle"} \/ (pc'[j] = "undo" /\ ~Uncreated(j))
    BY <1>21 DEF AbortCall
  <2> QED  BY <1>21, <2>1 DEF AbortCall, Uncreated
<1>22. CASE CheckExists(j)
  BY <1>22 DEF CheckExists, SaveMode
<1>23. CASE CreateLog(j)
  BY <1>23 DEF CreateLog
<1>24. CASE Enroll(j)
  BY <1>24 DEF Enroll
<1>25. CASE CreateRaised(j)
  BY <1>25 DEF CreateRaised
<1>26. CASE Created(j)
  BY <1>26 DEF Created
<1>27. CASE WriteExisting(j)
  BY <1>27 DEF WriteExisting
<1>28. CASE AppendData(j)
  BY <1>28 DEF AppendData
<1>29. CASE CleanupCheck(j)
  <2>1. ~Planned(j)
    BY <1>29, <1>0, WhichCall DEF CleanupCheck
  <2>2. \/ pc'[j] = "idle"
        \/ pc'[j] = "rmtree" /\ setting.kind = "local" /\ identity[j] = j /\ commits[Shared] = <<>>
    BY <1>29 DEF CleanupCheck
  <2>3. setting.kind = "local" => ~Managed /\ Home(j) = Shared
    BY DEF Managed, Home
  <2> QED  BY <1>29, <1>0, <2>1, <2>2, <2>3 DEF CleanupCheck, Creation
<1>30. CASE RemoveLog(j)
  BY <1>30 DEF RemoveLog
<1> QED  BY <1>1, <1>2, <1>3, <1>4, <1>5, <1>6, <1>7, <1>8, <1>9, <1>10, <1>11, <1>12, <1>13, <1>14,
     <1>15, <1>16, <1>17, <1>18, <1>19, <1>20, <1>21, <1>22, <1>23, <1>24, <1>25, <1>26, <1>27,
     <1>28, <1>29, <1>30 DEF CallStep, PlanStep, WriteStep

\* A version 0 of a call is where it creates tables.
LEMMA HomeOnly ==
    ASSUME Places, NEW j \in Job, NEW l \in Location, zero[l] = j
    PROVE  l = Home(j)
BY ConstantsAssumption DEF Places, Home, Location

\* Its own version 0 stays under a call, unless it removes it.
LEMMA OwnZero ==
    ASSUME TypeOK, NEW j \in Job, TablesStep(j)
    PROVE  /\ pc[j] \notin {"drop", "rmtree"} /\ zero[Home(j)] = j => zero'[Home(j)] = j
           /\ pc[j] \notin {"new", "publish", "create"} /\ zero[Home(j)] # j => zero'[Home(j)] # j
<1>1. Home(j) \in Location /\ Shared \in Location /\ target[j] \in Location
  BY DEF Home, Location, TypeOK
<1> QED  BY <1>1, ConstantsAssumption DEF TypeOK, TablesStep, MakesTable, AddsCommit, RemovesTable

\* A call makes one table, and knows which is its own.
LEMMA CallCreation ==
    ASSUME TypeOK, Fixed, Places, UNCHANGED setting, NEW j \in Job, SafeCall(j), CallStep(j)
    PROVE  Creation(j)'
<1> USE SettingFixed, ConstantsAssumption DEF TypeOK, Goto, Ending, Finish
<1>a. Control(j) /\ Creation(j) /\ Target(j)
  BY DEF SafeCall
<1>b. TablesStep(j)
  BY CallTables
<1>c. /\ pc[j] \notin {"drop", "rmtree"} /\ zero[Home(j)] = j => zero'[Home(j)] = j
      /\ pc[j] \notin {"new", "publish", "create"} /\ zero[Home(j)] # j => zero'[Home(j)] # j
  BY <1>b, OwnZero
<1>d. Home(j) \in Location /\ (Managed => Home(j) = j)
  BY DEF Home, Location
<1> HIDE ConstantsAssumption
<1>1. CASE PlanWrite(j)
  <2>1. Planned(j) /\ zero[Home(j)] # j /\ j \notin late
    BY <1>1, <1>a, <1>d DEF PlanWrite, Planned, Creation
  <2>2. CASE Exists
    BY <1>1, <2>1, <2>2 DEF PlanWrite, SaveMode, Creation
  <2>3. CASE ~Exists
    <3>1. pc'[j] = "planned"
      BY <1>1, <2>3 DEF PlanWrite
    <3>2. Managed => zero'[j] = j
      <4> SUFFICES ASSUME Managed PROVE zero'[j] = j
        OBVIOUS
      <4>1. PutZero(j, j) /\ j \in Location
        BY <1>1, <1>d, <2>3 DEF PlanWrite, Stage
      <4>2. zero[j] = None
        BY <1>d, <2>1 DEF Places
      <4> QED  BY <4>1, <4>2 DEF PutZero
    <3> QED  BY <1>1, <2>1, <3>1, <3>2 DEF PlanWrite, Creation
  <2> QED  BY <2>2, <2>3
<1>2. CASE PlanRefused(j)
  BY <1>2, <1>a, <1>c, <1>d, WhichCall DEF PlanRefused, Creation, Committing, Undoing, caller
<1>3. CASE WriteFiles(j)
  BY <1>3, <1>a, <1>c, <1>d, WhichCall DEF WriteFiles, Creation, Committing, Undoing, caller
<1>4. CASE CommitCall(j)
  BY <1>4, <1>a, <1>c, <1>d, WhichCall DEF CommitCall, MayCall, Creation, Committing, Undoing, caller
<1>5. CASE Publish(j)
  BY <1>5, <1>a, <1>c, <1>d, WhichCall DEF Publish, Creation, Committing, Undoing, caller
<1>6. CASE Open(j)
  BY <1>6, <1>a, <1>c, <1>d, WhichCall DEF Open, Retarget, Creation, Committing, Undoing, caller
<1>7. CASE Finalize(j)
  <2>1. Planned(j) /\ Managed /\ zero[j] = j /\ zero' = zero
    BY <1>7, <1>a, WhichCall DEF Finalize, Control, Creation, Committing, tables
  <2>2. j \in late' => "late" \in Faults
    BY <1>7, <1>a DEF Finalize, Creation, Fails
  <2>3. pc'[j] \in {"resolve", "registered"}
    BY <1>7 DEF Finalize
  <2> QED  BY <2>1, <2>2, <2>3 DEF Creation
<1>8. CASE FinalizeLate(j)
  <2>1. Planned(j) /\ j \notin late'
    BY <1>8, <1>a DEF FinalizeLate, Creation
  <2> QED  BY <1>8, <1>a, <2>1 DEF FinalizeLate, Creation, tables
<1>9. CASE RegisteredAnyway(j)
  BY <1>9, <1>a, <1>c, <1>d, WhichCall DEF RegisteredAnyway, Creation, Committing, Undoing, caller
<1>10. CASE CertainlyAbsent(j)
  BY <1>10, <1>a, <1>c, <1>d, WhichCall DEF CertainlyAbsent, Creation, Committing, Undoing, caller
<1>11. CASE Resolve(j)
  BY <1>11, <1>a, <1>c, <1>d, WhichCall DEF Resolve, Retarget, Creation, Committing, Undoing, caller
<1>12. CASE Attempt(j)
  BY <1>12, <1>a, <1>c, <1>d, WhichCall DEF Attempt, Creation, Committing, Undoing, caller
<1>13. CASE Put(j)
  BY <1>13, <1>a, <1>c, <1>d, WhichCall DEF Put, Creation, Committing, Undoing, caller
<1>14. CASE PutUnanswered(j)
  BY <1>14, <1>a, <1>c, <1>d, WhichCall DEF PutUnanswered, UnknownOutcome, Creation, Committing,
     Undoing, caller
<1>15. CASE Landed(j)
  BY <1>15, <1>a, <1>c, <1>d, WhichCall DEF Landed, Creation, Committing, Undoing, caller
<1>16. CASE Register(j)
  BY <1>16, <1>a, <1>c, <1>d, WhichCall DEF Register, Creation, Committing, Undoing, caller
<1>17. CASE CertainFailure(j)
  BY <1>17, <1>a, <1>c, <1>d, WhichCall DEF CertainFailure, Creation, Committing, Undoing, caller
<1>18. CASE UndoCheck(j)
  BY <1>18, <1>a, <1>c, <1>d, WhichCall DEF UndoCheck, Creation, Committing, Undoing, caller
<1>19. CASE UndoDrop(j)
  BY <1>19, <1>a, <1>c, <1>d, WhichCall DEF UndoDrop, Creation, Committing, Undoing, caller
<1>20. CASE Discard(j)
  BY <1>20, <1>a, <1>c, <1>d, WhichCall DEF Discard, Creation, Committing, Undoing, caller
<1>21. CASE AbortCall(j)
  BY <1>21, <1>a, <1>c, <1>d, WhichCall DEF AbortCall, MayCall, Creation, Committing, Undoing, caller
<1>22. CASE CheckExists(j)
  <2>1. ~Planned(j) /\ zero[Home(j)] # j /\ j \notin late /\ zero' = zero /\ late' = late
    BY <1>22, <1>a, <1>d DEF CheckExists, Planned, Creation, tables
  <2>2. pc'[j] \in {"idle", "create", "existing"}
    BY <1>22 DEF CheckExists, SaveMode
  <2> QED  BY <2>1, <2>2 DEF Creation
<1>23. CASE CreateLog(j)
  <2>1. ~Planned(j) /\ zero[Home(j)] # j /\ j \notin late /\ late' = late /\ name' = name
    BY <1>23, <1>a, WhichCall DEF CreateLog, Creation
  <2>2. pc'[j] \in {"raised", "idle"} \/ (pc'[j] \in {"enroll", "created"} /\ zero'[Home(j)] = j)
    BY <1>23, <1>d DEF CreateLog, PutZero
  <2>3. Managed => name # j
    BY <1>d, <2>1, ConstantsAssumption DEF Places
  <2> QED  BY <2>1, <2>2, <2>3 DEF Creation
<1>24. CASE Enroll(j)
  BY <1>24, <1>a, <1>c, <1>d, WhichCall DEF Enroll, Creation, Committing, Undoing, caller
<1>25. CASE CreateRaised(j)
  BY <1>25, <1>a, <1>c, <1>d, WhichCall DEF CreateRaised, Creation, Committing, Undoing, caller
<1>26. CASE Created(j)
  BY <1>26, <1>a, <1>c, <1>d, WhichCall DEF Created, Creation, Committing, Undoing, caller
<1>27. CASE WriteExisting(j)
  <2>1. ~Planned(j) /\ j \notin late /\ late' = late /\ zero' = zero
    BY <1>27, <1>a, WhichCall DEF WriteExisting, Creation, tables
  <2>2. \/ pc'[j] = "idle"
        \/ pc'[j] = "append" /\ target'[j] \in Location /\ identity'[j] = zero[target'[j]]
    BY <1>27 DEF WriteExisting, Location
  <2>3. \A l \in Location : zero[l] = j => l = Home(j)
    BY HomeOnly
  <2> QED  BY <2>1, <2>2, <2>3 DEF Creation
<1>28. CASE AppendData(j)
  BY <1>28, <1>a, <1>c, <1>d, WhichCall DEF AppendData, Creation, Committing, Undoing, caller
<1>29. CASE CleanupCheck(j)
  BY <1>29, <1>a, <1>c, <1>d, WhichCall DEF CleanupCheck, Creation, Committing, Undoing, caller
<1>30. CASE RemoveLog(j)
  BY <1>30, <1>a, <1>c, <1>d, WhichCall DEF RemoveLog, Creation, Committing, Undoing, caller
<1> QED  BY <1>1, <1>2, <1>3, <1>4, <1>5, <1>6, <1>7, <1>8, <1>9, <1>10, <1>11, <1>12, <1>13, <1>14,
     <1>15, <1>16, <1>17, <1>18, <1>19, <1>20, <1>21, <1>22, <1>23, <1>24, <1>25, <1>26, <1>27,
     <1>28, <1>29, <1>30 DEF CallStep, PlanStep, WriteStep

\* A plan commits to its own table, or to one its files suit, while it is the same.
LEMMA CallTarget ==
    ASSUME TypeOK, Fixed, Places, UNCHANGED setting, NEW j \in Job, SafeCall(j), CallStep(j)
    PROVE  Target(j)'
<1> USE SettingFixed DEF TypeOK, Goto, Ending, Finish
<1>a. Control(j) /\ Creation(j) /\ Target(j)
  BY DEF SafeCall
<1>b. Home(j) \in Location /\ (Managed => Home(j) = j) /\ (~Managed => Home(j) = Shared)
  BY DEF Home, Location
<1>c. None \notin Job \cup {Other}
  BY ConstantsAssumption
<1>1. CASE PlanWrite(j)
  BY <1>1, <1>a DEF PlanWrite, SaveMode, Target, caller, tables
<1>2. CASE PlanRefused(j)
  BY <1>2, <1>a DEF PlanRefused, Target, caller, tables
<1>3. CASE WriteFiles(j)
  BY <1>3, <1>a DEF WriteFiles, Target, caller, tables
<1>4. CASE CommitCall(j)
  BY <1>4, <1>a DEF CommitCall, MayCall, Target, caller, tables
<1>5. CASE Publish(j)
  BY <1>5, <1>a DEF Publish, Target, caller, tables
<1>6. CASE Open(j)
  <2>1. Planned(j) /\ ~Managed
    BY <1>6, <1>a, WhichCall DEF Open, Control, Committing
  <2>2. \/ pc'[j] = "idle"
        \/ /\ pc'[j] = "attempt" /\ target'[j] = Shared /\ identity'[j] = zero[Shared]
           /\ zero[Shared] # None /\ (zero[Shared] = j \/ Joins(j))
    BY <1>6, <1>b DEF Open, Retarget
  <2>3. zero' = zero
    BY <1>6 DEF Open, tables
  <2> QED  BY <1>b, <2>1, <2>2, <2>3 DEF Target, Joins, Fits, Mode
<1>7. CASE Finalize(j)
  BY <1>7, <1>a DEF Finalize, Target, caller, tables
<1>8. CASE FinalizeLate(j)
  BY <1>8, <1>a DEF FinalizeLate, Target, caller, tables
<1>9. CASE RegisteredAnyway(j)
  BY <1>9, <1>a DEF RegisteredAnyway, Target, caller, tables
<1>10. CASE CertainlyAbsent(j)
  BY <1>10, <1>a DEF CertainlyAbsent, Target, caller, tables
<1>11. CASE Resolve(j)
  <2>1. Planned(j) /\ Managed /\ zero[j] = j /\ zero' = zero
    BY <1>11, <1>a, WhichCall DEF Resolve, Control, Creation, Committing, tables
  <2>2. pc'[j] = "idle" \/ (pc'[j] = "attempt" /\ target'[j] = j /\ identity'[j] = j)
    BY <1>11, <1>b, <2>1 DEF Resolve, Retarget
  <2> QED  BY <1>b, <1>c, <2>1, <2>2 DEF Target
<1>12. CASE Attempt(j)
  <2>1. Planned(j) /\ zero' = zero /\ target' = target /\ identity' = identity
    BY <1>12, <1>a, WhichCall DEF Attempt, Committing, tables
  <2>2. pc'[j] \in {"idle", "landed"} \/ (pc'[j] = "put" /\ zero[target[j]] = identity[j])
    BY <1>12 DEF Attempt
  <2>3. pc[j] = "attempt"
    BY <1>12 DEF Attempt
  <2> QED  BY <1>a, <2>1, <2>2, <2>3 DEF Target
<1>13. CASE Put(j)
  <2>1. Planned(j) /\ zero' = zero /\ target' = target /\ identity' = identity
    BY <1>13, <1>a, WhichCall DEF Put, AddCommit, Committing, tables
  <2>2. pc[j] = "put" /\ pc'[j] \in {"idle", "landed", "attempt", "abort"}
    BY <1>13 DEF Put
  <2> QED  BY <1>a, <2>1, <2>2 DEF Target
<1>14. CASE PutUnanswered(j)
  <2>1. Planned(j) /\ zero' = zero /\ target' = target /\ identity' = identity
    BY <1>14, <1>a, WhichCall DEF PutUnanswered, AddCommit, Committing, tables
  <2>2. pc[j] = "put" /\ pc'[j] \in {"idle", "landed", "attempt", "abort"}
    BY <1>14 DEF PutUnanswered, UnknownOutcome
  <2> QED  BY <1>a, <2>1, <2>2 DEF Target
<1>15. CASE Landed(j)
  BY <1>15, <1>a DEF Landed, Target, caller, tables
<1>16. CASE Register(j)
  BY <1>16, <1>a DEF Register, Target, caller, tables
<1>17. CASE CertainFailure(j)
  BY <1>17, <1>a DEF CertainFailure, Target, caller, tables
<1>18. CASE UndoCheck(j)
  BY <1>18, <1>a DEF UndoCheck, Target, caller, tables
<1>19. CASE UndoDrop(j)
  BY <1>19, <1>a DEF UndoDrop, Target, caller, tables
<1>20. CASE Discard(j)
  BY <1>20, <1>a DEF Discard, Target, caller, tables
<1>21. CASE AbortCall(j)
  BY <1>21, <1>a DEF AbortCall, MayCall, Target, caller, tables
<1>22. CASE CheckExists(j)
  BY <1>22, <1>a DEF CheckExists, SaveMode, Target, caller, tables
<1>23. CASE CreateLog(j)
  BY <1>23, <1>a DEF CreateLog, Target, caller, tables
<1>24. CASE Enroll(j)
  BY <1>24, <1>a DEF Enroll, Target, caller, tables
<1>25. CASE CreateRaised(j)
  BY <1>25, <1>a DEF CreateRaised, Target, caller, tables
<1>26. CASE Created(j)
  BY <1>26, <1>a DEF Created, Target, caller, tables
<1>27. CASE WriteExisting(j)
  BY <1>27, <1>a DEF WriteExisting, Target, caller, tables
<1>28. CASE AppendData(j)
  BY <1>28, <1>a DEF AppendData, Target, caller, tables
<1>29. CASE CleanupCheck(j)
  BY <1>29, <1>a DEF CleanupCheck, Target, caller, tables
<1>30. CASE RemoveLog(j)
  BY <1>30, <1>a DEF RemoveLog, Target, caller, tables
<1> QED  BY <1>1, <1>2, <1>3, <1>4, <1>5, <1>6, <1>7, <1>8, <1>9, <1>10, <1>11, <1>12, <1>13, <1>14,
     <1>15, <1>16, <1>17, <1>18, <1>19, <1>20, <1>21, <1>22, <1>23, <1>24, <1>25, <1>26, <1>27,
     <1>28, <1>29, <1>30 DEF CallStep, PlanStep, WriteStep

\* A commit adds one commit of a call to the table it commits to, and takes none away.
LEMMA OwnLanded ==
    ASSUME TypeOK, NEW j \in Job, TablesStep(j)
    PROVE  \/ commits' = commits
           \/ /\ AddsCommit(j)
              /\ \A l \in Location : LandedIn(j, l)' <=> LandedIn(j, l) \/ l = target[j]
              /\ \A l \in Location : \A m \in DOMAIN commits'[l] : commits'[l][m] = j =>
                    \/ m \in DOMAIN commits[l] /\ commits[l][m] = j
                    \/ l = target[j] /\ m = Len(commits[l]) + 1
<1> SUFFICES ASSUME AddsCommit(j)
             PROVE  /\ \A l \in Location : LandedIn(j, l)' <=> LandedIn(j, l) \/ l = target[j]
                    /\ \A l \in Location : \A m \in DOMAIN commits'[l] : commits'[l][m] = j =>
                          \/ m \in DOMAIN commits[l] /\ commits[l][m] = j
                          \/ l = target[j] /\ m = Len(commits[l]) + 1
  BY DEF TablesStep, MakesTable, RemovesTable
<1> DEFINE s == commits[target[j]]
<1>1. s \in Seq(Job \cup {Other}) /\ target[j] \in Location
  BY DEF TypeOK
<1>2. commits'[target[j]] = Append(s, j) /\ \A l \in Location \ {target[j]} : commits'[l] = commits[l]
  BY <1>1 DEF AddsCommit, TypeOK
<1>3. /\ DOMAIN Append(s, j) = DOMAIN s \cup {Len(s) + 1}
      /\ \A m \in DOMAIN s : Append(s, j)[m] = s[m]
      /\ Append(s, j)[Len(s) + 1] = j
  BY <1>1, AppendFacts
<1> HIDE DEF s
<1>4. \A l \in Location \ {target[j]} : LandedIn(j, l)' <=> LandedIn(j, l)
  BY <1>2 DEF LandedIn
<1>5. \A l \in Location : l = target[j] => LandedIn(j, l)'
  BY <1>2, <1>3 DEF LandedIn
<1>6. \A l \in Location : \A m \in DOMAIN commits'[l] : commits'[l][m] = j =>
         \/ m \in DOMAIN commits[l] /\ commits[l][m] = j
         \/ l = target[j] /\ m = Len(commits[l]) + 1
  <2> SUFFICES ASSUME NEW l \in Location, NEW m \in DOMAIN commits'[l], commits'[l][m] = j
               PROVE  \/ m \in DOMAIN commits[l] /\ commits[l][m] = j
                      \/ l = target[j] /\ m = Len(commits[l]) + 1
    OBVIOUS
  <2>1. CASE l = target[j]
    BY <1>2, <1>3, <2>1 DEF s
  <2>2. CASE l # target[j]
    BY <1>2, <2>2
  <2> QED  BY <2>1, <2>2
<1> QED  BY <1>4, <1>5, <1>6

\* A call that commits had not committed.
LEMMA LandsAnew ==
    ASSUME TypeOK, Fixed, NEW j \in Job, SafeCall(j), AddsCommit(j)
    PROVE  ~HasLanded(j)
BY WhichCall DEF SafeCall, AddsCommit, Committing, Control, Told

\* A call that has landed was told where, and one that commits has landed.
LEMMA OwnHasLanded ==
    ASSUME TypeOK, Fixed, NEW j \in Job, SafeCall(j), TablesStep(j)
    PROVE  /\ commits' = commits => (HasLanded(j)' <=> HasLanded(j))
           /\ AddsCommit(j) => HasLanded(j)' /\ ~HasLanded(j)
<1>1. commits' = commits => (HasLanded(j)' <=> HasLanded(j))
  BY DEF HasLanded, LandedIn
<1>2. ASSUME AddsCommit(j) PROVE HasLanded(j)' /\ ~HasLanded(j)
  <2>1. ~HasLanded(j)
    BY <1>2, LandsAnew
  <2>2. target[j] \in Location
    BY DEF TypeOK
  <2>3. commits' # commits
    <3>1. commits[target[j]] \in Seq(Job \cup {Other})
      BY <2>2 DEF TypeOK
    <3>2. Len(Append(commits[target[j]], j)) = Len(commits[target[j]]) + 1 /\ Len(commits[target[j]]) \in Nat
      BY <3>1
    <3>3. commits'[target[j]] = Append(commits[target[j]], j)
      BY <1>2, <2>2 DEF AddsCommit, TypeOK
    <3> QED  BY <3>2, <3>3
  <2>4. \A l \in Location : LandedIn(j, l)' <=> LandedIn(j, l) \/ l = target[j]
    BY <2>3, OwnLanded
  <2> QED  BY <2>1, <2>2, <2>4 DEF HasLanded
<1> QED  BY <1>1, <1>2

\* A call's files land once.
LEMMA CallLandsOnce ==
    ASSUME TypeOK, Fixed, NEW j \in Job, SafeCall(j), CallStep(j) PROVE LandsOnce(j)'
<1>1. TablesStep(j) /\ LandsOnce(j)
  BY CallTables DEF SafeCall
<1>2. CASE commits' = commits
  BY <1>1, <1>2 DEF LandsOnce
<1>3. CASE AddsCommit(j) /\ commits' # commits
  <2>1. \A l \in Location : \A m \in DOMAIN commits'[l] : commits'[l][m] = j =>
           l = target[j] /\ m = Len(commits[l]) + 1
    BY <1>1, <1>3, OwnLanded, LandsAnew DEF HasLanded, LandedIn
  <2> QED  BY <2>1 DEF LandsOnce
<1> QED  BY <1>1, <1>2, <1>3, OwnLanded

\* Where a call commits stays, while it has commits there.
LEMMA CallTurns ==
    ASSUME TypeOK, Fixed, NEW j \in Job, SafeCall(j), CallStep(j)
    PROVE  \/ target'[j] = target[j]
           \/ Planned(j) /\ target'[j] = Home(j)
           \/ ~HasLanded(j) /\ commits' = commits
<1>0. CASE UNCHANGED target
  BY <1>0
<1>1. CASE Open(j)
  BY <1>0, <1>1, WhichCall DEF Open, Retarget, SafeCall, Control, Committing, Home, TypeOK
<1>2. CASE Resolve(j)
  BY <1>0, <1>2, WhichCall DEF Resolve, Retarget, SafeCall, Control, Committing, Home, TypeOK
<1>3. CASE Created(j)
  BY <1>3, WhichCall DEF Created, SafeCall, Control, Told, tables
<1>4. CASE WriteExisting(j)
  BY <1>4, WhichCall DEF WriteExisting, SafeCall, Control, Told, tables
<1> QED
  BY <1>0, <1>1, <1>2, <1>3, <1>4 DEF CallStep, PlanStep, WriteStep, caller, PlanWrite, PlanRefused,
     WriteFiles, CommitCall, Publish, Finalize, FinalizeLate, RegisteredAnyway, CertainlyAbsent,
     Attempt, Put, PutUnanswered, Landed, Register, CertainFailure, UndoCheck, UndoDrop, Discard,
     AbortCall, CheckExists, CreateLog, Enroll, CreateRaised, AppendData, CleanupCheck, RemoveLog

\* A call's files land where it commits.
LEMMA CallLandsThere ==
    ASSUME TypeOK, Fixed, UNCHANGED setting, NEW j \in Job, SafeCall(j), CallStep(j)
    PROVE  LandsThere(j)'
<1> USE SettingFixed
<1>1. TablesStep(j) /\ LandsThere(j)
  BY CallTables DEF SafeCall
<1>2. CASE commits' = commits
  <2>1. \A l \in Location : LandedIn(j, l)' <=> LandedIn(j, l)
    BY <1>2 DEF LandedIn
  <2> QED  BY <1>1, <2>1, CallTurns DEF LandsThere, HasLanded
<1>3. CASE AddsCommit(j) /\ commits' # commits
  <2>1. \A l \in Location : LandedIn(j, l)' => l = target[j]
    BY <1>1, <1>3, OwnLanded, LandsAnew DEF HasLanded
  <2>2. Planned(j) => target[j] = Home(j)
    BY <1>3, WhichCall DEF AddsCommit, SafeCall, Target
  <2>3. target'[j] = target[j]
    BY <1>3, <2>2, CallTurns
  <2> QED  BY <2>1, <2>2, <2>3 DEF LandsThere
<1> QED  BY <1>1, <1>2, <1>3, OwnLanded

\* What a call commits has landed.
LEMMA AddCommitLands ==
    ASSUME TypeOK, NEW j \in Job, AddCommit(j, target[j]) PROVE HasLanded(j)'
<1> DEFINE s == commits[target[j]]
<1>1. s \in Seq(Job \cup {Other}) /\ target[j] \in Location
  BY DEF TypeOK
<1>2. commits'[target[j]] = Append(s, j)
  BY <1>1 DEF AddCommit, TypeOK
<1>3. Len(s) + 1 \in DOMAIN Append(s, j) /\ Append(s, j)[Len(s) + 1] = j
  BY <1>1, AppendFacts
<1> HIDE DEF s
<1> QED  BY <1>1, <1>2, <1>3 DEF HasLanded, LandedIn

\* Whether a call finds its files committed where it looks.
LEMMA FindsLanded ==
    ASSUME TypeOK, NEW j \in Job, SafeCall(j)
    PROVE  /\ LandedIn(j, target[j]) <=> HasLanded(j)
           /\ Planned(j) => (LandedIn(j, Home(j)) <=> HasLanded(j))
BY DEF SafeCall, LandsThere, HasLanded, TypeOK, Home, Location

\* A call is told what it has committed.
LEMMA CallTold ==
    ASSUME TypeOK, Fixed, UNCHANGED setting, NEW j \in Job, SafeCall(j), CallStep(j)
    PROVE  Told(j)'
<1> USE SettingFixed DEF TypeOK, Goto, Ending, Finish
<1>a. Control(j) /\ Told(j)
  BY DEF SafeCall
<1>b. TablesStep(j) /\ (commits' = commits => (HasLanded(j)' <=> HasLanded(j)))
      /\ (AddsCommit(j) => HasLanded(j)' /\ ~HasLanded(j))
  BY CallTables, OwnHasLanded
<1>c. pc[j] \notin {"put", "append"} => (HasLanded(j)' <=> HasLanded(j))
  BY <1>b DEF TablesStep, MakesTable, AddsCommit, RemovesTable
<1>1. CASE PlanWrite(j)
  BY <1>1, <1>a, <1>c DEF PlanWrite, SaveMode, Told, Control, Unwritten, Committing, Undoing
<1>2. CASE PlanRefused(j)
  BY <1>2, <1>a, <1>c DEF PlanRefused, Told, Control, Unwritten, Committing, Undoing
<1>3. CASE WriteFiles(j)
  BY <1>3, <1>a, <1>c DEF WriteFiles, Told, Control, Unwritten, Committing, Undoing
<1>4. CASE CommitCall(j)
  <2>1. Planned(j) /\ pc'[j] \in {"finalize", "publish"} /\ pc[j] = "idle"
    BY <1>4 DEF CommitCall, MayCall, Planned
  <2> QED  BY <2>1 DEF Told, Unwritten
<1>5. CASE Publish(j)
  BY <1>5, <1>a, <1>c DEF Publish, Told, Control, Unwritten, Committing, Undoing
<1>6. CASE Open(j)
  BY <1>6, <1>a, <1>c DEF Open, Retarget, Told, Control, Unwritten, Committing, Undoing
<1>7. CASE Finalize(j)
  BY <1>7, <1>a, <1>c DEF Finalize, Told, Control, Unwritten, Committing, Undoing
<1>8. CASE FinalizeLate(j)
  <2>1. commits' = commits /\ pc' = pc /\ result' = result
    BY <1>8 DEF FinalizeLate, tables
  <2> QED  BY <1>a, <1>b, <2>1 DEF Told
<1>9. CASE RegisteredAnyway(j)
  BY <1>9, <1>a, <1>c DEF RegisteredAnyway, Told, Control, Unwritten, Committing, Undoing
<1>10. CASE CertainlyAbsent(j)
  BY <1>10, <1>a, <1>c DEF CertainlyAbsent, Told, Control, Unwritten, Committing, Undoing
<1>11. CASE Resolve(j)
  BY <1>11, <1>a, <1>c DEF Resolve, Retarget, Told, Control, Unwritten, Committing, Undoing
<1>12. CASE Attempt(j)
  <2>1. Planned(j) /\ (LandedIn(j, target[j]) <=> HasLanded(j)) /\ result[j] = "none"
    BY <1>12, <1>a, WhichCall, FindsLanded DEF Attempt, Committing, Control
  <2>2. \/ pc'[j] = "idle" /\ result'[j] = "error"
        \/ pc'[j] = "landed" /\ HasLanded(j) /\ result' = result
        \/ pc'[j] = "put" /\ ~HasLanded(j) /\ result' = result
    BY <1>12, <2>1 DEF Attempt, AlreadyLanded
  <2>3. HasLanded(j)' <=> HasLanded(j)
    BY <1>12, <1>c DEF Attempt
  <2> QED  BY <2>1, <2>2, <2>3 DEF Told, Unwritten
<1>13. CASE Put(j)
  <2>1. Planned(j) /\ ~HasLanded(j)
    BY <1>13, <1>a, WhichCall DEF Put, Committing, Told
  <2>2. \/ pc'[j] = "landed" /\ AddCommit(j, target[j])
        \/ pc'[j] = "attempt"
        \/ pc'[j] = "abort" /\ commits' = commits
        \/ pc'[j] = "idle" /\ result'[j] \in {"error", "failed"}
    BY <1>13 DEF Put, tables
  <2> QED  BY <1>b, <2>1, <2>2, AddCommitLands DEF Told, Unwritten
<1>14. CASE PutUnanswered(j)
  BY <1>14, <1>a, <1>c DEF PutUnanswered, UnknownOutcome, Told, Control, Unwritten, Committing, Undoing
<1>15. CASE Landed(j)
  BY <1>15, <1>a, <1>c DEF Landed, Told, Control, Unwritten, Committing, Undoing
<1>16. CASE Register(j)
  BY <1>16, <1>a, <1>c DEF Register, Told, Control, Unwritten, Committing, Undoing
<1>17. CASE CertainFailure(j)
  BY <1>17, <1>a, <1>c DEF CertainFailure, Told, Control, Unwritten, Committing, Undoing
<1>18. CASE UndoCheck(j)
  BY <1>18, <1>a, <1>c DEF UndoCheck, Told, Control, Unwritten, Committing, Undoing
<1>19. CASE UndoDrop(j)
  BY <1>19, <1>a, <1>c DEF UndoDrop, Told, Control, Unwritten, Committing, Undoing
<1>20. CASE Discard(j)
  BY <1>20, <1>a, <1>c DEF Discard, Told, Control, Unwritten, Committing, Undoing
<1>21. CASE AbortCall(j)
  <2>1. Planned(j) /\ (LandedIn(j, Home(j)) <=> HasLanded(j)) /\ (HasLanded(j)' <=> HasLanded(j))
    BY <1>21, <1>a, <1>c, FindsLanded DEF AbortCall, MayCall, Planned
  <2>2. \/ pc'[j] \in {"undo", "discard"}
        \/ pc'[j] = "idle" /\ LandedIn(j, Home(j))
    BY <1>21 DEF AbortCall
  <2> QED  BY <2>1, <2>2 DEF Told, Unwritten
<1>22. CASE CheckExists(j)
  BY <1>22, <1>a, <1>c DEF CheckExists, SaveMode, Told, Control, Unwritten, Committing, Undoing
<1>23. CASE CreateLog(j)
  BY <1>23, <1>a, <1>c DEF CreateLog, Told, Control, Unwritten, Committing, Undoing
<1>24. CASE Enroll(j)
  BY <1>24, <1>a, <1>c DEF Enroll, Told, Control, Unwritten, Committing, Undoing
<1>25. CASE CreateRaised(j)
  BY <1>25, <1>a, <1>c DEF CreateRaised, Told, Control, Unwritten, Committing, Undoing
<1>26. CASE Created(j)
  BY <1>26, <1>a, <1>c DEF Created, Told, Control, Unwritten, Committing, Undoing
<1>27. CASE WriteExisting(j)
  BY <1>27, <1>a, <1>c DEF WriteExisting, Told, Control, Unwritten, Committing, Undoing
<1>28. CASE AppendData(j)
  <2>1. ~Planned(j) /\ ~HasLanded(j)
    BY <1>28, <1>a, WhichCall DEF AppendData, Control, Told
  <2>2. \/ AddCommit(j, target[j])
        \/ pc'[j] = "cleanup" /\ commits' = commits
    BY <1>28 DEF AppendData, tables
  <2>3. pc'[j] \in {"idle", "cleanup"} /\ result'[j] \in {"committed", "unknown", "failed"}
    BY <1>28 DEF AppendData
  <2>4. result'[j] = "failed" => commits' = commits
    BY <1>28 DEF AppendData, tables
  <2> QED  BY <1>b, <2>1, <2>2, <2>3, <2>4, AddCommitLands DEF Told
<1>29. CASE CleanupCheck(j)
  BY <1>29, <1>a, <1>c DEF CleanupCheck, Told, Control, Unwritten, Committing, Undoing
<1>30. CASE RemoveLog(j)
  BY <1>30, <1>a, <1>c DEF RemoveLog, Told, Control, Unwritten, Committing, Undoing
<1> QED  BY <1>1, <1>2, <1>3, <1>4, <1>5, <1>6, <1>7, <1>8, <1>9, <1>10, <1>11, <1>12, <1>13, <1>14,
     <1>15, <1>16, <1>17, <1>18, <1>19, <1>20, <1>21, <1>22, <1>23, <1>24, <1>25, <1>26, <1>27,
     <1>28, <1>29, <1>30 DEF CallStep, PlanStep, WriteStep

-----------------------------------------------------------------------------
(* The invariant holds of every state. *)

\* The invariant holds at first.
LEMMA InitInv == NoOverlap /\ Init => Inv
<1> SUFFICES ASSUME NoOverlap, Init PROVE Inv
  OBVIOUS
<1> USE ConstantsAssumption DEF Init
<1>1. Fixed
  BY DEF Fixed, Faults, NoOverlap
<1>2. TypeOK
  <2>1. Shared \in Location /\ <<>> \in Seq(Job \cup {Other})
    BY DEF Location
  <2>2. /\ zero \in [Location -> Job \cup {Other, None}] /\ commits \in [Location -> Seq(Job \cup {Other})]
        /\ target \in [Job -> Location] /\ identity \in [Job -> Job \cup {Other, None}]
    BY <2>1
  <2>3. /\ calls \in [Job -> 0..MaxCalls] /\ attempt \in [Job -> 0..Retries]
        /\ base \in [Job -> Nat] /\ existed \in [Job -> BOOLEAN] /\ others \in 0..MaxOthers
    OBVIOUS
  <2> HIDE ConstantsAssumption
  <2> QED  BY <2>2, <2>3 DEF TypeOK
<1>3. Places /\ Excluded
  BY DEF Places, Excluded, Location
<1>4. ASSUME NEW j \in Job PROVE SafeCall(j)
  <2>1. Home(j) \in Location
    BY DEF Home, Location
  <2>2. Control(j) /\ Removal(j) /\ Creation(j) /\ Target(j)
    BY <2>1 DEF Control, Removal, Creation, Target, Unwritten, Committing, Undoing
  <2>3. \A l \in Location : commits[l] = <<>> /\ DOMAIN <<>> = {}
    OBVIOUS
  <2> QED  BY <2>2, <2>3 DEF SafeCall, LandsOnce, LandsThere, Told, HasLanded, LandedIn, Committing
<1> QED  BY <1>1, <1>2, <1>3, <1>4 DEF Inv, SafeCalls

\* What a call's own step leaves of its invariant.
LEMMA CallSafe ==
    ASSUME Inv, UNCHANGED setting, NEW j \in Job, CallStep(j) PROVE SafeCall(j)'
<1>1. SafeCall(j)
  BY DEF Inv, SafeCalls
<1> QED  BY <1>1, CallControl, CallRemoval, CallCreation, CallTarget, CallLandsOnce, CallLandsThere,
            CallTold
         DEF Inv, SafeCall

\* A step is a call's or the other writer's.
LEMMA NextSteps ==
    ASSUME Next
    PROVE  /\ UNCHANGED setting /\ Meet /\ met' \subseteq Job
           /\ (\E j \in Job : CallStep(j)) \/ OthersStep
BY DEF Next, Meet, CallStep, OthersStep

\* Every step keeps the invariant.
LEMMA NextInv == Inv /\ [Next]_vars => Inv'
<1> SUFFICES ASSUME Inv, [Next]_vars PROVE Inv'
  OBVIOUS
<1>1. ASSUME NEW j \in Job, CallStep(j), UNCHANGED setting, met' \subseteq Job PROVE Inv'
  <2>1. SafeCall(j)
    BY DEF Inv, SafeCalls
  <2>2. Fixed' /\ TypeOK' /\ Places' /\ Excluded'
    BY <1>1, <2>1, SettingFixed, CallTypeOK, CallPlaces, CallExcluded DEF Inv
  <2>3. ASSUME NEW k \in Job PROVE SafeCall(k)'
    <3>1. CASE k = j
      BY <1>1, <3>1, CallSafe
    <3>2. CASE k # j
      BY <1>1, <3>2, CallSeen, SeenSafe DEF Inv, SafeCalls
    <3> QED  BY <3>1, <3>2
  <2> QED  BY <2>2, <2>3 DEF Inv, SafeCalls
<1>2. ASSUME OthersStep, UNCHANGED setting, met' \subseteq Job PROVE Inv'
  <2>1. Fixed' /\ TypeOK' /\ Places'
    BY <1>2, SettingFixed, OtherTypeOK, OtherPlaces DEF Inv
  <2>2. pc' = pc
    BY <1>2 DEF OthersStep, OtherCreate, OtherCommit, OtherDrop, OtherStep
  <2>3. Excluded'
    BY <2>2 DEF Inv, Excluded
  <2>4. ASSUME NEW k \in Job PROVE SafeCall(k)'
    BY <1>2, OtherSeen, SeenSafe DEF Inv, SafeCalls
  <2> QED  BY <2>1, <2>3, <2>4 DEF Inv, SafeCalls
<1>3. CASE UNCHANGED vars
  <2> USE <1>3 DEF vars
  <2>1. Fixed' /\ TypeOK' /\ Places' /\ Excluded'
    <3>1. Fixed' /\ TypeOK'
      BY SettingFixed DEF Inv, TypeOK
    <3>2. Places'
      BY SettingFixed DEF Inv, Places
    <3>3. Excluded'
      BY DEF Inv, Excluded
    <3> QED  BY <3>1, <3>2, <3>3
  <2>2. ASSUME NEW k \in Job PROVE SafeCall(k)'
    <3>1. Seen(k)
      BY DEF Seen, OwnStays, ZeroSeen, CommitsSeen, NameSeen
    <3> QED  BY <3>1, SeenSafe DEF Inv, SafeCalls
  <2> QED  BY <2>1, <2>2 DEF Inv, SafeCalls
<1> QED  BY <1>1, <1>2, <1>3, NextSteps

\* A behavior keeps its setting.
LEMMA SettingKept == [Next]_vars => UNCHANGED setting
BY DEF Next, vars

\* The invariant holds of every behavior in which undos are not interrupted.
LEMMA AlwaysInv == Spec => [](NoOverlap => Inv)
<1>1. [Next]_vars => (NoOverlap' => NoOverlap)
  BY SettingKept DEF NoOverlap, Faults
<1>2. (NoOverlap => Inv) /\ [Next]_vars => (NoOverlap => Inv)'
  BY <1>1, NextInv
<1> QED  BY <1>2, InitInv, PTL DEF Spec

-----------------------------------------------------------------------------
(* An undo takes what it looked at, and no more unless others came between. *)

\* What the invariant needs of the types.
Formed ==
    /\ Running /\ zero \in [Location -> Job \cup {Other, None}] /\ DOMAIN target = Job

\* A managed plan commits to its own table. An undo that met nobody is about to remove its
\* own empty table, and the name is that table's.
Undoes(j) ==
    /\ pc[j] \in {"publish", "open", "rmtree"} => ~Managed
    /\ Managed /\ pc[j] \in {"attempt", "put", "abort"} => target[j] = j
    /\ j \notin met =>
         /\ pc[j] = "drop" => zero[Home(j)] = j /\ commits[Home(j)] = <<>>
         /\ pc[j] = "rmtree" => commits[Shared] = <<>>
         /\ Managed /\ pc[j] \in {"abort", "undo", "drop"} => name = j

UndoInv == Formed /\ \A j \in Job : Undoes(j)

\* Putting a version 0 removes none.
LEMMA PutZeroKeeps ==
    ASSUME Formed, NEW l \in Location, NEW j \in Job, PutZero(l, j)
    PROVE  /\ zero' \in [Location -> Job \cup {Other, None}]
           /\ \A m \in Location : zero[m] # None => zero'[m] = zero[m]
BY DEF Formed, PutZero

\* Version 0 of a table goes in an undo only.
LEMMA CallZero ==
    ASSUME Formed, NEW j \in Job, CallStep(j)
    PROVE  /\ zero' \in [Location -> Job \cup {Other, None}]
           /\ zero' # zero => UndoDrop(j) \/ RemoveLog(j) \/ (\A l \in Location : zero[l] # None => zero'[l] = zero[l])
<1>0. Home(j) \in Location /\ Shared \in Location /\ j \in Location
  BY DEF Home, Location
<1> USE DEF Formed
<1>1. CASE PlanWrite(j)
  <2>1. UNCHANGED zero \/ PutZero(j, j)
    BY <1>1 DEF PlanWrite, Stage, tables
  <2> QED  BY <1>0, <2>1, PutZeroKeeps
<1>2. CASE PlanRefused(j)
  BY <1>2 DEF PlanRefused, tables
<1>3. CASE WriteFiles(j)
  BY <1>3 DEF WriteFiles, tables
<1>4. CASE CommitCall(j)
  BY <1>4 DEF CommitCall, tables
<1>5. CASE Publish(j)
  <2>1. UNCHANGED zero \/ PutZero(Shared, j)
    BY <1>5 DEF Publish, tables
  <2> QED  BY <1>0, <2>1, PutZeroKeeps
<1>6. CASE Open(j)
  BY <1>6 DEF Open, tables
<1>7. CASE Finalize(j)
  BY <1>7 DEF Finalize, tables
<1>8. CASE FinalizeLate(j)
  BY <1>8 DEF FinalizeLate, tables
<1>9. CASE RegisteredAnyway(j)
  BY <1>9 DEF RegisteredAnyway, tables
<1>10. CASE CertainlyAbsent(j)
  BY <1>10 DEF CertainlyAbsent, tables
<1>11. CASE Resolve(j)
  BY <1>11 DEF Resolve, tables
<1>12. CASE Attempt(j)
  BY <1>12 DEF Attempt, tables
<1>13. CASE Put(j)
  BY <1>13 DEF Put, AddCommit, tables
<1>14. CASE PutUnanswered(j)
  BY <1>14 DEF PutUnanswered, AddCommit, tables
<1>15. CASE Landed(j)
  BY <1>15 DEF Landed, tables
<1>16. CASE Register(j)
  BY <1>16 DEF Register, tables
<1>17. CASE CertainFailure(j)
  BY <1>17 DEF CertainFailure, tables
<1>18. CASE UndoCheck(j)
  BY <1>18 DEF UndoCheck, tables
<1>19. CASE UndoDrop(j)
  BY <1>19 DEF UndoDrop
<1>20. CASE Discard(j)
  BY <1>20 DEF Discard, tables
<1>21. CASE AbortCall(j)
  BY <1>21 DEF AbortCall, tables
<1>22. CASE CheckExists(j)
  BY <1>22 DEF CheckExists, tables
<1>23. CASE CreateLog(j)
  <2>1. UNCHANGED zero \/ PutZero(Home(j), j)
    BY <1>23 DEF CreateLog, tables
  <2> QED  BY <1>0, <2>1, PutZeroKeeps
<1>24. CASE Enroll(j)
  BY <1>24 DEF Enroll, tables
<1>25. CASE CreateRaised(j)
  BY <1>25 DEF CreateRaised, tables
<1>26. CASE Created(j)
  BY <1>26 DEF Created, tables
<1>27. CASE WriteExisting(j)
  BY <1>27 DEF WriteExisting, tables
<1>28. CASE AppendData(j)
  BY <1>28 DEF AppendData, AddCommit, tables
<1>29. CASE CleanupCheck(j)
  BY <1>29 DEF CleanupCheck, tables
<1>30. CASE RemoveLog(j)
  BY <1>30 DEF RemoveLog
<1> QED  BY <1>1, <1>2, <1>3, <1>4, <1>5, <1>6, <1>7, <1>8, <1>9, <1>10, <1>11, <1>12,
     <1>13, <1>14, <1>15, <1>16, <1>17, <1>18, <1>19, <1>20, <1>21, <1>22, <1>23, <1>24,
     <1>25, <1>26, <1>27, <1>28, <1>29, <1>30 DEF CallStep, PlanStep, WriteStep

\* A call turns to another table for itself.
LEMMA CallTurnsOwn ==
    ASSUME Formed, NEW j \in Job, CallStep(j)
    PROVE  DOMAIN target' = Job /\ \A k \in Job \ {j} : target'[k] = target[k]
<1> USE DEF Formed
<1>1. CASE PlanWrite(j)
  BY <1>1 DEF PlanWrite, caller
<1>2. CASE PlanRefused(j)
  BY <1>2 DEF PlanRefused, caller
<1>3. CASE WriteFiles(j)
  BY <1>3 DEF WriteFiles, caller
<1>4. CASE CommitCall(j)
  BY <1>4 DEF CommitCall, caller
<1>5. CASE Publish(j)
  BY <1>5 DEF Publish, caller
<1>6. CASE Open(j)
  BY <1>6 DEF Open, Retarget
<1>7. CASE Finalize(j)
  BY <1>7 DEF Finalize, caller
<1>8. CASE FinalizeLate(j)
  BY <1>8 DEF FinalizeLate, caller
<1>9. CASE RegisteredAnyway(j)
  BY <1>9 DEF RegisteredAnyway, caller
<1>10. CASE CertainlyAbsent(j)
  BY <1>10 DEF CertainlyAbsent, caller
<1>11. CASE Resolve(j)
  BY <1>11 DEF Resolve, Retarget
<1>12. CASE Attempt(j)
  BY <1>12 DEF Attempt, caller
<1>13. CASE Put(j)
  BY <1>13 DEF Put, caller
<1>14. CASE PutUnanswered(j)
  BY <1>14 DEF PutUnanswered, caller
<1>15. CASE Landed(j)
  BY <1>15 DEF Landed, caller
<1>16. CASE Register(j)
  BY <1>16 DEF Register, caller
<1>17. CASE CertainFailure(j)
  BY <1>17 DEF CertainFailure, caller
<1>18. CASE UndoCheck(j)
  BY <1>18 DEF UndoCheck, caller
<1>19. CASE UndoDrop(j)
  BY <1>19 DEF UndoDrop, caller
<1>20. CASE Discard(j)
  BY <1>20 DEF Discard, caller
<1>21. CASE AbortCall(j)
  BY <1>21 DEF AbortCall, caller
<1>22. CASE CheckExists(j)
  BY <1>22 DEF CheckExists, caller
<1>23. CASE CreateLog(j)
  BY <1>23 DEF CreateLog, caller
<1>24. CASE Enroll(j)
  BY <1>24 DEF Enroll, caller
<1>25. CASE CreateRaised(j)
  BY <1>25 DEF CreateRaised, caller
<1>26. CASE Created(j)
  BY <1>26 DEF Created, caller
<1>27. CASE WriteExisting(j)
  BY <1>27 DEF WriteExisting, caller
<1>28. CASE AppendData(j)
  BY <1>28 DEF AppendData, caller
<1>29. CASE CleanupCheck(j)
  BY <1>29 DEF CleanupCheck, caller
<1>30. CASE RemoveLog(j)
  BY <1>30 DEF RemoveLog, caller
<1> QED  BY <1>1, <1>2, <1>3, <1>4, <1>5, <1>6, <1>7, <1>8, <1>9, <1>10, <1>11, <1>12,
     <1>13, <1>14, <1>15, <1>16, <1>17, <1>18, <1>19, <1>20, <1>21, <1>22, <1>23, <1>24,
     <1>25, <1>26, <1>27, <1>28, <1>29, <1>30 DEF CallStep, PlanStep, WriteStep

\* A call that stays where it is keeps its table.
LEMMA StaysTurned ==
    ASSUME Formed, NEW j \in Job, CallStep(j), pc'[j] = pc[j]
    PROVE  target'[j] = target[j]
<1> USE DEF Formed, Running, Goto, Ending, Finish
<1>1. CASE PlanWrite(j)
  BY <1>1 DEF PlanWrite, caller
<1>2. CASE PlanRefused(j)
  BY <1>2 DEF PlanRefused, caller
<1>3. CASE WriteFiles(j)
  BY <1>3 DEF WriteFiles, caller
<1>4. CASE CommitCall(j)
  BY <1>4 DEF CommitCall, caller
<1>5. CASE Publish(j)
  BY <1>5 DEF Publish, caller
<1>6. CASE Open(j)
  BY <1>6 DEF Open, Retarget
<1>7. CASE Finalize(j)
  BY <1>7 DEF Finalize, caller
<1>8. CASE FinalizeLate(j)
  BY <1>8 DEF FinalizeLate, caller
<1>9. CASE RegisteredAnyway(j)
  BY <1>9 DEF RegisteredAnyway, caller
<1>10. CASE CertainlyAbsent(j)
  BY <1>10 DEF CertainlyAbsent, caller
<1>11. CASE Resolve(j)
  BY <1>11 DEF Resolve, Retarget
<1>12. CASE Attempt(j)
  BY <1>12 DEF Attempt, caller
<1>13. CASE Put(j)
  BY <1>13 DEF Put, caller
<1>14. CASE PutUnanswered(j)
  BY <1>14 DEF PutUnanswered, caller
<1>15. CASE Landed(j)
  BY <1>15 DEF Landed, caller
<1>16. CASE Register(j)
  BY <1>16 DEF Register, caller
<1>17. CASE CertainFailure(j)
  BY <1>17 DEF CertainFailure, caller
<1>18. CASE UndoCheck(j)
  BY <1>18 DEF UndoCheck, caller
<1>19. CASE UndoDrop(j)
  BY <1>19 DEF UndoDrop, caller
<1>20. CASE Discard(j)
  BY <1>20 DEF Discard, caller
<1>21. CASE AbortCall(j)
  BY <1>21 DEF AbortCall, caller
<1>22. CASE CheckExists(j)
  BY <1>22 DEF CheckExists, caller
<1>23. CASE CreateLog(j)
  BY <1>23 DEF CreateLog, caller
<1>24. CASE Enroll(j)
  BY <1>24 DEF Enroll, caller
<1>25. CASE CreateRaised(j)
  BY <1>25 DEF CreateRaised, caller
<1>26. CASE Created(j)
  BY <1>26 DEF Created, caller
<1>27. CASE WriteExisting(j)
  BY <1>27 DEF WriteExisting, caller
<1>28. CASE AppendData(j)
  BY <1>28 DEF AppendData, caller
<1>29. CASE CleanupCheck(j)
  BY <1>29 DEF CleanupCheck, caller
<1>30. CASE RemoveLog(j)
  BY <1>30 DEF RemoveLog, caller
<1> QED  BY <1>1, <1>2, <1>3, <1>4, <1>5, <1>6, <1>7, <1>8, <1>9, <1>10, <1>11, <1>12,
     <1>13, <1>14, <1>15, <1>16, <1>17, <1>18, <1>19, <1>20, <1>21, <1>22, <1>23, <1>24,
     <1>25, <1>26, <1>27, <1>28, <1>29, <1>30 DEF CallStep, PlanStep, WriteStep

\* The other writer removes no version 0.
LEMMA OtherZero ==
    ASSUME Formed, OthersStep
    PROVE  /\ zero' \in [Location -> Job \cup {Other, None}]
           /\ \A l \in Location : zero[l] # None => zero'[l] # None
<1> USE ConstantsAssumption DEF Formed, Location
<1>1. CASE OtherCreate
  <2>1. PICK l \in {Shared, Other} : PutZero(l, Other)
    BY <1>1 DEF OtherCreate
  <2> QED  BY <2>1 DEF PutZero
<1>2. CASE OtherCommit \/ OtherDrop
  BY <1>2 DEF OtherCommit, OtherDrop, AddCommit, tables
<1> QED  BY <1>1, <1>2 DEF OthersStep

\* An undo that goes on is about to remove what it looked at.
LEMMA CallUndoes ==
    ASSUME Formed, UNCHANGED setting, Meet, NEW j \in Job, Undoes(j), CallStep(j), pc'[j] # pc[j]
    PROVE  Undoes(j)'
<1>0. j \notin met' /\ {pc[j], pc'[j]} \subseteq Window(j) => j \notin met
  BY DEF Meet
<1> USE <1>0, SettingFixed DEF Undoes, Window, Formed, Running, Goto, Ending, Finish, tables
<1>1. CASE PlanWrite(j)
  BY <1>1 DEF PlanWrite, SaveMode
<1>2. CASE PlanRefused(j)
  BY <1>2 DEF PlanRefused
<1>3. CASE WriteFiles(j)
  BY <1>3 DEF WriteFiles
<1>4. CASE CommitCall(j)
  <2>1. pc'[j] = (IF Managed THEN "finalize" ELSE "publish")
    BY <1>4 DEF CommitCall
  <2> QED  BY <1>4, <2>1
<1>5. CASE Publish(j)
  BY <1>5 DEF Publish
<1>6. CASE Open(j)
  BY <1>6 DEF Open, Retarget
<1>7. CASE Finalize(j)
  BY <1>7 DEF Finalize
<1>8. CASE FinalizeLate(j)
  BY <1>8 DEF FinalizeLate
<1>9. CASE RegisteredAnyway(j)
  BY <1>9 DEF RegisteredAnyway
<1>10. CASE CertainlyAbsent(j)
  BY <1>10 DEF CertainlyAbsent
<1>11. CASE Resolve(j)
  BY <1>11 DEF Resolve, Retarget
<1>12. CASE Attempt(j)
  BY <1>12 DEF Attempt
<1>13. CASE Put(j)
  <2>1. pc'[j] \in {"landed", "idle", "attempt"} \/ (pc'[j] = "abort" /\ (Managed => name =
       target[j]))
    BY <1>13 DEF Put
  <2>2. target' = target /\ name' = name
    BY <1>13 DEF Put
  <2> QED  BY <1>13, <2>1, <2>2 DEF Put
<1>14. CASE PutUnanswered(j)
  BY <1>14 DEF PutUnanswered, UnknownOutcome
<1>15. CASE Landed(j)
  BY <1>15 DEF Landed
<1>16. CASE Register(j)
  BY <1>16 DEF Register
<1>17. CASE CertainFailure(j)
  <2>1. pc'[j] \in {"undo", "discard"} /\ pc[j] = "abort" /\ name' = name
    BY <1>17 DEF CertainFailure
  <2> QED  BY <2>1
<1>18. CASE UndoCheck(j)
  <2>1. pc'[j] = "discard" \/ (pc'[j] = "drop" /\ StillEmpty(j))
    BY <1>18 DEF UndoCheck
  <2>2. pc[j] = "undo" /\ UNCHANGED <<name, zero, commits>>
    BY <1>18 DEF UndoCheck
  <2> QED  BY <2>1, <2>2 DEF StillEmpty, Own
<1>19. CASE UndoDrop(j)
  BY <1>19 DEF UndoDrop
<1>20. CASE Discard(j)
  BY <1>20 DEF Discard
<1>21. CASE AbortCall(j)
  <2>1. pc'[j] \in {"discard", "idle"} \/ (pc'[j] = "undo" /\ ~Uncreated(j))
    BY <1>21 DEF AbortCall
  <2> QED  BY <1>21, <2>1 DEF AbortCall, Uncreated
<1>22. CASE CheckExists(j)
  BY <1>22 DEF CheckExists, SaveMode
<1>23. CASE CreateLog(j)
  BY <1>23 DEF CreateLog
<1>24. CASE Enroll(j)
  BY <1>24 DEF Enroll
<1>25. CASE CreateRaised(j)
  BY <1>25 DEF CreateRaised
<1>26. CASE Created(j)
  BY <1>26 DEF Created
<1>27. CASE WriteExisting(j)
  BY <1>27 DEF WriteExisting
<1>28. CASE AppendData(j)
  BY <1>28 DEF AppendData
<1>29. CASE CleanupCheck(j)
  <2>1. pc'[j] = "idle" \/ (pc'[j] = "rmtree" /\ setting.kind = "local" /\ commits[Shared] = <<>>)
    BY <1>29 DEF CleanupCheck
  <2> QED  BY <1>29, <2>1 DEF CleanupCheck, Managed
<1>30. CASE RemoveLog(j)
  BY <1>30 DEF RemoveLog
<1> QED  BY <1>1, <1>2, <1>3, <1>4, <1>5, <1>6, <1>7, <1>8, <1>9, <1>10, <1>11, <1>12,
     <1>13, <1>14, <1>15, <1>16, <1>17, <1>18, <1>19, <1>20, <1>21, <1>22, <1>23, <1>24,
     <1>25, <1>26, <1>27, <1>28, <1>29, <1>30 DEF CallStep, PlanStep, WriteStep

\* One that waits meets what is done.
LEMMA WaitUndoes ==
    ASSUME UNCHANGED setting, Meet, NEW j \in Job, Undoes(j), pc'[j] = pc[j], target'[j] = target[j]
    PROVE  Undoes(j)'
<1>1. pc[j] \in Window(j) /\ j \notin met' => j \notin met /\ UNCHANGED <<zero, commits, name>>
  BY DEF Meet, tables
<1>2. pc[j] = "drop" => pc[j] \in Window(j)
  BY DEF Window
<1>3. pc[j] = "rmtree" => pc[j] \in Window(j)
  BY DEF Window, Undoes
<1>4. Managed /\ pc[j] \in {"abort", "undo", "drop"} => pc[j] \in Window(j)
  BY DEF Window
<1> QED  BY <1>1, <1>2, <1>3, <1>4, SettingFixed DEF Undoes

\* At first no call undoes anything.
LEMMA InitUndoInv == Init => UndoInv
<1> SUFFICES ASSUME Init PROVE UndoInv
  OBVIOUS
<1>1. Formed
  BY ConstantsAssumption DEF Init, Formed, Running, Pcs, Results, Location
<1> QED  BY <1>1 DEF Init, UndoInv, Undoes

\* Every step keeps it so.
LEMMA NextUndoInv == UndoInv /\ [Next]_vars => UndoInv'
<1> SUFFICES ASSUME UndoInv, [Next]_vars PROVE UndoInv'
  OBVIOUS
<1>0. Formed /\ \A j \in Job : Undoes(j)
  BY DEF UndoInv
<1>1. ASSUME NEW j \in Job, CallStep(j), UNCHANGED setting, Meet PROVE UndoInv'
  <2>1. MovesCall(j)
    BY <1>0, <1>1, RunningMoves DEF Formed
  <2>2. Formed'
    BY <1>0, <1>1, <2>1, CallZero, CallTurnsOwn DEF Formed, Running, MovesCall, Only
  <2>3. ASSUME NEW k \in Job PROVE Undoes(k)'
    <3>1. CASE k = j /\ pc'[j] # pc[j]
      BY <1>0, <1>1, <3>1, CallUndoes
    <3>2. CASE k = j /\ pc'[j] = pc[j]
      <4>1. target'[j] = target[j]
        BY <1>0, <1>1, <3>2, StaysTurned
      <4> QED  BY <1>0, <1>1, <3>2, <4>1, WaitUndoes
    <3>3. CASE k # j
      <4>1. pc'[k] = pc[k] /\ target'[k] = target[k]
        BY <1>0, <1>1, <2>1, <3>3, CallTurnsOwn DEF MovesCall, Only
      <4> QED  BY <1>0, <1>1, <4>1, WaitUndoes
    <3> QED  BY <3>1, <3>2, <3>3
  <2> QED  BY <2>2, <2>3 DEF UndoInv
<1>2. ASSUME OthersStep, UNCHANGED setting, Meet PROVE UndoInv'
  <2>1. UNCHANGED <<pc, result, target>>
    BY <1>2 DEF OthersStep, OtherCreate, OtherCommit, OtherDrop, OtherStep, caller
  <2>2. Formed'
    BY <1>0, <1>2, <2>1, OtherZero DEF Formed, Running
  <2> QED  BY <1>0, <1>2, <2>1, <2>2, WaitUndoes DEF UndoInv
<1>3. CASE UNCHANGED vars
  BY <1>0, <1>3, SettingFixed DEF vars, UndoInv, Formed, Running, Undoes
<1> QED  BY <1>1, <1>2, <1>3, NextSteps

\* A name stays but for an undo.
LEMMA CallNameStays ==
    ASSUME NEW j \in Job, CallStep(j), ~UndoDrop(j), name # None
    PROVE  name' # None
<1> USE ConstantsAssumption DEF Claim, Home
<1>1. CASE PlanWrite(j)
  BY <1>1 DEF PlanWrite
<1>2. CASE PlanRefused(j)
  BY <1>2 DEF PlanRefused
<1>3. CASE WriteFiles(j)
  BY <1>3 DEF WriteFiles
<1>4. CASE CommitCall(j)
  BY <1>4 DEF CommitCall
<1>5. CASE Publish(j)
  BY <1>5 DEF Publish
<1>6. CASE Open(j)
  BY <1>6 DEF Open
<1>7. CASE Finalize(j)
  BY <1>7 DEF Finalize
<1>8. CASE FinalizeLate(j)
  BY <1>8 DEF FinalizeLate
<1>9. CASE RegisteredAnyway(j)
  BY <1>9 DEF RegisteredAnyway
<1>10. CASE CertainlyAbsent(j)
  BY <1>10 DEF CertainlyAbsent
<1>11. CASE Resolve(j)
  BY <1>11 DEF Resolve
<1>12. CASE Attempt(j)
  BY <1>12 DEF Attempt
<1>13. CASE Put(j)
  BY <1>13 DEF Put
<1>14. CASE PutUnanswered(j)
  BY <1>14 DEF PutUnanswered
<1>15. CASE Landed(j)
  BY <1>15 DEF Landed
<1>16. CASE Register(j)
  BY <1>16 DEF Register
<1>17. CASE CertainFailure(j)
  BY <1>17 DEF CertainFailure
<1>18. CASE UndoCheck(j)
  BY <1>18 DEF UndoCheck
<1>19. CASE UndoDrop(j)
  BY <1>19
<1>20. CASE Discard(j)
  BY <1>20 DEF Discard
<1>21. CASE AbortCall(j)
  BY <1>21 DEF AbortCall
<1>22. CASE CheckExists(j)
  BY <1>22 DEF CheckExists
<1>23. CASE CreateLog(j)
  BY <1>23 DEF CreateLog
<1>24. CASE Enroll(j)
  BY <1>24 DEF Enroll
<1>25. CASE CreateRaised(j)
  BY <1>25 DEF CreateRaised
<1>26. CASE Created(j)
  BY <1>26 DEF Created
<1>27. CASE WriteExisting(j)
  BY <1>27 DEF WriteExisting
<1>28. CASE AppendData(j)
  BY <1>28 DEF AppendData
<1>29. CASE CleanupCheck(j)
  BY <1>29 DEF CleanupCheck
<1>30. CASE RemoveLog(j)
  BY <1>30 DEF RemoveLog
<1> QED  BY <1>1, <1>2, <1>3, <1>4, <1>5, <1>6, <1>7, <1>8, <1>9, <1>10, <1>11, <1>12,
     <1>13, <1>14, <1>15, <1>16, <1>17, <1>18, <1>19, <1>20, <1>21, <1>22, <1>23, <1>24,
     <1>25, <1>26, <1>27, <1>28, <1>29, <1>30 DEF CallStep, PlanStep, WriteStep

\* What a call removes, it removes in an undo: its own empty table, or it met others.
LEMMA CallSpares ==
    ASSUME UndoInv, NEW j \in Job, CallStep(j), UNCHANGED setting
    PROVE  /\ \A l \in Location : zero[l] # None /\ zero'[l] = None =>
                 Removes(j) /\ (j \in met \/ (commits[l] = <<>> /\ (pc[j] = "drop" => zero[l] = j)))
           /\ name # None /\ name' = None =>
                 Removes(j) /\ (j \in met \/ (name = j /\ commits[j] = <<>>))
<1> USE DEF UndoInv, Formed
<1>1. CASE UndoDrop(j)
  <2>1. Removes(j) /\ pc[j] = "drop"
    BY <1>1 DEF UndoDrop, Removes, Goto, Running
  <2>2. \A l \in Location : zero[l] # None /\ zero'[l] = None => ~Managed /\ l = Shared
    BY <1>1 DEF UndoDrop
  <2>3. name' # name => Managed
    BY <1>1 DEF UndoDrop
  <2> QED  BY <2>1, <2>2, <2>3 DEF Undoes, Home
<1>2. CASE RemoveLog(j)
  <2>1. Removes(j) /\ pc[j] = "rmtree" /\ name' = name
    BY <1>2 DEF RemoveLog, Removes, Goto, Running
  <2>2. \A l \in Location : zero[l] # None /\ zero'[l] = None => l = Shared
    BY <1>2 DEF RemoveLog
  <2> QED  BY <2>1, <2>2 DEF Undoes
<1>3. CASE ~UndoDrop(j) /\ ~RemoveLog(j)
  <2>1. \A l \in Location : zero[l] # None => zero'[l] # None
    BY <1>3, CallZero
  <2>2. name # None => name' # None
    BY <1>3, CallNameStays
  <2> QED  BY <2>1, <2>2
<1> QED  BY <1>1, <1>2, <1>3

\* Every step spares what others have, unless they came between.
LEMMA StepSpares ==
    ASSUME UndoInv, [Next]_vars
    PROVE  /\ \A l \in Location : zero[l] # None /\ zero'[l] = None =>
                 \E j \in Job : /\ Removes(j)
                                /\ j \in met \/ (commits[l] = <<>> /\ (pc[j] = "drop" => zero[l] = j))
           /\ name # None /\ name' = None /\ pc' # pc =>
                 \E j \in Job : Removes(j) /\ (j \in met \/ (name = j /\ commits[j] = <<>>))
<1>1. CASE \E j \in Job : CallStep(j) /\ UNCHANGED setting
  BY <1>1, CallSpares
<1>2. CASE OthersStep
  <2>1. pc' = pc
    BY <1>2 DEF OthersStep, OtherCreate, OtherCommit, OtherDrop, OtherStep
  <2> QED  BY <1>2, <2>1, OtherZero DEF UndoInv
<1>3. CASE UNCHANGED vars
  BY <1>3 DEF vars
<1> QED  BY <1>1, <1>2, <1>3, NextSteps

\* An undo removes its own empty table and no other, in every setting and whatever fails,
\* unless others came to the table or the name after its look, which nothing in the code
\* prevents (_create.py _Creator._undo, pending.rs rollback_create, connection.py
\* write_table).
THEOREM UndoSparesOthersHolds == Spec => UndoSparesOthers
<1> QED  BY InitUndoInv, NextUndoInv, StepSpares, PTL DEF Spec, UndoSparesOthers

-----------------------------------------------------------------------------
(* What a call has committed, and where. *)

\* A step is a call's own, or it sees it as another's.
LEMMA StepSeen ==
    ASSUME Inv, [Next]_vars, NEW k \in Job
    PROVE  UNCHANGED setting /\ (CallStep(k) \/ Seen(k))
<1>1. ASSUME NEW j \in Job, j # k, CallStep(j), UNCHANGED setting PROVE Seen(k)
  BY <1>1, CallSeen DEF Inv
<1>2. ASSUME OthersStep, UNCHANGED setting PROVE Seen(k)
  BY <1>2, OtherSeen DEF Inv
<1>3. CASE UNCHANGED vars
  BY <1>3 DEF vars, Seen, OwnStays, ZeroSeen, CommitsSeen, NameSeen
<1> QED  BY <1>1, <1>2, <1>3, NextSteps DEF vars

\* What a call has landed stays landed, in a table that stays.
LEMMA SeenHasLanded ==
    ASSUME Inv, NEW k \in Job, Seen(k)
    PROVE  /\ HasLanded(k)' <=> HasLanded(k)
           /\ \A l \in Location : (LandedIn(k, l)' <=> LandedIn(k, l)) /\ (LandedIn(k, l) => zero'[l] = zero[l])
<1>1. \A l \in Location : LandedIn(k, l)' <=> LandedIn(k, l)
  BY SeenLanded DEF Inv, Seen
<1>2. \A l \in Location : LandedIn(k, l) => commits[l] # <<>>
  BY DEF LandedIn
<1> QED  BY <1>1, <1>2, SeenStands DEF HasLanded, Inv, Seen

\* What a call's own step does to what it has landed.
LEMMA OwnHonoured ==
    ASSUME Inv, UNCHANGED setting, NEW j \in Job, CallStep(j), Honoured(j),
           AddsCommit(j) => \A l \in Location : l = target[j] /\ zero[l] # j =>
                /\ setting.layout[j] = setting.layout[zero[l]]
                /\ Mode(j) = "append" \/ (Mode(j) = "overwrite" /\ ~Planned(j))
    PROVE  Honoured(j)'
<1> USE SettingFixed
<1>1. TablesStep(j) /\ SafeCall(j) /\ TypeOK /\ Fixed /\ Places
  BY CallTables DEF Inv, SafeCalls
<1>2. CASE AddsCommit(j) /\ commits' # commits
  <2>1. zero' = zero /\ \A l \in Location : LandedIn(j, l)' => LandedIn(j, l) \/ l = target[j]
    BY <1>1, <1>2, OwnLanded DEF AddsCommit
  <2> QED  BY <1>2, <2>1 DEF Honoured
<1>3. CASE commits' = commits
  <2>1. \A l \in Location : LandedIn(j, l)' <=> LandedIn(j, l)
    BY <1>3 DEF LandedIn
  <2>2. \A l \in Location : LandedIn(j, l) => zero'[l] = zero[l]
    <3>1. \A l \in Location : LandedIn(j, l) => commits[l] # <<>> /\ zero[l] # None
      BY <1>1 DEF LandedIn, Places
    <3>2. Home(j) \in Location /\ Shared \in Location
      BY DEF Home, Location
    <3> QED  BY <1>1, <3>1, <3>2 DEF TablesStep, MakesTable, AddsCommit, RemovesTable, TypeOK
  <2> QED  BY <2>1, <2>2 DEF Honoured
<1> QED  BY <1>1, <1>2, <1>3, OwnLanded

\* The others leave it so.
LEMMA SeenHonoured ==
    ASSUME Inv, NEW k \in Job, Seen(k), Honoured(k) PROVE Honoured(k)'
BY SeenHasLanded, SettingFixed DEF Honoured, Seen

\* A plan's files land in a table that suits them.
LEMMA PlanHonoured ==
    ASSUME Inv, [Next]_vars, NEW j \in Job, Planned(j), Honoured(j) PROVE Honoured(j)'
<1>1. ASSUME CallStep(j), UNCHANGED setting PROVE Honoured(j)'
  <2>1. SafeCall(j)
    BY DEF Inv, SafeCalls
  <2>2. AddsCommit(j) => pc[j] = "put"
    BY <2>1, WhichCall DEF SafeCall, AddsCommit
  <2>3. AddsCommit(j) => \A l \in Location : l = target[j] /\ zero[l] # j =>
           setting.layout[j] = setting.layout[zero[l]] /\ Mode(j) = "append"
    BY <2>1, <2>2 DEF SafeCall, Target
  <2> QED  BY <1>1, <2>3, OwnHonoured
<1> QED  BY <1>1, StepSeen, SeenHonoured

\* So a plan gives its files up only where they have not landed.
LEMMA PlanJoins ==
    ASSUME Inv, NEW j \in Job, Planned(j), ~Managed, Honoured(j), HasLanded(j), zero[Shared] # j
    PROVE  Joins(j)
<1>1. LandedIn(j, Shared) /\ Shared \in Location
  BY DEF Inv, SafeCalls, SafeCall, LandsThere, HasLanded, Home, Location
<1> QED  BY <1>1 DEF Honoured, Joins, Fits

-----------------------------------------------------------------------------
(* What a caller is told. *)

\* The others leave what a call gave up as it is.
LEMMA SeenWithdrawn ==
    ASSUME Inv, NEW k \in Job, Seen(k), Withdrawn(k) PROVE Withdrawn(k)'
<1>1. setting' = setting /\ OwnStays(k) /\ NameSeen(k) /\ (HasLanded(k)' <=> HasLanded(k))
  BY SeenHasLanded DEF Seen
<1> QED  BY <1>1, SettingFixed, ConstantsAssumption DEF Withdrawn, OwnStays, NameSeen

\* The others give a call that gave way no table of its own.
LEMMA SeenGivesWay ==
    ASSUME Inv, NEW k \in Job, Seen(k), GivesWay(k) PROVE GivesWay(k)'
<1>1. setting' = setting /\ OwnStays(k) /\ NameSeen(k) /\ ZeroSeen(k)
  BY DEF Seen
<1>2. zero'[Home(k)] = k <=> zero[Home(k)] = k
  BY <1>1, SeenOwn DEF Home, Location
<1>3. Managed /\ name # k => name' # k
  BY <1>1, ConstantsAssumption DEF NameSeen
<1> QED  BY <1>1, <1>2, <1>3, SettingFixed DEF GivesWay, OwnStays

\* A plan that gives its files up has them in no table, or in one that was dropped.
LEMMA CallWithdrawn ==
    ASSUME Inv, LateOrDrop, UNCHANGED setting, NEW j \in Job, CallStep(j), Withdrawn(j),
           Planned(j) => Honoured(j)
    PROVE  Withdrawn(j)'
<1>a. SafeCall(j) /\ TypeOK /\ Fixed /\ Places
  BY DEF Inv, SafeCalls
<1>0. pc \in [Job -> Pcs] /\ result \in [Job -> Results]
  BY <1>a DEF TypeOK, Pcs, Results
<1> USE <1>0, SettingFixed DEF Goto, Ending, Finish
<1>b. Control(j) /\ Told(j) /\ Target(j) /\ Creation(j) /\ Removal(j)
  BY <1>a DEF SafeCall
<1>c. TablesStep(j) /\ NameStep(j)
  BY <1>a, CallTables, CallName
<1>d. /\ commits' = commits => (HasLanded(j)' <=> HasLanded(j))
      /\ AddsCommit(j) => HasLanded(j)' /\ ~HasLanded(j)
  BY <1>a, <1>c, OwnHasLanded
<1>e. pc[j] \notin {"put", "append"} => (HasLanded(j)' <=> HasLanded(j))
  BY <1>c, <1>d DEF TablesStep, MakesTable, AddsCommit, RemovesTable
<1>f. HasLanded(j) => commits[target[j]] # <<>> /\ (Planned(j) => target[j] = Home(j))
  BY <1>a, FindsLanded DEF SafeCall, LandsThere, HasLanded, LandedIn
<1>g. \* A plan that has landed keeps its name, unless the other writer may drop it.
      Managed /\ Planned(j) /\ "drop" \notin Faults /\ HasLanded(j)' => name' = j
  <2> SUFFICES ASSUME Managed, Planned(j), "drop" \notin Faults, HasLanded(j)' PROVE name' = j
    OBVIOUS
  <2>1. CASE HasLanded(j)
    <3>1. name = j
      BY <2>1 DEF Withdrawn
    <3>2. ~DropsName(j)
      BY <1>b, <1>f, <2>1 DEF DropsName, Removal
    <3> QED  BY <1>c, <3>1, <3>2, ConstantsAssumption DEF NameStep, TakesName
  <2>2. CASE ~HasLanded(j)
    <3>1. AddsCommit(j)
      BY <1>c, <1>d, <2>2 DEF TablesStep, MakesTable, RemovesTable
    <3>2. name = target[j] /\ target[j] = Home(j) /\ pc[j] = "put"
      BY <1>a, <1>b, <3>1, WhichCall DEF AddsCommit, Target
    <3>3. j \notin late \/ name # None
      BY <3>2, ConstantsAssumption DEF Home
    <3> QED  BY <1>c, <3>2, <3>3, ConstantsAssumption DEF NameStep, TakesName, DropsName, Home
  <2> QED  BY <2>1, <2>2
<1>h. SUFFICES ASSUME Planned(j), HasLanded(j)',
                      pc'[j] \in Undoing \/ (pc'[j] = "idle" /\ result'[j] \in GaveUp)
               PROVE  Managed /\ name' # j
  BY <1>g DEF Withdrawn
<1>i. \* Where it gave up before, a late request is none.
      ASSUME pc'[j] = pc[j] \/ pc[j] \in Undoing, result'[j] = result[j], HasLanded(j)' <=> HasLanded(j),
             pc[j] \in Undoing \/ (pc[j] = "idle" /\ result[j] \in GaveUp)
      PROVE  Managed /\ name' # j
  <2>1. Managed /\ name # j
    BY <1>h, <1>i DEF Withdrawn
  <2>2. name' # j
    <3>1. "drop" \in Faults
      BY <1>h, <1>i, <2>1 DEF Withdrawn
    <3>2. j \notin late
      BY <1>a, <1>b, <3>1 DEF Creation, Fixed, LateOrDrop, Faults
    <3> QED  BY <1>c, <1>i, <2>1, <3>2, ConstantsAssumption DEF NameStep, TakesName, DropsName, Undoing
  <2> QED  BY <2>1, <2>2
<1>1. CASE PlanWrite(j)
  BY <1>1, <1>b, <1>e, <1>h, WhichCall DEF PlanWrite, SaveMode, Undoing, GaveUp, Control, Told,
     Unwritten, Committing
<1>2. CASE PlanRefused(j)
  BY <1>2, <1>b, <1>e, <1>h, WhichCall DEF PlanRefused, Undoing, GaveUp, Control, Told, Unwritten, Committing
<1>3. CASE WriteFiles(j)
  BY <1>3, <1>b, <1>e, <1>h, WhichCall DEF WriteFiles, Undoing, GaveUp, Control, Told, Unwritten, Committing
<1>4. CASE CommitCall(j)
  BY <1>4, <1>b, <1>e, <1>h, WhichCall DEF CommitCall, MayCall, Undoing, GaveUp, Control, Told,
     Unwritten, Committing
<1>5. CASE Publish(j)
  BY <1>5, <1>b, <1>e, <1>h, WhichCall DEF Publish, Undoing, GaveUp, Control, Told, Unwritten, Committing
<1>6. CASE Open(j)
  <2>1. ~Managed /\ pc[j] = "open" /\ (HasLanded(j)' <=> HasLanded(j))
    BY <1>6, <1>b, <1>e, <1>h DEF Open, Control
  <2>2. ~(zero[Shared] = j \/ Joins(j)) /\ zero[Shared] # None
    BY <1>6, <1>h DEF Open, Retarget, Undoing, GaveUp
  <2> QED  BY <1>h, <2>1, <2>2, PlanJoins
<1>7. CASE Finalize(j)
  BY <1>7, <1>b, <1>e, <1>h, WhichCall DEF Finalize, Undoing, GaveUp, Control, Told, Unwritten, Committing
<1>8. CASE FinalizeLate(j)
  <2>1. pc' = pc /\ result' = result /\ commits' = commits
    BY <1>8 DEF FinalizeLate, tables
  <2> QED  BY <1>d, <1>h, <1>i, <2>1
<1>9. CASE RegisteredAnyway(j)
  BY <1>9, <1>b, <1>e, <1>h, WhichCall DEF RegisteredAnyway, Undoing, GaveUp, Control, Told,
     Unwritten, Committing
<1>10. CASE CertainlyAbsent(j)
  <2>1. name' = name /\ (name = None \/ result'[j] = "error") /\ pc'[j] = "idle"
    BY <1>10 DEF CertainlyAbsent
  <2>2. Managed
    BY <1>10, <1>b, <1>h DEF CertainlyAbsent, Control
  <2> QED  BY <1>h, <2>1, <2>2, ConstantsAssumption DEF Undoing, GaveUp
<1>11. CASE Resolve(j)
  <2>1. name' = name /\ (pc'[j] = "attempt" \/ result'[j] = "error" \/ name # j)
    BY <1>11 DEF Resolve, Retarget
  <2>2. Managed /\ pc'[j] \in {"idle", "attempt"}
    BY <1>11, <1>b, <1>h DEF Resolve, Retarget, Control
  <2> QED  BY <1>h, <2>1, <2>2 DEF Undoing, GaveUp
<1>12. CASE Attempt(j)
  BY <1>12, <1>b, <1>e, <1>h, WhichCall DEF Attempt, Undoing, GaveUp, Control, Told, Unwritten, Committing
<1>13. CASE Put(j)
  <2>1. ~HasLanded(j)
    BY <1>13, <1>b, <1>h DEF Put, Told
  <2>2. \/ pc'[j] \in {"landed", "attempt", "abort"}
        \/ pc'[j] = "idle" /\ result'[j] = "error"
        \/ commits' = commits
    BY <1>13 DEF Put, tables
  <2>3. pc'[j] \notin {"landed", "attempt", "abort"} /\ ~(pc'[j] = "idle" /\ result'[j] = "error")
    BY <1>h DEF Undoing, GaveUp
  <2> QED  BY <1>d, <1>h, <2>1, <2>2, <2>3
<1>14. CASE PutUnanswered(j)
  BY <1>14, <1>b, <1>e, <1>h, WhichCall DEF PutUnanswered, UnknownOutcome, Undoing, GaveUp, Control,
     Told, Unwritten, Committing
<1>15. CASE Landed(j)
  BY <1>15, <1>b, <1>e, <1>h, WhichCall DEF Landed, Undoing, GaveUp, Control, Told, Unwritten, Committing
<1>16. CASE Register(j)
  BY <1>16, <1>b, <1>e, <1>h, WhichCall DEF Register, Undoing, GaveUp, Control, Told, Unwritten, Committing
<1>17. CASE CertainFailure(j)
  <2>1. ~HasLanded(j) /\ (HasLanded(j)' <=> HasLanded(j))
    BY <1>17, <1>b, <1>e, <1>h DEF CertainFailure, Told
  <2> QED  BY <1>h, <2>1
<1>18. CASE UndoCheck(j)
  <2>1. pc[j] \in Undoing /\ result' = result /\ (HasLanded(j)' <=> HasLanded(j))
    BY <1>18, <1>e DEF UndoCheck, Undoing
  <2> QED  BY <1>i, <2>1
<1>19. CASE UndoDrop(j)
  <2>1. pc[j] \in Undoing /\ result' = result /\ (HasLanded(j)' <=> HasLanded(j))
    BY <1>19, <1>e DEF UndoDrop, Undoing
  <2> QED  BY <1>i, <2>1
<1>20. CASE Discard(j)
  <2>1. pc[j] \in Undoing /\ result' = result /\ (HasLanded(j)' <=> HasLanded(j))
    BY <1>20, <1>e DEF Discard, Undoing
  <2> QED  BY <1>i, <2>1
<1>21. CASE AbortCall(j)
  <2>1. (HasLanded(j)' <=> HasLanded(j)) /\ HasLanded(j) /\ name' = name
    BY <1>21, <1>e, <1>h DEF AbortCall, MayCall
  <2>2. LandedIn(j, Home(j)) /\ zero[Home(j)] # None
    BY <1>a, <1>f, <1>h, <2>1, FindsLanded DEF Places, Home, Location
  <2>3. Uncreated(j)
    BY <1>21, <1>h, <2>2 DEF AbortCall, Undoing, GaveUp
  <2> QED  BY <2>1, <2>2, <2>3 DEF Uncreated, Home
<1>22. CASE CheckExists(j)
  BY <1>22, <1>b, <1>e, <1>h, WhichCall DEF CheckExists, SaveMode, Undoing, GaveUp, Control, Told,
     Unwritten, Committing
<1>23. CASE CreateLog(j)
  BY <1>23, <1>b, <1>e, <1>h, WhichCall DEF CreateLog, Undoing, GaveUp, Control, Told, Unwritten, Committing
<1>24. CASE Enroll(j)
  BY <1>24, <1>b, <1>e, <1>h, WhichCall DEF Enroll, Undoing, GaveUp, Control, Told, Unwritten, Committing
<1>25. CASE CreateRaised(j)
  BY <1>25, <1>b, <1>e, <1>h, WhichCall DEF CreateRaised, Undoing, GaveUp, Control, Told, Unwritten,
     Committing
<1>26. CASE Created(j)
  BY <1>26, <1>b, <1>e, <1>h, WhichCall DEF Created, Undoing, GaveUp, Control, Told, Unwritten, Committing
<1>27. CASE WriteExisting(j)
  BY <1>27, <1>b, <1>e, <1>h, WhichCall DEF WriteExisting, Undoing, GaveUp, Control, Told,
     Unwritten, Committing
<1>28. CASE AppendData(j)
  BY <1>28, <1>b, <1>e, <1>h, WhichCall DEF AppendData, Undoing, GaveUp, Control, Told, Unwritten, Committing
<1>29. CASE CleanupCheck(j)
  BY <1>29, <1>b, <1>e, <1>h, WhichCall DEF CleanupCheck, Undoing, GaveUp, Control, Told, Unwritten,
     Committing
<1>30. CASE RemoveLog(j)
  BY <1>30, <1>b, <1>e, <1>h, WhichCall DEF RemoveLog, Undoing, GaveUp, Control, Told, Unwritten, Committing
<1> QED  BY <1>1, <1>2, <1>3, <1>4, <1>5, <1>6, <1>7, <1>8, <1>9, <1>10, <1>11, <1>12, <1>13, <1>14,
     <1>15, <1>16, <1>17, <1>18, <1>19, <1>20, <1>21, <1>22, <1>23, <1>24, <1>25, <1>26, <1>27,
     <1>28, <1>29, <1>30 DEF CallStep, PlanStep, WriteStep

\* A call gives way to a table that is not its own.
LEMMA CallGivesWay ==
    ASSUME Inv, UNCHANGED setting, NEW j \in Job, CallStep(j), GivesWay(j) PROVE GivesWay(j)'
<1>a. SafeCall(j) /\ TypeOK /\ Fixed /\ Places
  BY DEF Inv, SafeCalls
<1>b. Control(j) /\ Creation(j)
  BY <1>a DEF SafeCall
<1>0. pc \in [Job -> Pcs] /\ result \in [Job -> Results]
  BY <1>a DEF TypeOK, Pcs, Results
<1> USE <1>0, SettingFixed DEF Goto, Ending, Finish
<1>c. pc[j] \notin {"new", "publish", "create"} /\ zero[Home(j)] # j => zero'[Home(j)] # j
  BY <1>a, CallTables, OwnZero
<1>d. (Managed => Home(j) = j) /\ (~Managed => Home(j) = Shared)
  BY DEF Home
<1>e. SUFFICES ASSUME "late" \notin Faults,
                      Planned(j) \/ ("applied" \notin Faults /\ setting.kind # "external"),
                      pc'[j] = "raised" \/ (pc'[j] = "idle" /\ result'[j] = "ignored"), zero'[Home(j)] = j
               PROVE  Managed /\ name' # j
  BY DEF GivesWay
<1>f. \* What gave way before and made no table.
      ASSUME pc[j] = "raised" \/ (pc[j] = "idle" /\ result[j] = "ignored"), name' = name
      PROVE  Managed /\ name' # j
  BY <1>c, <1>e, <1>f DEF GivesWay
<1>1. CASE PlanWrite(j)
  <2>1. Planned(j) /\ zero[Home(j)] # j
    BY <1>1, <1>b DEF PlanWrite, Planned, Creation
  <2>2. pc'[j] = "planned" \/ zero' = zero
    BY <1>1 DEF PlanWrite, SaveMode, tables
  <2> QED  BY <1>e, <2>1, <2>2
<1>2. CASE PlanRefused(j)
  BY <1>2, <1>b, <1>e, WhichCall DEF PlanRefused, Control, Unwritten, Committing, Undoing
<1>3. CASE WriteFiles(j)
  BY <1>3, <1>b, <1>e, WhichCall DEF WriteFiles, Control, Unwritten, Committing, Undoing
<1>4. CASE CommitCall(j)
  BY <1>4, <1>b, <1>e, WhichCall DEF CommitCall, MayCall, Control, Unwritten, Committing, Undoing
<1>5. CASE Publish(j)
  BY <1>5, <1>b, <1>e, WhichCall DEF Publish, Control, Unwritten, Committing, Undoing
<1>6. CASE Open(j)
  <2>1. ~Managed /\ zero' = zero /\ pc[j] = "open"
    BY <1>6, <1>b DEF Open, Control, tables
  <2>2. zero[Shared] # j
    BY <1>6, <1>e DEF Open, Retarget
  <2> QED  BY <1>d, <1>e, <2>1, <2>2
<1>7. CASE Finalize(j)
  BY <1>7, <1>b, <1>e, WhichCall DEF Finalize, Control, Unwritten, Committing, Undoing
<1>8. CASE FinalizeLate(j)
  <2>1. FALSE
    BY <1>8, <1>b, <1>e DEF FinalizeLate, Creation
  <2> QED  BY <2>1
<1>9. CASE RegisteredAnyway(j)
  BY <1>9, <1>b, <1>e, WhichCall DEF RegisteredAnyway, Control, Unwritten, Committing, Undoing
<1>10. CASE CertainlyAbsent(j)
  BY <1>10, <1>b, <1>e, WhichCall DEF CertainlyAbsent, Control, Unwritten, Committing, Undoing
<1>11. CASE Resolve(j)
  <2>1. Managed /\ name' = name
    BY <1>11, <1>b DEF Resolve, Control
  <2>2. name # j
    BY <1>11, <1>e DEF Resolve, Retarget
  <2> QED  BY <2>1, <2>2
<1>12. CASE Attempt(j)
  BY <1>12, <1>b, <1>e, WhichCall DEF Attempt, Control, Unwritten, Committing, Undoing
<1>13. CASE Put(j)
  BY <1>13, <1>b, <1>e, WhichCall DEF Put, Control, Unwritten, Committing, Undoing
<1>14. CASE PutUnanswered(j)
  BY <1>14, <1>b, <1>e, WhichCall DEF PutUnanswered, UnknownOutcome, Control, Unwritten, Committing, Undoing
<1>15. CASE Landed(j)
  BY <1>15, <1>b, <1>e, WhichCall DEF Landed, Control, Unwritten, Committing, Undoing
<1>16. CASE Register(j)
  BY <1>16, <1>b, <1>e, WhichCall DEF Register, Control, Unwritten, Committing, Undoing
<1>17. CASE CertainFailure(j)
  BY <1>17, <1>b, <1>e, WhichCall DEF CertainFailure, Control, Unwritten, Committing, Undoing
<1>18. CASE UndoCheck(j)
  BY <1>18, <1>b, <1>e, WhichCall DEF UndoCheck, Control, Unwritten, Committing, Undoing
<1>19. CASE UndoDrop(j)
  BY <1>19, <1>b, <1>e, WhichCall DEF UndoDrop, Control, Unwritten, Committing, Undoing
<1>20. CASE Discard(j)
  BY <1>20, <1>b, <1>e, WhichCall DEF Discard, Control, Unwritten, Committing, Undoing
<1>21. CASE AbortCall(j)
  BY <1>21, <1>b, <1>e, WhichCall DEF AbortCall, MayCall, Control, Unwritten, Committing, Undoing
<1>22. CASE CheckExists(j)
  <2>1. zero[Home(j)] # j /\ zero' = zero
    BY <1>22, <1>b DEF CheckExists, Creation, tables
  <2> QED  BY <1>e, <2>1
<1>23. CASE CreateLog(j)
  <2>1. zero[Home(j)] # j
    BY <1>23, <1>b DEF CreateLog, Creation
  <2>2. zero' = zero
    BY <1>23, <1>e DEF CreateLog, tables
  <2> QED  BY <1>e, <2>1, <2>2
<1>24. CASE Enroll(j)
  <2>1. ~Planned(j) /\ Catalogued
    BY <1>24, <1>b, WhichCall DEF Enroll, Control
  <2>2. Managed
    BY <1>e, <2>1 DEF Catalogued, Managed
  <2>3. name # j
    BY <1>24, <1>b, <2>1, <2>2 DEF Enroll, Creation
  <2>4. name' = name
    BY <1>24, <1>e, <2>1 DEF Enroll, Fails
  <2> QED  BY <2>2, <2>3, <2>4
<1>25. CASE CreateRaised(j)
  <2>1. pc[j] = "raised" /\ name' = name
    BY <1>25 DEF CreateRaised
  <2> QED  BY <1>f, <2>1
<1>26. CASE Created(j)
  BY <1>26, <1>b, <1>e, WhichCall DEF Created, Control, Unwritten, Committing, Undoing
<1>27. CASE WriteExisting(j)
  BY <1>27, <1>b, <1>e, WhichCall DEF WriteExisting, Control, Unwritten, Committing, Undoing
<1>28. CASE AppendData(j)
  BY <1>28, <1>b, <1>e, WhichCall DEF AppendData, Control, Unwritten, Committing, Undoing
<1>29. CASE CleanupCheck(j)
  BY <1>29, <1>b, <1>e, WhichCall DEF CleanupCheck, Control, Unwritten, Committing, Undoing
<1>30. CASE RemoveLog(j)
  BY <1>30, <1>b, <1>e, WhichCall DEF RemoveLog, Control, Unwritten, Committing, Undoing
<1> QED  BY <1>1, <1>2, <1>3, <1>4, <1>5, <1>6, <1>7, <1>8, <1>9, <1>10, <1>11, <1>12, <1>13, <1>14,
     <1>15, <1>16, <1>17, <1>18, <1>19, <1>20, <1>21, <1>22, <1>23, <1>24, <1>25, <1>26, <1>27,
     <1>28, <1>29, <1>30 DEF CallStep, PlanStep, WriteStep

\* The invariants behind what callers are told.
OutcomeInv ==
    \A j \in Job : (Planned(j) => Honoured(j)) /\ Withdrawn(j) /\ GivesWay(j)

\* They hold before any call.
LEMMA InitOutcomeInv == Init => OutcomeInv
<1> SUFFICES ASSUME Init, NEW j \in Job
             PROVE  (Planned(j) => Honoured(j)) /\ Withdrawn(j) /\ GivesWay(j)
  BY DEF OutcomeInv
<1>1. \A l \in Location : ~LandedIn(j, l)
  BY DEF Init, LandedIn
<1> QED  BY <1>1 DEF Init, Honoured, Withdrawn, GivesWay, HasLanded, Undoing

\* A step keeps them.
LEMMA NextOutcomeInv == Inv /\ LateOrDrop /\ OutcomeInv /\ [Next]_vars => OutcomeInv'
<1> SUFFICES ASSUME Inv, LateOrDrop, OutcomeInv, [Next]_vars, NEW j \in Job
             PROVE  (Planned(j)' => Honoured(j)') /\ Withdrawn(j)' /\ GivesWay(j)'
  BY DEF OutcomeInv
<1>1. UNCHANGED setting /\ (CallStep(j) \/ Seen(j))
  BY StepSeen
<1>2. (Planned(j) => Honoured(j)) /\ Withdrawn(j) /\ GivesWay(j)
  BY DEF OutcomeInv
<1>3. Planned(j)' => Honoured(j)'
  BY <1>1, <1>2, PlanHonoured, SettingFixed
<1>4. CASE CallStep(j)
  BY <1>1, <1>2, <1>3, <1>4, CallWithdrawn, CallGivesWay
<1>5. CASE Seen(j)
  BY <1>2, <1>3, <1>5, SeenWithdrawn, SeenGivesWay
<1> QED  BY <1>1, <1>4, <1>5

\* A caller that was told its data is committed finds it in a table that can be opened,
\* one that was refused, gave way, failed or gave up has none in a table that stands,
\* and a call gives way to others only (_create.py _Creator.commit, connection.py
\* write_table). Of the settings in which another writer drops the table and a finalize
\* request still under way registers it again this is not said: the files of the first
\* registration are gone by then.
THEOREM OutcomeTruthfulHolds == Spec => [](NoOverlap /\ LateOrDrop => OutcomeTruthful)
<1>1. Inv /\ OutcomeInv => OutcomeTruthful
  <2> SUFFICES ASSUME Inv, OutcomeInv, NEW j \in Job, pc[j] = "idle"
               PROVE  /\ result[j] \in {"committed", "unregistered", "landed"} =>
                            LandedIn(j, target[j]) /\ zero[target[j]] # None
                      /\ result[j] \in {"refused", "ignored", "failed", "aborted"} =>
                            \A l \in Location : LandedIn(j, l) => ~Stands(l)
                      /\ result[j] = "ignored" /\ "late" \notin Faults
                         /\ (Planned(j) \/ ("applied" \notin Faults /\ setting.kind # "external")) =>
                            \A l \in Location : zero[l] = j => ~Live(l)
    BY DEF OutcomeTruthful
  <2>1. SafeCall(j) /\ TypeOK /\ Places /\ Withdrawn(j) /\ GivesWay(j)
    BY DEF Inv, SafeCalls, OutcomeInv
  <2>2. ASSUME result[j] \in {"committed", "unregistered", "landed"}
        PROVE  LandedIn(j, target[j]) /\ zero[target[j]] # None
    <3>1. LandedIn(j, target[j]) /\ target[j] \in Location
      BY <2>1, <2>2, FindsLanded DEF SafeCall, Told, TypeOK
    <3>2. commits[target[j]] # <<>>
      BY <3>1 DEF LandedIn
    <3> QED  BY <2>1, <3>1, <3>2 DEF Places
  <2>3. ASSUME result[j] \in {"refused", "ignored", "failed", "aborted"},
               NEW l \in Location, LandedIn(j, l)
        PROVE  ~Stands(l)
    <3>1. HasLanded(j) /\ Planned(j)
      BY <2>1, <2>3 DEF HasLanded, SafeCall, Told
    <3>2. Managed /\ name # j
      BY <2>1, <2>3, <3>1 DEF Withdrawn, GaveUp
    <3>3. l = j
      BY <2>1, <2>3, <3>1, <3>2 DEF SafeCall, LandsThere, Home
    <3> QED  BY <3>2, <3>3 DEF Stands
  <2>4. ASSUME result[j] = "ignored", "late" \notin Faults,
               Planned(j) \/ ("applied" \notin Faults /\ setting.kind # "external"),
               NEW l \in Location, zero[l] = j
        PROVE  ~Live(l)
    <3>1. l = Home(j)
      BY <2>1, <2>4, HomeOnly
    <3>2. Managed /\ name # j
      BY <2>1, <2>4, <3>1 DEF GivesWay
    <3> QED  BY <3>1, <3>2 DEF Live, Home
  <2> QED  BY <2>2, <2>3, <2>4
<1>2. (NoOverlap => Inv) /\ (NoOverlap /\ LateOrDrop => OutcomeInv) /\ [Next]_vars =>
        (NoOverlap /\ LateOrDrop => OutcomeInv)'
  <2>1. [Next]_vars => (NoOverlap' => NoOverlap) /\ (LateOrDrop' => LateOrDrop)
    BY SettingKept DEF NoOverlap, LateOrDrop, Faults
  <2> QED  BY <2>1, NextOutcomeInv
<1> QED  BY <1>1, <1>2, AlwaysInv, InitOutcomeInv, PTL DEF Spec

-----------------------------------------------------------------------------
(* What a plan leaves behind that gave up. *)

\* The others leave it so.
LEMMA SeenCleared ==
    ASSUME Inv, NEW k \in Job, Seen(k), Cleared(k) PROVE Cleared(k)'
BY SettingFixed DEF Cleared, Seen, OwnStays

\* The others leave no empty table of a plan's, and open none.
LEMMA SeenNoneEmpty ==
    ASSUME Inv, NEW k \in Job, Seen(k), NoneEmpty(k) PROVE NoneEmpty(k)'
<1>1. setting' = setting /\ OwnStays(k) /\ NameSeen(k) /\ ZeroSeen(k) /\ CommitsSeen(k)
  BY DEF Seen
<1>2. Home(k) \in Location /\ (Managed => Home(k) = k)
  BY DEF Home, Location
<1>3. zero'[Home(k)] = k <=> zero[Home(k)] = k
  BY <1>1, <1>2, SeenOwn
<1>4. Managed /\ name # k => name' # k
  BY <1>1, ConstantsAssumption DEF NameSeen
<1>5. zero[Home(k)] = k => zero[Home(k)] # None
  BY ConstantsAssumption
<1>6. commits[Home(k)] # <<>> => commits'[Home(k)] # <<>>
  BY <1>1, <1>2, SeenStands DEF Inv
<1> QED  BY <1>1, <1>2, <1>3, <1>4, <1>5, <1>6, SettingFixed DEF NoneEmpty, OwnStays, Live

\* A plan that gives up deletes its files and, but for one case, its template.
LEMMA CallCleared ==
    ASSUME Inv, UNCHANGED setting, NEW j \in Job, CallStep(j), Cleared(j), Planned(j) => Honoured(j)
    PROVE  Cleared(j)'
<1>a. SafeCall(j) /\ TypeOK
  BY DEF Inv, SafeCalls
<1>b. Control(j) /\ Told(j)
  BY <1>a DEF SafeCall
<1>0. pc \in [Job -> Pcs] /\ result \in [Job -> Results]
  BY <1>a DEF TypeOK, Pcs, Results
<1> USE <1>0, SettingFixed DEF Goto, Ending, Finish
<1>c. SUFFICES ASSUME Planned(j), "delete" \notin Faults
               PROVE  /\ pc'[j] \in Unwritten => j \notin files'
                      /\ pc'[j] = "new" => j \notin template'
                      /\ ~Keeps(j) /\ (pc'[j] \in Undoing \/ (pc'[j] = "idle" /\ result'[j] \in GaveUp)) =>
                           j \notin files'
                      /\ ~Keeps(j) /\ pc'[j] = "idle" /\ result'[j] \in GaveUp /\ j \in template' =>
                           Managed /\ calls'[j] > 0 /\ result'[j] \in {"refused", "ignored"}
  BY DEF Cleared
<1>d. /\ pc[j] \in Unwritten => j \notin files
      /\ pc[j] = "new" => j \notin template
      /\ ~Keeps(j) /\ (pc[j] \in Undoing \/ (pc[j] = "idle" /\ result[j] \in GaveUp)) => j \notin files
  BY <1>c DEF Cleared
<1>e. \A S, T : T \in Without(S, j) => j \notin T
  BY <1>c DEF Without
<1>f. LandedIn(j, target[j]) <=> HasLanded(j)
  BY <1>a, FindsLanded
<1>1. CASE PlanWrite(j)
  BY <1>1, <1>b, <1>c, <1>d, <1>e, WhichCall DEF PlanWrite, SaveMode, Control, Unwritten,
     Committing, Undoing, GaveUp
<1>2. CASE PlanRefused(j)
  BY <1>2, <1>b, <1>c, <1>d, <1>e, WhichCall DEF PlanRefused, Control, Unwritten, Committing, Undoing, GaveUp
<1>3. CASE WriteFiles(j)
  BY <1>3, <1>b, <1>c, <1>d, <1>e, WhichCall DEF WriteFiles, Control, Unwritten, Committing, Undoing, GaveUp
<1>4. CASE CommitCall(j)
  BY <1>4, <1>b, <1>c, <1>d, <1>e, WhichCall DEF CommitCall, MayCall, Control, Unwritten,
     Committing, Undoing, GaveUp
<1>5. CASE Publish(j)
  BY <1>5, <1>b, <1>c, <1>d, <1>e, WhichCall DEF Publish, Control, Unwritten, Committing, Undoing, GaveUp
<1>6. CASE Open(j)
  <2>1. ~Managed /\ pc[j] = "open"
    BY <1>6, <1>b DEF Open, Control
  <2>2. pc'[j] = "idle" /\ result'[j] \in GaveUp => ~HasLanded(j)
    <3>1. pc'[j] = "idle" /\ result'[j] \in GaveUp => zero[Shared] # j /\ ~Joins(j)
      BY <1>6 DEF Open, Retarget, GaveUp
    <3> QED  BY <1>c, <2>1, <3>1, PlanJoins
  <2>3. ~HasLanded(j) => ~LandedIn(j, Shared)
    BY DEF HasLanded, Location
  <2>4. pc'[j] = "idle" /\ result'[j] \in GaveUp /\ ~Keeps(j) => j \notin files' /\ j \notin template'
    BY <1>6, <1>e, <2>2, <2>3 DEF Open, Retarget, AbortFiles, GaveUp
  <2>5. pc'[j] \in {"attempt", "idle"}
    BY <1>6 DEF Open, Retarget
  <2> QED  BY <2>4, <2>5 DEF Unwritten, Undoing
<1>7. CASE Finalize(j)
  BY <1>7, <1>b, <1>c, <1>d, <1>e, WhichCall DEF Finalize, Control, Unwritten, Committing, Undoing, GaveUp
<1>8. CASE FinalizeLate(j)
  <2>1. pc' = pc /\ result' = result /\ files' = files /\ template' = template /\ calls' = calls
    BY <1>8 DEF FinalizeLate, caller
  <2> QED  BY <1>c, <2>1 DEF Cleared
<1>9. CASE RegisteredAnyway(j)
  BY <1>9, <1>b, <1>c, <1>d, <1>e, WhichCall DEF RegisteredAnyway, Control, Unwritten, Committing,
     Undoing, GaveUp
<1>10. CASE CertainlyAbsent(j)
  BY <1>10, <1>b, <1>c, <1>d, <1>e, WhichCall DEF CertainlyAbsent, Control, Unwritten, Committing,
     Undoing, GaveUp
<1>11. CASE Resolve(j)
  <2>1. Managed /\ calls[j] > 0 /\ calls' = calls
    BY <1>11, <1>b, <1>c DEF Resolve, Control
  <2>2. pc'[j] = "attempt" \/ (pc'[j] = "idle" /\ result'[j] = "error")
        \/ (pc'[j] = "idle" /\ result'[j] \in {"refused", "ignored"} /\ (Keeps(j) \/ j \notin files'))
    BY <1>11, <1>e DEF Resolve, Retarget
  <2> QED  BY <2>1, <2>2 DEF Unwritten, Undoing, GaveUp
<1>12. CASE Attempt(j)
  BY <1>12, <1>b, <1>c, <1>d, <1>e, WhichCall DEF Attempt, Control, Unwritten, Committing, Undoing, GaveUp
<1>13. CASE Put(j)
  BY <1>13, <1>b, <1>c, <1>d, <1>e, WhichCall DEF Put, Control, Unwritten, Committing, Undoing, GaveUp
<1>14. CASE PutUnanswered(j)
  BY <1>14, <1>b, <1>c, <1>d, <1>e, WhichCall DEF PutUnanswered, UnknownOutcome, Control, Unwritten,
     Committing, Undoing, GaveUp
<1>15. CASE Landed(j)
  BY <1>15, <1>b, <1>c, <1>d, <1>e, WhichCall DEF Landed, Control, Unwritten, Committing, Undoing, GaveUp
<1>16. CASE Register(j)
  BY <1>16, <1>b, <1>c, <1>d, <1>e, WhichCall DEF Register, Control, Unwritten, Committing, Undoing, GaveUp
<1>17. CASE CertainFailure(j)
  <2>1. ~HasLanded(j)
    BY <1>17, <1>b, <1>c DEF CertainFailure, Told
  <2>2. j \notin files'
    BY <1>17, <1>e, <1>f, <2>1 DEF CertainFailure, AbortFiles
  <2>3. pc'[j] \in {"undo", "discard"}
    BY <1>17 DEF CertainFailure
  <2> QED  BY <2>2, <2>3 DEF Unwritten
<1>18. CASE UndoCheck(j)
  BY <1>18, <1>b, <1>c, <1>d, <1>e, WhichCall DEF UndoCheck, Control, Unwritten, Committing, Undoing, GaveUp
<1>19. CASE UndoDrop(j)
  BY <1>19, <1>b, <1>c, <1>d, <1>e, WhichCall DEF UndoDrop, Control, Unwritten, Committing, Undoing, GaveUp
<1>20. CASE Discard(j)
  BY <1>20, <1>b, <1>c, <1>d, <1>e, WhichCall DEF Discard, Control, Unwritten, Committing, Undoing, GaveUp
<1>21. CASE AbortCall(j)
  <2>1. \/ pc'[j] \in {"undo", "discard"} /\ j \notin files'
        \/ pc'[j] = "idle" /\ result'[j] = "landed"
    BY <1>21, <1>e DEF AbortCall
  <2> QED  BY <2>1 DEF Unwritten, GaveUp, Undoing
<1>22. CASE CheckExists(j)
  BY <1>22, <1>b, <1>c, <1>d, <1>e, WhichCall DEF CheckExists, SaveMode, Control, Unwritten,
     Committing, Undoing, GaveUp
<1>23. CASE CreateLog(j)
  BY <1>23, <1>b, <1>c, <1>d, <1>e, WhichCall DEF CreateLog, Control, Unwritten, Committing, Undoing, GaveUp
<1>24. CASE Enroll(j)
  BY <1>24, <1>b, <1>c, <1>d, <1>e, WhichCall DEF Enroll, Control, Unwritten, Committing, Undoing, GaveUp
<1>25. CASE CreateRaised(j)
  BY <1>25, <1>b, <1>c, <1>d, <1>e, WhichCall DEF CreateRaised, Control, Unwritten, Committing,
     Undoing, GaveUp
<1>26. CASE Created(j)
  BY <1>26, <1>b, <1>c, <1>d, <1>e, WhichCall DEF Created, Control, Unwritten, Committing, Undoing, GaveUp
<1>27. CASE WriteExisting(j)
  BY <1>27, <1>b, <1>c, <1>d, <1>e, WhichCall DEF WriteExisting, Control, Unwritten, Committing,
     Undoing, GaveUp
<1>28. CASE AppendData(j)
  BY <1>28, <1>b, <1>c, <1>d, <1>e, WhichCall DEF AppendData, Control, Unwritten, Committing, Undoing, GaveUp
<1>29. CASE CleanupCheck(j)
  BY <1>29, <1>b, <1>c, <1>d, <1>e, WhichCall DEF CleanupCheck, Control, Unwritten, Committing,
     Undoing, GaveUp
<1>30. CASE RemoveLog(j)
  BY <1>30, <1>b, <1>c, <1>d, <1>e, WhichCall DEF RemoveLog, Control, Unwritten, Committing, Undoing, GaveUp
<1> QED  BY <1>1, <1>2, <1>3, <1>4, <1>5, <1>6, <1>7, <1>8, <1>9, <1>10, <1>11, <1>12, <1>13, <1>14,
     <1>15, <1>16, <1>17, <1>18, <1>19, <1>20, <1>21, <1>22, <1>23, <1>24, <1>25, <1>26, <1>27,
     <1>28, <1>29, <1>30 DEF CallStep, PlanStep, WriteStep

\* A plan that gives up leaves no empty table of its own.
LEMMA CallNoneEmpty ==
    ASSUME Inv, UNCHANGED setting, NEW j \in Job, CallStep(j), NoneEmpty(j) PROVE NoneEmpty(j)'
<1>a. SafeCall(j) /\ TypeOK /\ Places /\ Fixed
  BY DEF Inv, SafeCalls
<1>b. Control(j) /\ Creation(j) /\ Target(j)
  BY <1>a DEF SafeCall
<1>0. pc \in [Job -> Pcs] /\ result \in [Job -> Results]
  BY <1>a DEF TypeOK, Pcs, Results
<1> USE <1>0, SettingFixed DEF Goto, Ending, Finish
<1>c. (Managed => Home(j) = j) /\ (~Managed => Home(j) = Shared) /\ Home(j) \in Location
  BY DEF Home, Location
<1>d. pc[j] \notin {"new", "publish", "create"} /\ zero[Home(j)] # j => zero'[Home(j)] # j
  BY <1>a, CallTables, OwnZero
<1>e. Live(Home(j))' => (Managed => name' = j)
  BY <1>c DEF Live
<1>f. SUFFICES ASSUME Planned(j), Faults \cap {"delete", "late"} = {}, ~Keeps(j),
                      pc'[j] \in Unwritten \cup {"discard"} \/ (pc'[j] = "idle" /\ result'[j] \in GaveUp),
                      zero'[Home(j)] = j, Managed => name' = j
               PROVE  commits'[Home(j)] # <<>>
  BY <1>e DEF NoneEmpty
<1>g. \* What gave up before and changes no table.
      ASSUME pc[j] \in Unwritten \cup {"discard"} \/ (pc[j] = "idle" /\ result[j] \in GaveUp),
             zero' = zero, commits' = commits, name' = name
      PROVE  commits'[Home(j)] # <<>>
  BY <1>c, <1>f, <1>g, ConstantsAssumption DEF NoneEmpty, Live
<1>1. CASE PlanWrite(j)
  <2>1. zero[Home(j)] # j
    BY <1>1, <1>b DEF PlanWrite, Creation
  <2>2. zero' # zero => Managed
    BY <1>1 DEF PlanWrite, Stage, tables
  <2>3. name' = name
    BY <1>1 DEF PlanWrite
  <2> QED  BY <1>a, <1>c, <1>f, <2>1, <2>2, <2>3, ConstantsAssumption DEF Places
<1>2. CASE PlanRefused(j)
  <2>1. pc[j] \in Unwritten \cup {"discard"} /\ zero' = zero /\ commits' = commits /\ name' = name
    BY <1>2 DEF PlanRefused, Unwritten, tables
  <2> QED  BY <1>g, <2>1
<1>3. CASE WriteFiles(j)
  BY <1>3, <1>b, <1>f, WhichCall DEF WriteFiles, Control, Unwritten, Committing, Undoing, GaveUp
<1>4. CASE CommitCall(j)
  BY <1>4, <1>b, <1>f, WhichCall DEF CommitCall, MayCall, Control, Unwritten, Committing, Undoing, GaveUp
<1>5. CASE Publish(j)
  BY <1>5, <1>b, <1>f, WhichCall DEF Publish, Control, Unwritten, Committing, Undoing, GaveUp
<1>6. CASE Open(j)
  <2>1. ~Managed /\ zero' = zero
    BY <1>6, <1>b, <1>f DEF Open, Control, tables
  <2>2. zero[Shared] # j
    BY <1>6, <1>f DEF Open, Retarget, GaveUp, Unwritten
  <2> QED  BY <1>c, <1>f, <2>1, <2>2
<1>7. CASE Finalize(j)
  BY <1>7, <1>b, <1>f, WhichCall DEF Finalize, Control, Unwritten, Committing, Undoing, GaveUp
<1>8. CASE FinalizeLate(j)
  <2>1. FALSE
    BY <1>8, <1>b, <1>f DEF FinalizeLate, Creation
  <2> QED  BY <2>1
<1>9. CASE RegisteredAnyway(j)
  BY <1>9, <1>b, <1>f, WhichCall DEF RegisteredAnyway, Control, Unwritten, Committing, Undoing, GaveUp
<1>10. CASE CertainlyAbsent(j)
  <2>1. Managed /\ name' = name
    BY <1>10, <1>b, <1>f DEF CertainlyAbsent, Control
  <2>2. name = None
    BY <1>10, <1>f DEF CertainlyAbsent, GaveUp, Unwritten
  <2> QED  BY <1>f, <2>1, <2>2, ConstantsAssumption
<1>11. CASE Resolve(j)
  <2>1. Managed /\ name' = name
    BY <1>11, <1>b, <1>f DEF Resolve, Control
  <2>2. name # j
    BY <1>11, <1>f DEF Resolve, Retarget, GaveUp, Unwritten
  <2> QED  BY <1>f, <2>1, <2>2
<1>12. CASE Attempt(j)
  BY <1>12, <1>b, <1>f, WhichCall DEF Attempt, Control, Unwritten, Committing, Undoing, GaveUp
<1>13. CASE Put(j)
  BY <1>13, <1>b, <1>f, WhichCall DEF Put, Control, Unwritten, Committing, Undoing, GaveUp
<1>14. CASE PutUnanswered(j)
  BY <1>14, <1>b, <1>f, WhichCall DEF PutUnanswered, UnknownOutcome, Control, Unwritten, Committing,
     Undoing, GaveUp
<1>15. CASE Landed(j)
  BY <1>15, <1>b, <1>f, WhichCall DEF Landed, Control, Unwritten, Committing, Undoing, GaveUp
<1>16. CASE Register(j)
  BY <1>16, <1>b, <1>f, WhichCall DEF Register, Control, Unwritten, Committing, Undoing, GaveUp
<1>17. CASE CertainFailure(j)
  <2>1. identity[j] # j
    BY <1>17, <1>f DEF CertainFailure, Unwritten
  <2>2. zero[Home(j)] # j
    BY <1>17, <1>b, <1>f, <2>1 DEF CertainFailure, Target
  <2> QED  BY <1>17, <1>d, <1>f, <2>2 DEF CertainFailure
<1>18. CASE UndoCheck(j)
  <2>1. ~StillEmpty(j) /\ zero' = zero /\ commits' = commits
    BY <1>18, <1>f DEF UndoCheck, Unwritten, tables
  <2> QED  BY <1>f, <2>1 DEF StillEmpty, Own
<1>19. CASE UndoDrop(j)
  <2>1. IF Managed THEN name' = None ELSE zero' = [zero EXCEPT ![Shared] = None]
    BY <1>19, <1>f DEF UndoDrop, Fails
  <2>2. Managed
    BY <1>a, <1>c, <1>f, <2>1, ConstantsAssumption DEF TypeOK
  <2> QED  BY <1>f, <2>1, <2>2, ConstantsAssumption
<1>20. CASE Discard(j)
  <2>1. pc[j] \in Unwritten \cup {"discard"} /\ zero' = zero /\ commits' = commits /\ name' = name
    BY <1>20 DEF Discard, Unwritten, tables
  <2> QED  BY <1>g, <2>1
<1>21. CASE AbortCall(j)
  <2>1. zero' = zero /\ name' = name /\ pc[j] = "idle"
    BY <1>21 DEF AbortCall, MayCall, tables
  <2>2. Uncreated(j) \/ ~Own(j)
    BY <1>21, <1>f DEF AbortCall, Unwritten, GaveUp
  <2> QED  BY <1>c, <1>f, <2>1, <2>2, ConstantsAssumption DEF Uncreated, Own
<1>22. CASE CheckExists(j)
  <2>1. ~Planned(j)
    BY <1>22 DEF CheckExists, Planned
  <2> QED  BY <1>f, <2>1
<1>23. CASE CreateLog(j)
  BY <1>23, <1>b, <1>f, WhichCall DEF CreateLog, Control, Unwritten, Committing, Undoing, GaveUp
<1>24. CASE Enroll(j)
  BY <1>24, <1>b, <1>f, WhichCall DEF Enroll, Control, Unwritten, Committing, Undoing, GaveUp
<1>25. CASE CreateRaised(j)
  BY <1>25, <1>b, <1>f, WhichCall DEF CreateRaised, Control, Unwritten, Committing, Undoing, GaveUp
<1>26. CASE Created(j)
  BY <1>26, <1>b, <1>f, WhichCall DEF Created, Control, Unwritten, Committing, Undoing, GaveUp
<1>27. CASE WriteExisting(j)
  BY <1>27, <1>b, <1>f, WhichCall DEF WriteExisting, Control, Unwritten, Committing, Undoing, GaveUp
<1>28. CASE AppendData(j)
  BY <1>28, <1>b, <1>f, WhichCall DEF AppendData, Control, Unwritten, Committing, Undoing, GaveUp
<1>29. CASE CleanupCheck(j)
  BY <1>29, <1>b, <1>f, WhichCall DEF CleanupCheck, Control, Unwritten, Committing, Undoing, GaveUp
<1>30. CASE RemoveLog(j)
  BY <1>30, <1>b, <1>f, WhichCall DEF RemoveLog, Control, Unwritten, Committing, Undoing, GaveUp
<1> QED  BY <1>1, <1>2, <1>3, <1>4, <1>5, <1>6, <1>7, <1>8, <1>9, <1>10, <1>11, <1>12, <1>13, <1>14,
     <1>15, <1>16, <1>17, <1>18, <1>19, <1>20, <1>21, <1>22, <1>23, <1>24, <1>25, <1>26, <1>27,
     <1>28, <1>29, <1>30 DEF CallStep, PlanStep, WriteStep

\* The invariants behind what a plan leaves.
LeftInv ==
    \A j \in Job : (Planned(j) => Honoured(j)) /\ Cleared(j) /\ NoneEmpty(j)

\* They hold before any call.
LEMMA InitLeftInv == Init => LeftInv
<1> SUFFICES ASSUME Init, NEW j \in Job
             PROVE  (Planned(j) => Honoured(j)) /\ Cleared(j) /\ NoneEmpty(j)
  BY DEF LeftInv
<1>1. (\A l \in Location : ~LandedIn(j, l)) /\ Home(j) \in Location
  BY DEF Init, LandedIn, Home, Location
<1> QED  BY <1>1, ConstantsAssumption DEF Init, Honoured, Cleared, NoneEmpty, Undoing

\* A step keeps them.
LEMMA NextLeftInv == Inv /\ LeftInv /\ [Next]_vars => LeftInv'
<1> SUFFICES ASSUME Inv, LeftInv, [Next]_vars, NEW j \in Job
             PROVE  (Planned(j)' => Honoured(j)') /\ Cleared(j)' /\ NoneEmpty(j)'
  BY DEF LeftInv
<1>1. UNCHANGED setting /\ (CallStep(j) \/ Seen(j))
  BY StepSeen
<1>2. (Planned(j) => Honoured(j)) /\ Cleared(j) /\ NoneEmpty(j)
  BY DEF LeftInv
<1>3. Planned(j)' => Honoured(j)'
  BY <1>1, <1>2, PlanHonoured, SettingFixed
<1>4. CASE CallStep(j)
  BY <1>1, <1>2, <1>3, <1>4, CallCleared, CallNoneEmpty
<1>5. CASE Seen(j)
  BY <1>2, <1>3, <1>5, SeenCleared, SeenNoneEmpty
<1> QED  BY <1>1, <1>4, <1>5

\* A plan that was refused, gave way, failed for certain or was aborted has no file left,
\* no empty table anyone can see, and no template but that of a managed plan that lost
\* its name, where deletions work and no finalize request is still under way (_create.py
\* _Creator._commit_data, _undo and discard).
THEOREM NothingLeftHolds == Spec => [](NoOverlap => NothingLeft)
<1>1. Inv /\ LeftInv => NothingLeft
  <2> SUFFICES ASSUME Inv, LeftInv, Faults \cap {"delete", "late"} = {}, NEW j \in Job,
                      Planned(j), ~Keeps(j), pc[j] = "idle",
                      result[j] \in {"refused", "ignored", "failed", "aborted"}
               PROVE  /\ j \notin files
                      /\ j \in template => Managed /\ calls[j] > 0 /\ result[j] \in {"refused", "ignored"}
                      /\ \A l \in Location : zero[l] = j /\ Live(l) => commits[l] # <<>>
    BY DEF NothingLeft
  <2>1. Cleared(j) /\ NoneEmpty(j) /\ Places
    BY DEF LeftInv, Inv
  <2>2. \A l \in Location : zero[l] = j => l = Home(j)
    BY <2>1, HomeOnly
  <2> QED  BY <2>1, <2>2 DEF Cleared, NoneEmpty, GaveUp
<1>2. (NoOverlap => Inv) /\ (NoOverlap => LeftInv) /\ [Next]_vars => (NoOverlap => LeftInv)'
  <2>1. [Next]_vars => (NoOverlap' => NoOverlap)
    BY SettingKept DEF NoOverlap, Faults
  <2> QED  BY <2>1, NextLeftInv
<1> QED  BY <1>1, <1>2, AlwaysInv, InitLeftInv, PTL DEF Spec

-----------------------------------------------------------------------------
(* Where a call's files land. *)

\* The others leave a call's files where they are, in the tables they landed in.
LEMMA SeenFiles ==
    ASSUME Inv, NEW k \in Job, Seen(k), Files(k) PROVE Files(k)'
BY SeenHasLanded, SettingFixed DEF Files, Seen, OwnStays

\* A call's files are in storage until no commit can take them any more.
LEMMA CallFiles ==
    ASSUME Inv, UNCHANGED setting, NEW j \in Job, CallStep(j), Files(j)
    PROVE  Files(j)'
<1>a. SafeCall(j) /\ TypeOK /\ Fixed
  BY DEF Inv, SafeCalls
<1>b. Control(j) /\ Told(j)
  BY <1>a DEF SafeCall
<1>0. pc \in [Job -> Pcs] /\ result \in [Job -> Results]
  BY <1>a DEF TypeOK, Pcs, Results
<1> USE <1>0, SettingFixed DEF Goto, Ending, Finish
<1>c. CASE Planned(j)
  <2> SUFFICES /\ pc'[j] \in Committing \/ (pc'[j] = "idle" /\ result'[j] \notin GaveUp) => j \in files'
               /\ pc'[j] = "idle" /\ result'[j] = "failed" /\ Keeps(j) => j \in files'
               /\ pc'[j] \in Undoing /\ result'[j] = "failed" => ~Keeps(j)
    BY <1>c DEF Files
  <2>f. /\ pc[j] \in Committing \/ (pc[j] = "idle" /\ result[j] \notin GaveUp) => j \in files
        /\ pc[j] = "idle" /\ result[j] = "failed" /\ Keeps(j) => j \in files
        /\ pc[j] \in Undoing /\ result[j] = "failed" => ~Keeps(j)
    BY <1>c DEF Files
  <2>1. CASE PlanWrite(j)
    BY <1>b, <1>c, <2>f, WhichCall, <2>1 DEF PlanWrite, SaveMode, Control, Unwritten, Committing,
       Undoing, GaveUp
  <2>2. CASE PlanRefused(j)
    BY <1>b, <1>c, <2>f, WhichCall, <2>2 DEF PlanRefused, Control, Unwritten, Committing, Undoing, GaveUp
  <2>3. CASE WriteFiles(j)
    BY <1>b, <1>c, <2>f, WhichCall, <2>3 DEF WriteFiles, Control, Unwritten, Committing, Undoing, GaveUp
  <2>4. CASE CommitCall(j)
    BY <1>b, <1>c, <2>f, WhichCall, <2>4 DEF CommitCall, MayCall, Control, Unwritten, Committing,
       Undoing, GaveUp
  <2>5. CASE Publish(j)
    BY <1>b, <1>c, <2>f, WhichCall, <2>5 DEF Publish, Control, Unwritten, Committing, Undoing, GaveUp
  <2>6. CASE Open(j)
    BY <1>b, <1>c, <2>f, <2>6 DEF Open, Retarget, Committing, Undoing, GaveUp
  <2>7. CASE Finalize(j)
    BY <1>b, <1>c, <2>f, WhichCall, <2>7 DEF Finalize, Control, Unwritten, Committing, Undoing, GaveUp
  <2>8. CASE FinalizeLate(j)
    <3>1. pc' = pc /\ result' = result /\ files' = files
      BY <2>8 DEF FinalizeLate, caller
    <3> QED  BY <2>f, <3>1
  <2>9. CASE RegisteredAnyway(j)
    BY <1>b, <1>c, <2>f, WhichCall, <2>9 DEF RegisteredAnyway, Control, Unwritten, Committing, Undoing, GaveUp
  <2>10. CASE CertainlyAbsent(j)
    BY <1>b, <1>c, <2>f, WhichCall, <2>10 DEF CertainlyAbsent, Control, Unwritten, Committing, Undoing, GaveUp
  <2>11. CASE Resolve(j)
    BY <1>b, <1>c, <2>f, WhichCall, <2>11 DEF Resolve, Retarget, Control, Unwritten, Committing,
       Undoing, GaveUp
  <2>12. CASE Attempt(j)
    BY <1>b, <1>c, <2>f, WhichCall, <2>12 DEF Attempt, Control, Unwritten, Committing, Undoing, GaveUp
  <2>13. CASE Put(j)
    BY <1>b, <1>c, <2>f, WhichCall, <2>13 DEF Put, Control, Unwritten, Committing, Undoing, GaveUp
  <2>14. CASE PutUnanswered(j)
    BY <1>b, <1>c, <2>f, WhichCall, <2>14 DEF PutUnanswered, UnknownOutcome, Control, Unwritten,
       Committing, Undoing, GaveUp
  <2>15. CASE Landed(j)
    BY <1>b, <1>c, <2>f, WhichCall, <2>15 DEF Landed, Control, Unwritten, Committing, Undoing, GaveUp
  <2>16. CASE Register(j)
    BY <1>b, <1>c, <2>f, WhichCall, <2>16 DEF Register, Control, Unwritten, Committing, Undoing, GaveUp
  <2>17. CASE CertainFailure(j)
    BY <1>b, <1>c, <2>f, WhichCall, <2>17 DEF CertainFailure, Control, Unwritten, Committing, Undoing, GaveUp
  <2>18. CASE UndoCheck(j)
    BY <1>b, <1>c, <2>f, WhichCall, <2>18 DEF UndoCheck, Control, Unwritten, Committing, Undoing, GaveUp
  <2>19. CASE UndoDrop(j)
    BY <1>b, <1>c, <2>f, WhichCall, <2>19 DEF UndoDrop, Control, Unwritten, Committing, Undoing, GaveUp
  <2>20. CASE Discard(j)
    BY <1>b, <1>c, <2>f, WhichCall, <2>20 DEF Discard, Control, Unwritten, Committing, Undoing, GaveUp
  <2>21. CASE AbortCall(j)
    BY <1>b, <1>c, <2>f, WhichCall, <2>21 DEF AbortCall, MayCall, Control, Unwritten, Committing,
       Undoing, GaveUp
  <2>22. CASE CheckExists(j)
    BY <1>b, <1>c, <2>f, WhichCall, <2>22 DEF CheckExists, SaveMode, Control, Unwritten, Committing,
       Undoing, GaveUp
  <2>23. CASE CreateLog(j)
    BY <1>b, <1>c, <2>f, WhichCall, <2>23 DEF CreateLog, Control, Unwritten, Committing, Undoing, GaveUp
  <2>24. CASE Enroll(j)
    BY <1>b, <1>c, <2>f, WhichCall, <2>24 DEF Enroll, Control, Unwritten, Committing, Undoing, GaveUp
  <2>25. CASE CreateRaised(j)
    BY <1>b, <1>c, <2>f, WhichCall, <2>25 DEF CreateRaised, Control, Unwritten, Committing, Undoing, GaveUp
  <2>26. CASE Created(j)
    BY <1>b, <1>c, <2>f, WhichCall, <2>26 DEF Created, Control, Unwritten, Committing, Undoing, GaveUp
  <2>27. CASE WriteExisting(j)
    BY <1>b, <1>c, <2>f, WhichCall, <2>27 DEF WriteExisting, Control, Unwritten, Committing, Undoing, GaveUp
  <2>28. CASE AppendData(j)
    BY <1>b, <1>c, <2>f, WhichCall, <2>28 DEF AppendData, Control, Unwritten, Committing, Undoing, GaveUp
  <2>29. CASE CleanupCheck(j)
    BY <1>b, <1>c, <2>f, WhichCall, <2>29 DEF CleanupCheck, Control, Unwritten, Committing, Undoing, GaveUp
  <2>30. CASE RemoveLog(j)
    BY <1>b, <1>c, <2>f, WhichCall, <2>30 DEF RemoveLog, Control, Unwritten, Committing, Undoing, GaveUp
  <2> QED  BY <2>1, <2>2, <2>3, <2>4, <2>5, <2>6, <2>7, <2>8, <2>9, <2>10, <2>11, <2>12, <2>13,
       <2>14, <2>15, <2>16, <2>17, <2>18, <2>19, <2>20, <2>21, <2>22, <2>23, <2>24, <2>25, <2>26,
       <2>27, <2>28, <2>29, <2>30 DEF CallStep, PlanStep, WriteStep
<1>d. CASE ~Planned(j)
  <2>1. TablesStep(j) /\ (commits' = commits => (HasLanded(j)' <=> HasLanded(j)))
    BY <1>a, CallTables, OwnHasLanded
  <2>2. CASE AppendData(j)
    <3>1. (commits' = commits /\ files' = files) \/ j \in files'
      BY <2>2 DEF AppendData, tables
    <3> QED  BY <1>d, <2>1, <3>1 DEF Files
  <2>3. CASE ~AppendData(j)
    <3>0. ~FinalizeLate(j)
      BY <1>a, <1>d DEF SafeCall, Creation, FinalizeLate
    <3>1. files' = files /\ pc[j] # "append"
      BY <1>b, <1>d, <2>3, <3>0 DEF CallStep, WriteStep, PlanStep, Control, Planned, CheckExists, CreateLog,
         Enroll, CreateRaised, Created, WriteExisting, CleanupCheck, RemoveLog, PlanWrite, PlanRefused,
         WriteFiles, CommitCall, MayCall, Publish, Open, Finalize, RegisteredAnyway,
         CertainlyAbsent, Resolve, Attempt, Put, PutUnanswered, Landed, Register, CertainFailure,
         UndoCheck, UndoDrop, Discard, AbortCall
    <3>2. HasLanded(j)' <=> HasLanded(j)
      <4>1. ~AddsCommit(j)
        BY <1>b, <1>d, <3>1, WhichCall DEF AddsCommit, Committing
      <4> QED  BY <2>1, <4>1 DEF TablesStep, MakesTable, RemovesTable
    <3> QED  BY <1>d, <3>1, <3>2 DEF Files
  <2> QED  BY <2>2, <2>3
<1> QED  BY <1>c, <1>d

\* The others leave the table write_table is about to append to as suitable.
LEMMA SeenSuits ==
    ASSUME Inv, NEW k \in Job, Seen(k), Suits(k) PROVE Suits(k)'
<1>1. setting' = setting /\ OwnStays(k) /\ ZeroSeen(k) /\ target[k] \in Location
  BY DEF Seen, Inv, TypeOK
<1>2. zero[target[k]] = Other => zero'[target[k]] = Other
  BY <1>1, ConstantsAssumption DEF ZeroSeen
<1> QED  BY <1>1, <1>2, SettingFixed DEF Suits, OwnStays

\* write_table appends to the table it created, or to one whose layout it compared.
LEMMA CallSuits ==
    ASSUME Inv, UNCHANGED setting, NEW j \in Job, CallStep(j), Suits(j)
    PROVE  Suits(j)'
<1>a. SafeCall(j) /\ TypeOK /\ Fixed
  BY DEF Inv, SafeCalls
<1>b. Control(j)
  BY <1>a DEF SafeCall
<1>0. pc \in [Job -> Pcs] /\ result \in [Job -> Results]
  BY <1>a DEF TypeOK, Pcs, Results
<1> USE <1>0, SettingFixed DEF Goto, Ending, Finish
<1>1. CASE Created(j)
  <2>1. identity'[j] = j
    BY <1>1, <1>a DEF Created, TypeOK
  <2> QED  BY <2>1 DEF Suits
<1>2. CASE WriteExisting(j)
  <2> SUFFICES ASSUME pc'[j] = "append" PROVE Suits(j)'
    BY DEF Suits
  <2>1. PICK l \in {IF Catalogued THEN name ELSE Shared} :
           /\ l # None /\ Live(l) /\ Fits(j, l)
           /\ target' = [target EXCEPT ![j] = l] /\ identity' = [identity EXCEPT ![j] = zero[l]]
    BY <1>2, <1>b DEF WriteExisting
  <2>2. l \in Location /\ zero' = zero
    BY <1>2, <1>a, <2>1 DEF TypeOK, Location, WriteExisting, tables
  <2>3. target'[j] = l /\ identity'[j] = zero[l] /\ zero[l] \in Job \cup {Other}
    BY <1>a, <2>1, <2>2 DEF TypeOK, Live
  <2>4. Mode(j) \in {"append", "overwrite"}
    BY <1>2, <1>b, WhichCall DEF WriteExisting, Control
  <2> QED  BY <2>1, <2>2, <2>3, <2>4 DEF Suits, Fits
<1>3. CASE ~Created(j) /\ ~WriteExisting(j)
  <2>1. pc'[j] # "append" \/ (pc' = pc /\ target' = target /\ identity' = identity /\ zero' = zero)
    BY <1>3, <1>b DEF CallStep, PlanStep, WriteStep, caller, tables, Retarget, SaveMode, UnknownOutcome,
       PlanWrite, PlanRefused, WriteFiles, CommitCall, Publish, Open, Finalize, FinalizeLate,
       RegisteredAnyway, CertainlyAbsent, Resolve, Attempt, Put, PutUnanswered, Landed, Register,
       CertainFailure, UndoCheck, UndoDrop, Discard, AbortCall, CheckExists, CreateLog, Enroll,
       CreateRaised, AppendData, CleanupCheck, RemoveLog
  <2> QED  BY <2>1 DEF Suits
<1> QED  BY <1>1, <1>2, <1>3

\* write_table's files land in a table that suits them.
LEMMA WriteHonoured ==
    ASSUME Inv, NoLookalike, UNCHANGED setting, NEW j \in Job, ~Planned(j), CallStep(j), Suits(j),
           Honoured(j)
    PROVE  Honoured(j)'
<1>1. SafeCall(j) /\ TypeOK /\ Fixed
  BY DEF Inv, SafeCalls
<1> SUFFICES ASSUME AddsCommit(j), NEW l \in Location, l = target[j], zero[l] # j
             PROVE  /\ setting.layout[j] = setting.layout[zero[l]]
                    /\ Mode(j) = "append" \/ (Mode(j) = "overwrite" /\ ~Planned(j))
  BY OwnHonoured
<1>2. pc[j] = "append" /\ WritesTable(j)
  BY <1>1, WhichCall DEF AddsCommit, Committing, SafeCall, Control
<1>3. identity[j] # j
  BY <1>1, <1>2 DEF SafeCall, Creation
<1>4. /\ Mode(j) \in {"append", "overwrite"} /\ identity[j] \in Job \cup {Other}
      /\ setting.layout[j] = setting.layout[identity[j]]
      /\ identity[j] = Other => zero[l] = Other
  BY <1>2, <1>3 DEF Suits
<1>5. zero[l] \in Job \cup {Other}
  BY <1>1 DEF AddsCommit, TypeOK
<1>6. CASE identity[j] = Other
  BY <1>4, <1>6
<1>7. CASE identity[j] \in Job
  BY <1>1, <1>2, <1>3, <1>4, <1>5, <1>7 DEF NoLookalike, WritesTable, Fixed
<1> QED  BY <1>4, <1>6, <1>7

\* The invariants behind where files land.
AskedInv == \A j \in Job : Honoured(j) /\ Suits(j) /\ Files(j) /\ Withdrawn(j)

\* They hold before any call.
LEMMA InitAskedInv == Init => AskedInv
<1> SUFFICES ASSUME Init, NEW j \in Job PROVE Honoured(j) /\ Suits(j) /\ Files(j) /\ Withdrawn(j)
  BY DEF AskedInv
<1>1. \A l \in Location : ~LandedIn(j, l)
  BY DEF Init, LandedIn
<1> QED  BY <1>1 DEF Init, Honoured, Suits, Files, Withdrawn, HasLanded, Committing, Undoing, GaveUp

\* A step keeps them.
LEMMA NextAskedInv == Inv /\ LateOrDrop /\ NoLookalike /\ AskedInv /\ [Next]_vars => AskedInv'
<1> SUFFICES ASSUME Inv, LateOrDrop, NoLookalike, AskedInv, [Next]_vars, NEW j \in Job
             PROVE  Honoured(j)' /\ Suits(j)' /\ Files(j)' /\ Withdrawn(j)'
  BY DEF AskedInv
<1>1. UNCHANGED setting /\ (CallStep(j) \/ Seen(j))
  BY StepSeen
<1>2. Honoured(j) /\ Suits(j) /\ Files(j) /\ Withdrawn(j)
  BY DEF AskedInv
<1>3. CASE CallStep(j)
  <2>1. Honoured(j)'
    BY <1>1, <1>2, <1>3, PlanHonoured, WriteHonoured
  <2> QED  BY <1>1, <1>2, <1>3, <2>1, CallSuits, CallFiles, CallWithdrawn
<1>4. CASE Seen(j)
  BY <1>2, <1>4, SeenHonoured, SeenSuits, SeenFiles, SeenWithdrawn
<1> QED  BY <1>1, <1>3, <1>4

\* A call's files are in one commit at most.
LEMMA OneLanding ==
    ASSUME Inv, NEW j \in Job, NEW N
    PROVE  Cardinality({at \in Location \X N :
                          at[2] \in DOMAIN commits[at[1]] /\ commits[at[1]][at[2]] = j}) <= 1
<1> DEFINE Landings == {at \in Location \X N :
                          at[2] \in DOMAIN commits[at[1]] /\ commits[at[1]][at[2]] = j}
<1>1. LandsOnce(j) /\ LandsThere(j)
  BY DEF Inv, SafeCalls, SafeCall
<1>2. ASSUME NEW p \in Landings, NEW q \in Landings PROVE p = q
  <2>1. p[1] \in Location /\ q[1] \in Location /\ LandedIn(j, p[1]) /\ LandedIn(j, q[1])
    BY DEF LandedIn
  <2>2. p[1] = q[1]
    BY <1>1, <2>1 DEF LandsThere
  <2>3. p[2] = q[2]
    BY <1>1, <2>1, <2>2 DEF LandsOnce
  <2> QED  BY <2>2, <2>3
<1> HIDE DEF Landings
<1>3. Cardinality(Landings) <= 1
  <2>1. CASE Landings = {}
    BY <2>1, FS_EmptySet
  <2>2. CASE Landings # {}
    <3>1. PICK p \in Landings : TRUE
      BY <2>2
    <3>2. Landings = {p}
      BY <1>2, <3>1
    <3>3. Cardinality({p}) = 1
      BY FS_Singleton
    <3> QED  BY <3>2, <3>3
  <2> QED  BY <2>1, <2>2
<1> QED  BY <1>3 DEF Landings

\* A call's files are in storage wherever they are committed to a table that stands.
LEMMA LandedFilesStay ==
    ASSUME Inv, AskedInv, NEW j \in Job, NEW l \in Location, LandedIn(j, l), Stands(l)
    PROVE  j \in files
<1>1. HasLanded(j) /\ Control(j) /\ Told(j) /\ Files(j) /\ Withdrawn(j) /\ LandsThere(j)
  BY DEF HasLanded, Inv, SafeCalls, SafeCall, AskedInv
<1>2. CASE ~Planned(j)
  BY <1>1, <1>2 DEF Files
<1>3. CASE Planned(j)
  <2>1. Managed => name = j
    BY <1>1, <1>3 DEF LandsThere, Stands, Home
  <2>2. pc[j] \in Committing \/ (pc[j] = "idle" /\ result[j] \notin GaveUp)
    BY <1>1, <1>3, <2>1 DEF Control, Told, Withdrawn
  <2> QED  BY <1>1, <1>3, <2>2 DEF Files
<1> QED  BY <1>2, <1>3

\* A call's files are committed at most once, to one table, whatever the calls, retries,
\* lost answers and other writers do, they are still in storage there, and that table is
\* the call's own or one its save mode and layout allow (_create.py _Creator,
\* connection.py write_table and _write_existing).
THEOREM LandsAsAskedHolds ==
    Spec => [](NoOverlap /\ LateOrDrop /\ NoLookalike => LandsAsAsked)
<1> DEFINE Alone == NoOverlap /\ LateOrDrop /\ NoLookalike
<1>1. Inv /\ AskedInv => LandsAsAsked
  <2> SUFFICES ASSUME Inv, AskedInv PROVE LandsAsAsked
    OBVIOUS
  <2>1. FilesLandOnce
    <3> SUFFICES ASSUME NEW j \in Job
                 PROVE  LET landings == {at \in Location \X (1..(Cardinality(Job) + MaxOthers)) :
                                 at[2] \in DOMAIN commits[at[1]] /\ commits[at[1]][at[2]] = j}
                        IN Cardinality(landings) <= 1 /\ \A at \in landings : Stands(at[1]) => j \in files
      BY DEF FilesLandOnce
    <3> DEFINE landings == {at \in Location \X (1..(Cardinality(Job) + MaxOthers)) :
                              at[2] \in DOMAIN commits[at[1]] /\ commits[at[1]][at[2]] = j}
    <3>1. Cardinality(landings) <= 1
      BY OneLanding
    <3>2. ASSUME NEW at \in landings, Stands(at[1]) PROVE j \in files
      <4>1. at[1] \in Location /\ LandedIn(j, at[1])
        BY DEF LandedIn
      <4> QED  BY <3>2, <4>1, LandedFilesStay
    <3> QED  BY <3>1, <3>2
  <2>2. ModeHonoured
    BY DEF AskedInv, Honoured, ModeHonoured
  <2> QED  BY <2>1, <2>2 DEF LandsAsAsked, Inv
<1>2. (NoOverlap => Inv) /\ (Alone => AskedInv) /\ [Next]_vars => (Alone => AskedInv)'
  <2>1. [Next]_vars => (Alone' => Alone)
    BY SettingKept DEF NoOverlap, LateOrDrop, NoLookalike, Faults
  <2> QED  BY <2>1, NextAskedInv
<1> QED  BY <1>1, <1>2, AlwaysInv, InitAskedInv, PTL DEF Spec

=============================================================================
