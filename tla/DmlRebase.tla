------------------------------ MODULE DmlRebase ------------------------------
(***************************************************************************)
(* DELETE, UPDATE, MERGE, replaceWhere and OPTIMIZE on the kernel engine,  *)
(* racing each other, blind appends and metadata changes.                  *)
(*                                                                         *)
(* Each reads a snapshot, decides which rows it changes and commits on     *)
(* that snapshot (engine/kernel.py, kernel_merge.py, crates/native/src/    *)
(* dml.rs). A commit that loses the race is committed again as it is over  *)
(* the winners when Delta's conflict rules allow (_rebase_dv_commit), and  *)
(* otherwise surfaces the conflict; an OPTIMIZE plans again instead.       *)
(*                                                                         *)
(* A version is modelled by the files live in it: their rows, the rows     *)
(* their deletion vector hides and the file that vector is stored in. A    *)
(* row has a key (what predicates select by), the operation it came from   *)
(* and the operation that last wrote it.                                   *)
(***************************************************************************)
EXTENDS Integers, Sequences, FiniteSets

CONSTANTS
    Op,           \* the operations
    Jobs,         \* the assignments of jobs to operations a run starts from
    AnyKey,       \* the key of a job without a predicate
    Initial,      \* the files of the table before any of them
    None,         \* no deletion vector
    Modes,        \* how the table takes DML: "dv", "files" or "table"
    Levels,       \* its isolation levels: TRUE for Serializable
    Retries,      \* dml_commit_retries, compaction_commit_retries
    Faults        \* "applied": a commit takes effect and its answer is lost;
                  \* "tail": the winners cannot be read

RowKinds == {"delete", "update", "upsert", "replace"}
JobKinds == RowKinds \cup {"append", "optimize", "alter"}

ASSUME ConstantsAssumption ==
    /\ Modes \subseteq {"dv", "files", "table"}
    /\ Levels \subseteq BOOLEAN
    /\ Retries \in Nat
    /\ Faults \subseteq {"applied", "tail"}
    /\ \A j \in Jobs : DOMAIN j = Op /\ \A o \in Op : j[o].kind \in JobKinds

(***************************************************************************)
(* The table the operations find: files of different names, none of which *)
(* an operation could give to a file or vector of its own, each row with   *)
(* an origin and in one file.                                              *)
(***************************************************************************)
ASSUME TableAssumption ==
    /\ None \notin Op \X Nat
    /\ \A f \in Initial :
          /\ f = [name |-> f.name, rows |-> f.rows, dead |-> f.dead, vector |-> f.vector]
          /\ f.name \notin Op \X Nat /\ f.vector \notin Op \X Nat
          /\ \A r \in f.rows : /\ r = [key |-> r.key, from |-> r.from, by |-> r.by]
                              /\ r.from \notin Op /\ r.by \notin Op
    /\ \A f, g \in Initial : f.name = g.name => f = g
    /\ \A f, g \in Initial : \A r \in f.rows \ f.dead, s \in g.rows \ g.dead :
          r.from = s.from => f = g /\ r = s

VARIABLES
    job,      \* operation -> [kind, key, pinned]
    mode,     \* how this table takes DML
    serial,   \* delta.isolationLevel is Serializable
    log,      \* the commits; log[v] is version v
    vectors,  \* the deletion vector files in storage
    pc,
    read,     \* the version the rows were read at
    base,     \* the version the commit is built on
    matched,  \* the rows the operation found to change
    touched,  \* the names of the files they are in, or of the files to compact
    done,     \* OPTIMIZE: files it has compacted or written
    writes,   \* stagings so far: names new files
    tries,    \* lost races so far
    result

choice == <<job, mode, serial>>
plan == <<read, base, matched, touched>>
vars == <<job, mode, serial, log, vectors, pc, read, base, matched, touched, done, writes,
          tries, result>>

-----------------------------------------------------------------------------
(* The table *)

LastVersion == Len(log)

Live(v) == IF v = 0 THEN Initial ELSE log[v].live

Names(files) == {f.name : f \in files}

Named(files, names) == {f \in files : f.name \in names}

\* A scan applies the deletion vectors.
Visible(files) == UNION {f.rows \ f.dead : f \in files}

Matches(o, r) == job[o].key \in {AnyKey, r.key}

\* Data skipping: the files whose statistics do not exclude the predicate. They
\* cover deleted rows too.
Candidates(o, files) == {f \in files : \E r \in f.rows : Matches(o, r)}

Inserted(o) == [key |-> job[o].key, from |-> o, by |-> o]

\* The rows an operation writes for the rows it matched.
NewRows(o, rows) ==
    LET updated == {[r EXCEPT !.by = o] : r \in rows}
    IN CASE job[o].kind = "delete" -> {}
         [] job[o].kind = "update" -> updated
         [] job[o].kind = "upsert" -> IF rows = {} THEN {Inserted(o)} ELSE updated
         [] job[o].kind \in {"replace", "append"} -> {Inserted(o)}
         [] OTHER -> {}

NewFile(o, rows) ==
    IF rows = {} THEN {}
    ELSE {[name |-> <<o, writes[o]>>, rows |-> rows, dead |-> {}, vector |-> None]}

\* commit_dml on a table with deletion vectors: a touched file with a row left
\* is added again with a larger vector, one without is removed.
Vectored(o) ==
    {[f EXCEPT !.dead = @ \cup (f.rows \cap matched[o]), !.vector = <<o, writes[o]>>] :
        f \in {g \in Named(Live(base[o]), touched[o]) : ~(g.rows \subseteq g.dead \cup matched[o])}}

\* The rows of the touched files that a copy-on-write keeps.
Kept(o) == Visible(Named(Live(base[o]), touched[o])) \ matched[o]

\* What the commit adds: vectored files, and the file of new and kept rows.
Adds(o) ==
    CASE job[o].kind \in RowKinds /\ mode = "dv" ->
            Vectored(o) \cup NewFile(o, NewRows(o, matched[o]))
      [] job[o].kind = "optimize" -> NewFile(o, Visible(Named(Live(base[o]), touched[o])))
      [] OTHER -> NewFile(o, NewRows(o, matched[o]) \cup Kept(o))

UsesVector(o) == job[o].kind \in RowKinds /\ mode = "dv" /\ Vectored(o) # {}

Record(o) ==
    [by |-> o, read |-> read[o], changed |-> matched[o],
     live |-> {f \in Live(base[o]) : f.name \notin touched[o]} \cup Adds(o),
     added |-> IF job[o].kind = "optimize" THEN {} ELSE Names(Adds(o)),
     blind |-> job[o].kind = "append",
     alters |-> job[o].kind = "alter"]

-----------------------------------------------------------------------------
Init ==
    /\ job \in Jobs /\ mode \in Modes /\ serial \in Levels
    \* Builds that rewrite whole tables have neither MERGE nor OPTIMIZE.
    /\ mode = "table" => \A o \in Op : job[o].kind \notin {"upsert", "optimize"}
    /\ log = <<>> /\ vectors = {f.vector : f \in Initial} \ {None}
    /\ pc = [o \in Op |-> "read"]
    /\ read = [o \in Op |-> 0]
    /\ base = [o \in Op |-> 0]
    /\ matched = [o \in Op |-> {}]
    /\ touched = [o \in Op |-> {}]
    /\ done = [o \in Op |-> {}]
    /\ writes = [o \in Op |-> 0]
    /\ tries = [o \in Op |-> 0]
    /\ result = [o \in Op |-> "none"]

Goto(o, l) == pc' = [pc EXCEPT ![o] = l] /\ UNCHANGED result

Finish(o, r) ==
    /\ pc' = [pc EXCEPT ![o] = "done"]
    /\ result' = [result EXCEPT ![o] = r]

\* What version v gives operation o to do: the rows it changes, and the files
\* they are in (every file, for a rewrite of the whole table).
ReadAt(o, v) ==
    LET rows == {r \in Visible(Live(v)) : Matches(o, r)}
        hit  == {f \in Live(v) : (f.rows \ f.dead) \cap rows # {}}
    IN /\ read' = [read EXCEPT ![o] = v]
       /\ base' = [base EXCEPT ![o] = v]
       /\ matched' = [matched EXCEPT ![o] = rows]
       /\ touched' = [touched EXCEPT ![o] = Names(IF mode = "table" THEN Live(v) ELSE hit)]
       /\ IF rows = {} /\ job[o].kind \in {"delete", "update"}
          THEN Finish(o, "nothing") ELSE Goto(o, "stage")

\* _dv_dml, _rewrite and KernelMerger.execute up to the commit. A pinned handle
\* reads at its own version.
ReadRows(o) ==
    /\ pc[o] = "read" /\ job[o].kind \in RowKinds
    /\ \E v \in IF job[o].pinned /\ mode = "dv" THEN 0..LastVersion ELSE {LastVersion} : ReadAt(o, v)
    /\ UNCHANGED <<choice, log, vectors, done, writes, tries>>

\* An append or a metadata change reads no row.
ReadNothing(o) ==
    /\ pc[o] = "read" /\ job[o].kind \in {"append", "alter"}
    /\ read' = [read EXCEPT ![o] = LastVersion]
    /\ base' = [base EXCEPT ![o] = LastVersion]
    /\ Goto(o, "stage")
    /\ UNCHANGED <<choice, log, vectors, matched, touched, done, writes, tries>>

\* _plan_compaction: bins of several files, or of one whose vector hides rows,
\* among those this OPTIMIZE has not taken up yet.
Bins(o, v) ==
    {b \in SUBSET {f \in Live(v) : f.name \notin done[o]} :
        Cardinality(b) > 1 \/ (Cardinality(b) = 1 /\ \A f \in b : f.vector # None)}

\* compact's outer loop: one bin per step, until none is left; a table that a
\* concurrent metadata change made incompactible ends it.
PlanCompaction(o) ==
    /\ pc[o] = "read" /\ job[o].kind = "optimize"
    /\ IF Bins(o, LastVersion) = {}
       THEN Finish(o, "done") /\ UNCHANGED plan
       ELSE \/ \E b \in Bins(o, LastVersion) :
                 /\ read' = [read EXCEPT ![o] = LastVersion]
                 /\ base' = [base EXCEPT ![o] = LastVersion]
                 /\ touched' = [touched EXCEPT ![o] = Names(b)]
                 /\ UNCHANGED matched
                 /\ Goto(o, "stage")
            \/ /\ writes[o] > 0
               /\ \E v \in read[o]+1..LastVersion : log[v].alters
               /\ Finish(o, "conflict")
               /\ UNCHANGED plan
    /\ UNCHANGED <<choice, log, vectors, done, writes, tries>>

\* commit_dml uploads the new vectors and stages the new rows.
StageFiles(o) ==
    /\ pc[o] = "stage"
    /\ writes' = [writes EXCEPT ![o] = @ + 1]
    /\ vectors' = vectors \cup (IF UsesVector(o) THEN {<<o, writes'[o]>>} ELSE {})
    /\ Goto(o, "commit")
    /\ UNCHANGED <<choice, log, plan, done, tries>>

\* ... and commits them on the version it read. On any error the vectors are
\* deleted again, the one that hides a commit that landed included.
Commit(o) ==
    /\ pc[o] = "commit"
    /\ LastVersion = base[o]
    /\ log' = Append(log, Record(o))
    /\ \/ /\ IF job[o].kind = "optimize"
             THEN /\ done' = [done EXCEPT ![o] = @ \cup touched[o] \cup Names(Adds(o))]
                  /\ Goto(o, "read")
             ELSE Finish(o, "committed") /\ UNCHANGED done
          /\ UNCHANGED vectors
       \/ /\ "applied" \in Faults
          /\ Finish(o, "unknown")
          /\ vectors' = vectors \ {<<o, writes[o]>>}
          /\ UNCHANGED done
    /\ UNCHANGED <<choice, plan, writes, tries>>

\* A faulty variant (Bug...) is never used by the specification: each replaces
\* one definition in a run that shows which property would notice.

\* The vectors stay behind.
BugVectorsLeft(o) ==
    /\ pc[o] = "commit"
    /\ LastVersion > base[o]
    /\ tries' = [tries EXCEPT ![o] = @ + 1]
    /\ IF tries'[o] > Retries THEN Finish(o, "conflict") ELSE Goto(o, "rebase")
    /\ UNCHANGED <<choice, log, vectors, plan, done, writes>>

\* Another commit has the version: the staged files are taken back.
Lose(o) ==
    /\ pc[o] = "commit"
    /\ LastVersion > base[o]
    /\ tries' = [tries EXCEPT ![o] = @ + 1]
    /\ vectors' = vectors \ {<<o, writes[o]>>}
    /\ IF tries'[o] > Retries THEN Finish(o, "conflict") ELSE Goto(o, "rebase")
    /\ UNCHANGED <<choice, log, plan, done, writes>>

-----------------------------------------------------------------------------
(* The conflict check *)

Winners(o) == base[o]+1..LastVersion

MetadataMoved(o) == \E v \in Winners(o) : log[v].alters

\* The files are looked up by name: a vector someone else wrote goes unnoticed.
BugVectorsIgnored(o) == touched[o] \subseteq Names(Live(LastVersion))

\* Every touched file is still live, with the vector it was read with.
TouchedAsRead(o) ==
    LET tagged(v) == {<<f.name, f.vector>> : f \in Named(Live(v), touched[o])}
    IN tagged(LastVersion) = tagged(base[o]) /\ Names(Named(Live(base[o]), touched[o])) = touched[o]

\* What the winners added is never looked at.
BugAddsIgnored(o) == FALSE

\* _added_what_was_read: a winner that was not a blind append added a file that
\* the read could have matched, or that is gone again and cannot be judged.
AddedWhatWasRead(o) ==
    LET added == (UNION {log[v].added : v \in {w \in Winners(o) : ~log[w].blind}})
                    \ Names(Live(base[o]))
    IN /\ added # {}
       /\ \/ job[o].key = AnyKey
          \/ added \cap Names(Candidates(o, Live(LastVersion))) # {}
          \/ ~(added \subseteq Names(Live(LastVersion)))

Survives(o) ==
    /\ ~MetadataMoved(o)
    /\ TouchedAsRead(o)
    /\ job[o].kind = "optimize" \/ (~serial /\ ~AddedWhatWasRead(o))

\* _rebase_dv_commit allows it: the same rows, or for a rewrite of the whole
\* table the operation again, on the latest version.
Rebase(o) ==
    /\ pc[o] = "rebase"
    /\ job[o].kind \in RowKinds \cup {"optimize"} /\ Survives(o)
    /\ IF mode = "table" /\ job[o].kind \in RowKinds
       THEN ReadAt(o, LastVersion)
       ELSE /\ base' = [base EXCEPT ![o] = LastVersion]
            /\ Goto(o, "stage")
            /\ UNCHANGED <<read, matched, touched>>
    /\ UNCHANGED <<choice, log, vectors, done, writes, tries>>

\* It refuses, or cannot tell: the conflict is the caller's, except that an
\* OPTIMIZE plans again from the table as it is now.
RefuseRebase(o) ==
    /\ pc[o] = "rebase"
    /\ job[o].kind \in RowKinds \cup {"optimize"}
    /\ ~Survives(o) \/ "tail" \in Faults
    /\ IF job[o].kind = "optimize" THEN Goto(o, "read")
       ELSE Finish(o, IF MetadataMoved(o) /\ ~serial THEN "metadata" ELSE "conflict")
    /\ UNCHANGED <<choice, log, vectors, plan, done, writes, tries>>

\* An append stages its rows again on the latest version; a metadata change is
\* the caller's to repeat.
Restage(o) ==
    /\ pc[o] = "rebase" /\ job[o].kind \in {"append", "alter"}
    /\ IF job[o].kind = "append" THEN Goto(o, "read") ELSE Finish(o, "conflict")
    /\ UNCHANGED <<choice, log, vectors, plan, done, writes, tries>>

Step(o) ==
    \/ ReadRows(o) \/ ReadNothing(o) \/ PlanCompaction(o) \/ StageFiles(o)
    \/ Commit(o) \/ Lose(o) \/ Rebase(o) \/ RefuseRebase(o) \/ Restage(o)

Terminated == (\A o \in Op : pc[o] = "done") /\ UNCHANGED vars

Next == (\E o \in Op : Step(o)) \/ Terminated

Spec == Init /\ [][Next]_vars

-----------------------------------------------------------------------------
(* Properties *)

Row == [key : {job[o].key : o \in Op} \cup {r.key : r \in Visible(Initial)},
        from : Op \cup {r.from : r \in Visible(Initial)},
        by : Op \cup {r.by : r \in Visible(Initial)}]

\* The variables keep their types; in particular no operation loses more races
\* than it is allowed.
TypeOK ==
    /\ pc \in [Op -> {"read", "stage", "commit", "rebase", "done"}]
    /\ read \in [Op -> 0..LastVersion] /\ base \in [Op -> 0..LastVersion]
    /\ \A o \in Op : matched[o] \subseteq Row
    /\ writes \in [Op -> Nat]
    /\ tries \in [Op -> 0..(Retries + 1)]
    /\ result \in [Op -> {"none", "nothing", "committed", "done", "conflict", "metadata", "unknown"}]

\* Each version holds exactly the rows of the version before it with its own
\* operation applied: no row is lost with a file someone else rewrote, none
\* comes back, and OPTIMIZE changes none.
EffectExact ==
    \A v \in 1..LastVersion :
        LET c == log[v] IN
        /\ c.changed \subseteq Visible(Live(v - 1))
        /\ Visible(Live(v)) = (Visible(Live(v - 1)) \ c.changed) \cup NewRows(c.by, c.changed)

\* No row is visible in two files: two compactions, or a compaction and an
\* update, never both keep a copy of it.
RowsOnce ==
    \A v \in 1..LastVersion : \A f, g \in Live(v) : \A r \in f.rows \ f.dead, s \in g.rows \ g.dead :
        r.from = s.from => f = g /\ r = s

\* Every version is the one before it with one operation applied, each row in one
\* file (dml.rs commit_dml, kernel.py _rebase).
VersionsExact == TypeOK /\ EffectExact /\ RowsOnce

\* WriteSerializable: the rows an operation changed are the ones it would have
\* matched had it run at its place in the log, but for rows that blind appends
\* added meanwhile; under Serializable there is no exception.
ReadsHold ==
    \A v \in 1..LastVersion :
        LET c    == log[v]
            late == {log[w].by : w \in {u \in c.read+1..v-1 : log[u].blind}}
        IN job[c.by].kind \in RowKinds =>
              {r \in Visible(Live(v - 1)) : Matches(c.by, r) /\ (serial \/ r.by \notin late)}
                 = c.changed

\* The vector n of an operation whose commit landed and whose caller was told of an
\* error: commit_dml deletes it on every error (dml.rs, the last match).
DeletedThoughLanded(n) == \E o \in Op : n = <<o, writes[o]>> /\ result[o] = "unknown"

\* Every deletion vector a version refers to is in storage, but for those of commits
\* that landed and lost their answer; and a vector no version refers to, those a lost
\* race leaves among them, is of a commit that is under way.
VectorsAccounted ==
    LET referred == {f.vector : f \in UNION {Live(v) : v \in 0..LastVersion}} \ {None}
    IN /\ \A n \in referred \ vectors : DeletedThoughLanded(n)
       /\ \A n \in vectors \ referred : \E o \in Op : pc[o] = "commit" /\ n = <<o, writes[o]>>

\* commit_dml takes its vectors "back out if the commit does not land" (dml.rs), so
\* every one that the table refers to is in storage.
VectorsExist ==
    \A f \in Live(LastVersion) : f.vector # None => f.vector \in vectors

=============================================================================
