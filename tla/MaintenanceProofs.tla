-------------------------- MODULE MaintenanceProofs --------------------------
(***************************************************************************)
(* Proofs that maintenance keeps the history (Maintenance.HistoryKept) and *)
(* that RESTORE and REPAIR are exact (Maintenance.FixExact), for any       *)
(* writers, files, retentions and durations, as long as no restore runs    *)
(* beside a VACUUM.                                                        *)
(***************************************************************************)
EXTENDS Maintenance, WellFoundedInduction, TLAPS

-----------------------------------------------------------------------------
(* Types *)

DataNames == Initial \cup (Writer \X Writes)
CdcNames == Writer \X {"change"}
Names == DataNames \cup CdcNames
Own(i) == {i} \X (Writes \cup {"change"})

Fixes == {"restore", "restore_present", "repair"}
Entries == [file : DataNames, vector : DataNames \cup {None}]
TombEntries == [file : DataNames, vector : DataNames \cup {None}, at : Int]
Versions == [by : Fixes \cup {"write", "vacuum"}, time : Int, live : SUBSET Entries,
             removes : SUBSET TombEntries, cdc : SUBSET CdcNames, target : Nat]
WriterState == [pc : {"idle", "commit", "done"}, base : Nat, began : Int,
                adds : SUBSET Entries, drops : SUBSET Entries, cdc : SUBSET CdcNames]
FixState == [pc : {"idle", "plan", "commit", "done"}, kind : Fixes \cup {"none"}, target : Nat,
             base : Nat, began : Int, adds : SUBSET Entries, drops : SUBSET Entries, tries : Nat]
VacuumState == [pc : {"idle", "plan", "start", "delete", "end", "done"}, lite : BOOLEAN,
                version : Nat, cutoff : Int, doomed : SUBSET Names]
LogKeys == [kind : {"checkpoint", "commit", "sidecar"}, version : Nat]
CleanerState == [pc : {"idle", "delete", "done"}, keys : SUBSET LogKeys, batch : SUBSET LogKeys,
                 failed : BOOLEAN]
SavingState == [pc : {"idle", "put"}, version : Nat, began : Int, sidecars : SUBSET Nat]
CheckpointState == [version : Nat, at : Int, sidecars : SUBSET Nat]

\* The types of what the history is read from, ...
LogTyped ==
    /\ now \in 0..MaxTime
    /\ log \in Seq(Versions) /\ Len(log) > 0
    /\ commits \subseteq 1..Len(log)
    /\ checkpoints \subseteq CheckpointState
    /\ DOMAIN sidecars \subseteq 1..Len(log)
    /\ \A s \in DOMAIN sidecars : sidecars[s] \in Int
    /\ cleaner \in [Cleaner -> CleanerState]
    /\ saving \in SavingState

\* ... and of the files and of those who write, fix and delete them.
FilesTyped ==
    /\ scene \in Scenes
    /\ DOMAIN stored \subseteq Names
    /\ \A f \in DOMAIN stored : stored[f] \in Int
    /\ lost \subseteq DataNames
    /\ writer \in [Writer -> WriterState]
    /\ fix \in FixState
    /\ vacuum \in VacuumState
    /\ vacuum.doomed \subseteq DOMAIN stored \cup lost
    /\ fix.tries <= Attempts
    /\ fix.pc \in {"idle", "plan", "commit"} => fix.tries < Attempts

-----------------------------------------------------------------------------
(* The inductive invariant *)

\* Versions are committed in the order of their times.
Ordered(l, n) ==
    /\ \A u, v \in 1..Len(l) : u <= v => l[u].time <= l[v].time
    /\ \A v \in 1..Len(l) : l[v].time <= n

\* No operation takes longer than OpTime.
Timely(p) == p.began <= now /\ now <= p.began + OpTime

InTime ==
    /\ \A i \in Writer : writer[i].pc = "commit" => Timely(writer[i])
    /\ fix.pc \in {"plan", "commit"} => Timely(fix)
    /\ vacuum.pc = "plan" => vacuum.cutoff + Retention <= now
    /\ \A c \in checkpoints : c.at <= now

\* What every reader of a retained version builds on: the first commit (0), or a
\* complete checkpoint no younger than the log retention; every commit since is
\* there, and no cleanup is about to delete any of it.
Base(b) ==
    /\ b \in 0..Len(log)
    /\ b > 0 => /\ \E c \in checkpoints : c.version = b /\ Complete(c)
                /\ log[b].time <= now - LogRetention
                /\ b \in commits
    /\ b+1..Len(log) \subseteq commits
    /\ \A c \in Cleaner : \A k \in cleaner[c].keys \cup cleaner[c].batch : k.version < b
    /\ \A s \in DOMAIN sidecars :
          \/ s < b
          \/ \E c \in checkpoints : c.version = s /\ s \in c.sidecars
          \/ saving.pc = "put" /\ s \in saving.sidecars /\ sidecars[s] = saving.began

\* Checkpoints and what is being saved are of versions that exist, one each.
Checkpoints ==
    /\ \A c \in checkpoints : c.version \in 1..Len(log) /\ c.sidecars \subseteq {c.version}
    /\ \A c, d \in checkpoints : c.version = d.version => c = d
    /\ saving.pc = "put" =>
          /\ saving.version \in 1..Len(log) /\ saving.sidecars \subseteq {saving.version}
          /\ \A c \in checkpoints : c.version # saving.version

HistorySafe ==
    /\ LogTyped /\ Ordered(log, now) /\ Checkpoints
    /\ \E b \in Nat : Base(b)
    /\ saving.pc = "put" => Timely(saving)

\* An entry that was live is live still, or a version since removed it.
Chain(l) ==
    \A u, v \in 1..Len(l) : u <= v =>
        \A e \in l[u].live :
            \/ e \in l[v].live
            \/ \E w \in u+1..v : \E t \in l[w].removes : t.file = e.file /\ t.vector = e.vector

\* The time of a remove is that of its operation, not long before the commit.
TombsTimely(l) == \A v \in 1..Len(l) : \A t \in l[v].removes : l[v].time <= t.at + OpTime

CdcTimely(l, files) ==
    \A v \in 1..Len(l) : \A f \in l[v].cdc \cap DOMAIN files : l[v].time <= files[f] + OpTime

\* A restore's target is a version.
Targets(l) ==
    \A v \in 1..Len(l) :
        l[v].by \in {"restore", "restore_present"} => l[v].target \in 1..Len(l)

\* The files version v of a log is about.
NamedBy(l, v) == FilesOf(l[v].live) \cup FilesOf(l[v].removes) \cup l[v].cdc

\* What a writer stores is new, and in no version before it committed.
NamesNew ==
    \A i \in Writer :
        /\ writer[i].pc # "done" => \A v \in 1..Len(log) : Own(i) \cap NamedBy(log, v) = {}
        /\ writer[i].pc = "idle" => Own(i) \cap (DOMAIN stored \cup lost) = {}

\* What a writer is about to commit.
WriterReady ==
    \A i \in Writer : LET w == writer[i] IN w.pc = "commit" =>
        /\ w.base \in 1..Len(log)
        /\ w.drops \subseteq log[w.base].live
        /\ FilesOf(w.adds) \subseteq FilesOf(log[w.base].live) \cup Own(i)
        /\ w.cdc \subseteq Own(i)
        /\ \A f \in Own(i) \cap DOMAIN stored : stored[f] = w.began

\* What a RESTORE or REPAIR is about to commit: exactly what was asked for.
FixReady ==
    /\ fix.pc \in {"plan", "commit"} =>
          /\ fix.kind \in Fixes
          /\ fix.kind = "repair" => fix.target = 0
          /\ fix.kind # "repair" => fix.target \in 1..Len(log)
    /\ fix.pc = "plan" => fix.adds = {} /\ fix.drops = {}
    /\ fix.pc = "commit" =>
          LET new == (log[fix.base].live \ fix.drops) \cup fix.adds IN
          /\ fix.base \in 1..Len(log)
          /\ fix.drops \subseteq log[fix.base].live
          /\ fix.kind = "repair" => fix.adds = {} /\ \A e \in fix.drops : e.file \in lost
          /\ fix.kind # "repair" => fix.adds \subseteq log[fix.target].live
          /\ fix.kind = "restore" => new = log[fix.target].live
          /\ fix.kind = "restore_present" => new \subseteq log[fix.target].live

\* A version whose files are kept, and one whose change data is.
Retained(v) == now - SupersededAt(v) <= Retention - OpTime
Recent(v) == now - log[v].time <= Retention - OpTime

\* What is kept is there, and so is what is about to be committed.
FilesThere ==
    /\ RetainedFiles
    /\ \A i \in Writer : writer[i].pc = "commit" =>
          /\ writer[i].base = Len(log) => FilesOf(writer[i].adds) \subseteq DOMAIN stored \cup lost
          /\ writer[i].cdc \subseteq DOMAIN stored
    /\ fix.pc = "commit" => FilesOf(fix.adds) \subseteq DOMAIN stored \cup lost

\* A VACUUM that is about to plan can tell what was written since it began: the
\* file is young, and no version it reads removes it.
Fresh(f) ==
    /\ f \in DOMAIN stored => stored[f] >= vacuum.cutoff
    /\ \A v \in 1..vacuum.version : f \notin FilesOf(log[v].removes)

PlanSafe ==
    vacuum.pc = "plan" =>
        /\ vacuum.version \in 1..Len(log)
        /\ \A v \in vacuum.version..Len(log) : \A f \in FilesOf(log[v].live) :
              f \in FilesOf(log[vacuum.version].live) \/ Fresh(f)
        /\ \A i \in Writer : writer[i].pc = "commit" => writer[i].began >= vacuum.cutoff

\* What a VACUUM is about to delete is neither kept nor about to be committed.
DoomedSafe ==
    /\ vacuum.doomed # {} => vacuum.pc \in {"start", "delete"}
    /\ \A v \in 1..Len(log) :
          /\ Retained(v) => vacuum.doomed \cap FilesOf(log[v].live) = {}
          /\ Recent(v) => vacuum.doomed \cap log[v].cdc = {}
    /\ \A i \in Writer : writer[i].pc = "commit" =>
          /\ writer[i].base = Len(log) => vacuum.doomed \cap FilesOf(writer[i].adds) = {}
          /\ vacuum.doomed \cap writer[i].cdc = {}

\* No restore or repair runs beside a VACUUM.
Apart == ~(InFlight(fix) /\ InFlight(vacuum))

FilesInv ==
    /\ Chain(log) /\ TombsTimely(log) /\ CdcTimely(log, stored) /\ Targets(log)
    /\ NamesNew /\ WriterReady /\ FixReady
    /\ FilesThere /\ PlanSafe /\ DoomedSafe /\ Apart

FilesSafe == FilesTyped /\ InTime /\ FilesInv /\ FixExact

Inv == HistorySafe /\ FilesSafe

-----------------------------------------------------------------------------
(* Operators *)

\* The constants are numbers, and no operation outlasts a retention.
LEMMA Numbers ==
    /\ Retention \in Nat /\ LogRetention \in Nat /\ OpTime \in Nat /\ MaxTime \in Nat
    /\ OpTime <= Retention /\ OpTime <= LogRetention
    /\ Attempts \in Nat /\ Attempts > 0
BY ConstantsAssumption

\* The newest of a bounded set of versions exists.
LEMMA NewestIs ==
    ASSUME NEW n \in Nat, NEW S \in SUBSET (0..n), S # {}
    PROVE  Newest(S) \in S /\ \A x \in S : x <= Newest(S)
<1> DEFINE T == {n - x : x \in S}
           R == OpToRel(<, Nat)
<1>1. \A x \in S : x \in Int /\ 0 <= x /\ x <= n
  OBVIOUS
<1>2. T \subseteq Nat /\ T # {}
  <2>1. \A x \in S : n - x \in Nat
    BY <1>1
  <2>2. T \subseteq Nat
    BY <2>1, Zenon
  <2>3. PICK x \in S : TRUE
    OBVIOUS
  <2>4. n - x \in T
    OBVIOUS
  <2> QED BY <2>2, <2>4
<1>3. PICK t \in T : \A y \in T : ~(<<y, t>> \in R)
  <2> HIDE DEF T, R
  <2>1. IsWellFoundedOn(R, Nat)
    BY NatLessThanWellFounded DEF R
  <2> QED BY <1>2, <2>1, WFMin
<1>4. \A y \in T : ~(y < t)
  BY <1>2, <1>3 DEF OpToRel
<1>5. PICK m \in S : t = n - m
  OBVIOUS
<1>6. ASSUME NEW x \in S PROVE x <= m
  <2>1. n - x \in T
    OBVIOUS
  <2> HIDE DEF T
  <2> QED BY <1>1, <1>4, <1>5, <2>1
<1> QED BY <1>6 DEF Newest

\* Storage without some files, ...
LEMMA WithoutIs ==
    ASSUME NEW files, NEW fs
    PROVE  /\ DOMAIN Without(files, fs) = DOMAIN files \ fs
           /\ \A f \in DOMAIN files \ fs : Without(files, fs)[f] = files[f]
BY DEF Without

\* ... and with some more.
LEMMA WithIs ==
    ASSUME NEW files, NEW fs, NEW t
    PROVE  /\ DOMAIN With(files, fs, t) = fs \cup DOMAIN files
           /\ \A f \in fs : With(files, fs, t)[f] = t
           /\ \A f \in DOMAIN files \ fs : With(files, fs, t)[f] = files[f]
BY DEF With

\* The parts of a version.
LEMMA VersionTypes ==
    ASSUME NEW l \in Seq(Versions), NEW v \in 1..Len(l)
    PROVE  /\ l[v] \in Versions
           /\ l[v].time \in Int /\ l[v].live \subseteq Entries
           /\ l[v].removes \subseteq TombEntries /\ l[v].cdc \subseteq CdcNames
<1>1. l[v] \in Versions
  OBVIOUS
<1> QED BY <1>1 DEF Versions

\* One version more.
Extended(l, e, m) ==
    /\ Len(m) = Len(l) + 1
    /\ m[Len(l) + 1] = e
    /\ \A v \in 1..Len(l) : m[v] = l[v]

\* A commit extends the log by one version.
LEMMA AppendExtends ==
    ASSUME NEW l \in Seq(Versions), NEW e \in Versions
    PROVE  Append(l, e) \in Seq(Versions) /\ Extended(l, e, Append(l, e))
BY DEF Extended

-----------------------------------------------------------------------------
(* The history *)

\* A version is committed, now.
Commits(e) ==
    /\ e \in Versions /\ e.time = now
    /\ log' = Append(log, e)
    /\ commits' = commits \cup {Len(log) + 1}
    /\ now' = now

logOps == <<log, commits, checkpoints, sidecars, cleaner, saving>>

\* Time passes: what was old enough stays so.
LEMMA TimePasses ==
    ASSUME HistorySafe, UNCHANGED logOps, now' \in 0..MaxTime, now <= now',
           saving.pc = "put" => Timely(saving)'
    PROVE  HistorySafe'
<1> USE DEF HistorySafe, logOps
<1>0. now \in Int /\ now' \in Int /\ log \in Seq(Versions) /\ Len(log) \in Nat
  BY Numbers DEF LogTyped
<1>1. LogTyped'
  BY DEF LogTyped
<1>2. Ordered(log', now')
  <2>1. \A v \in 1..Len(log) : log[v].time \in Int
    BY <1>0, VersionTypes
  <2> QED BY <1>0, <2>1 DEF Ordered
<1>3. Checkpoints'
  BY DEF Checkpoints
<1>4. PICK b \in Nat : Base(b)
  OBVIOUS
<1>5. Base(b)'
  <2>1. b > 0 => log[b].time \in Int /\ log[b].time <= now - LogRetention
    BY <1>0, <1>4, VersionTypes DEF Base
  <2>2. b > 0 => log[b].time <= now' - LogRetention
    BY <1>0, <2>1, Numbers
  <2> QED BY <1>0, <1>4, <2>2 DEF Base, Complete
<1> QED BY <1>1, <1>2, <1>3, <1>5

\* A commit keeps the history.
LEMMA CommitsKeepHistory ==
    ASSUME HistorySafe, NEW e, Commits(e), UNCHANGED <<checkpoints, sidecars, cleaner, saving>>
    PROVE  HistorySafe'
<1> USE DEF HistorySafe
<1> DEFINE n == Len(log)
<1>0. /\ now \in Int /\ now' = now /\ log \in Seq(Versions) /\ n \in Nat /\ n > 0
      /\ log' \in Seq(Versions) /\ Extended(log, e, log') /\ commits' = commits \cup {n + 1}
      /\ e \in Versions /\ e.time = now
  BY Numbers, AppendExtends DEF LogTyped, Commits
<1>1. Len(log') = n + 1 /\ log'[n + 1] = e /\ \A v \in 1..n : log'[v] = log[v]
  BY <1>0 DEF Extended
<1>2. commits \subseteq 1..n /\ DOMAIN sidecars \subseteq 1..n
  BY DEF LogTyped
<1> HIDE DEF n
<1>3. LogTyped'
  <2>1. commits' \subseteq 1..(n + 1) /\ DOMAIN sidecars \subseteq 1..(n + 1)
    BY <1>0, <1>2
  <2> QED BY <1>0, <1>1, <2>1 DEF LogTyped
<1>4. Ordered(log', now')
  <2>1. \A v \in 1..n : log[v].time <= now /\ log[v].time \in Int
    BY <1>0, VersionTypes DEF Ordered, n
  <2>2. ASSUME NEW u \in 1..(n + 1), NEW v \in 1..(n + 1), u <= v
        PROVE  log'[u].time <= log'[v].time
    <3>1. CASE v \in 1..n
      <4>1. u \in 1..n
        BY <1>0, <2>2, <3>1
      <4> QED BY <1>1, <2>2, <3>1, <4>1 DEF Ordered, n
    <3>2. CASE v = n + 1
      <4>1. CASE u \in 1..n
        BY <1>0, <1>1, <2>1, <3>2, <4>1
      <4>2. CASE u = n + 1
        BY <1>0, <1>1, <3>2, <4>2
      <4> QED BY <1>0, <4>1, <4>2
    <3> QED BY <1>0, <3>1, <3>2
  <2>3. ASSUME NEW v \in 1..(n + 1) PROVE log'[v].time <= now'
    <3>1. CASE v \in 1..n
      BY <1>0, <1>1, <2>1, <3>1
    <3>2. CASE v = n + 1
      BY <1>0, <1>1, <3>2
    <3> QED BY <1>0, <3>1, <3>2
  <2> QED BY <1>1, <2>2, <2>3 DEF Ordered
<1>5. Checkpoints'
  <2>1. \A v \in 1..n : v \in 1..(n + 1)
    BY <1>0
  <2> QED BY <1>1, <2>1 DEF Checkpoints, n
<1>6. PICK b \in Nat : Base(b)
  OBVIOUS
<1>7. Base(b)'
  <2>1. b \in 0..(n + 1) /\ (b + 1)..(n + 1) \subseteq commits'
    BY <1>0, <1>6 DEF Base, n
  <2>2. b > 0 => log'[b] = log[b]
    BY <1>0, <1>1, <1>6 DEF Base, n
  <2> QED BY <1>0, <1>1, <1>6, <2>1, <2>2 DEF Base, Complete
<1>8. saving'.pc = "put" => Timely(saving)'
  BY <1>0 DEF Timely
<1> QED BY <1>3, <1>4, <1>5, <1>7, <1>8

\* The sidecars of a checkpoint are written, and belong to the one being saved.
LEMMA BeginCheckpointKept == ASSUME HistorySafe, BeginCheckpoint PROVE HistorySafe'
<1> USE DEF HistorySafe
<1>1. PICK v \in 1..LastVersion, v2 \in {FALSE, "v2" \in scene.parts} :
          /\ \A c \in checkpoints : c.version # v
          /\ saving' = [pc |-> "put", version |-> v, began |-> now,
                        sidecars |-> IF v2 THEN {v} ELSE {}]
  BY DEF BeginCheckpoint
<1> DEFINE S == saving'.sidecars
<1>2. /\ saving'.pc = "put" /\ saving'.version = v /\ saving'.began = now
      /\ S \subseteq {v}
  BY <1>1
<1>3. /\ now \in Int /\ log \in Seq(Versions) /\ Len(log) \in Nat /\ v \in 1..Len(log) /\ v \in Nat
      /\ saving.pc = "idle"
      /\ sidecars' = With(sidecars, S, now)
      /\ UNCHANGED <<now, log, commits, checkpoints, cleaner>>
  BY Numbers DEF LogTyped, BeginCheckpoint, LastVersion
<1>4. saving' \in SavingState
  <2>1. S \subseteq Nat
    BY <1>2, <1>3
  <2>2. (IF v2 THEN {v} ELSE {}) \in SUBSET Nat
    BY <1>3
  <2> QED BY <1>1, <1>3, <2>2 DEF SavingState
<1> HIDE DEF S
<1>5. /\ DOMAIN sidecars' = S \cup DOMAIN sidecars
      /\ \A s \in S : sidecars'[s] = now
      /\ \A s \in DOMAIN sidecars \ S : sidecars'[s] = sidecars[s]
  BY <1>3 DEF With
<1>6. LogTyped'
  BY <1>2, <1>3, <1>4, <1>5 DEF LogTyped
<1>7. Checkpoints'
  BY <1>1, <1>2, <1>3 DEF Checkpoints, S
<1>8. PICK b \in Nat : Base(b)
  OBVIOUS
<1>9. Base(b)'
  <2>1. \A c \in checkpoints : Complete(c) => Complete(c)'
    BY <1>5 DEF Complete
  <2>2. ASSUME NEW s \in DOMAIN sidecars'
        PROVE  \/ s < b
               \/ \E c \in checkpoints' : c.version = s /\ s \in c.sidecars
               \/ saving'.pc = "put" /\ s \in saving'.sidecars /\ sidecars'[s] = saving'.began
    <3>1. CASE s \in S
      BY <1>2, <1>5, <3>1 DEF S
    <3>2. CASE s \in DOMAIN sidecars
      BY <1>3, <1>8, <3>2 DEF Base
    <3> QED BY <1>5, <3>1, <3>2
  <2> QED BY <1>3, <1>8, <2>1, <2>2 DEF Base
<1>10. Timely(saving)'
  BY <1>2, <1>3, Numbers DEF Timely
<1> QED BY <1>3, <1>6, <1>7, <1>9, <1>10

\* The checkpoint is put: it names its sidecars.
LEMMA PutCheckpointKept == ASSUME HistorySafe, PutCheckpoint PROVE HistorySafe'
<1> USE DEF HistorySafe
<1> DEFINE d == [version |-> saving.version, at |-> now, sidecars |-> saving.sidecars]
<1>1. /\ saving.pc = "put" /\ saving \in SavingState /\ now \in Int
      /\ checkpoints' = checkpoints \cup {d}
      /\ saving' = IdleSaving
      /\ UNCHANGED <<now, log, commits, sidecars, cleaner>>
  BY Numbers DEF LogTyped, PutCheckpoint
<1>2. d \in CheckpointState /\ d.version = saving.version /\ d.sidecars = saving.sidecars
  BY <1>1 DEF SavingState, CheckpointState
<1> HIDE DEF d
<1>3. IdleSaving \in SavingState /\ IdleSaving.pc = "idle"
  BY DEF IdleSaving, SavingState
<1>4. LogTyped'
  BY <1>1, <1>2, <1>3 DEF LogTyped
<1>5. Checkpoints'
  BY <1>1, <1>2, <1>3 DEF Checkpoints
<1>6. PICK b \in Nat : Base(b)
  OBVIOUS
<1>7. Base(b)'
  <2>1. \A c \in checkpoints : Complete(c) => Complete(c)'
    BY <1>1 DEF Complete
  <2>2. ASSUME NEW s \in DOMAIN sidecars
        PROVE  s < b \/ \E c \in checkpoints' : c.version = s /\ s \in c.sidecars
    <3>1. s \in saving.sidecars => s = saving.version
      BY <1>1 DEF Checkpoints
    <3> QED BY <1>1, <1>2, <1>6, <3>1 DEF Base
  <2> QED BY <1>1, <1>6, <2>1, <2>2 DEF Base
<1> QED BY <1>1, <1>3, <1>4, <1>5, <1>7

\* A cleanup moves the base up to the checkpoint it keeps.
LEMMA PlanCleanupKept == ASSUME HistorySafe, NEW a \in Cleaner, PlanCleanup(a) PROVE HistorySafe'
<1> USE DEF HistorySafe
<1> DEFINE cutoff == now - LogRetention
           old == {c.version : c \in {d \in checkpoints :
                                         Complete(d) /\ d.version \in ExpiredAt(cutoff)}}
           kept == Kept(cutoff)
           keys == Doomed(kept, cutoff)
           x == [IdleCleaner EXCEPT !.pc = "delete", !.keys = keys]
<1>1. /\ now \in Int /\ cutoff \in Int /\ log \in Seq(Versions) /\ Len(log) \in Nat
      /\ cleaner \in [Cleaner -> CleanerState]
      /\ cleaner' = [cleaner EXCEPT ![a] = x]
      /\ UNCHANGED <<now, log, commits, checkpoints, sidecars, saving>>
  BY Numbers DEF LogTyped, PlanCleanup, logFiles
<1>2. PICK b \in Nat : Base(b)
  OBVIOUS
<1>3. old \subseteq 0..Len(log)
  BY <1>1 DEF ExpiredAt, LastVersion
<1>4. kept = (IF old = {} THEN 0 ELSE Newest(old))
  BY DEF Kept
<1>5. old # {} => kept \in old /\ \A v \in old : v <= kept
  <2> HIDE DEF old, kept
  <2> QED BY <1>1, <1>3, <1>4, NewestIs
<1>6. b > 0 => b \in old
  <2> SUFFICES ASSUME b > 0 PROVE b \in old
    OBVIOUS
  <2>1. PICK c \in checkpoints : c.version = b /\ Complete(c)
    BY <1>2 DEF Base
  <2>2. b \in ExpiredAt(cutoff)
    BY <1>1, <1>2 DEF Base, ExpiredAt, LastVersion
  <2> QED BY <2>1, <2>2
<1>7. kept \in 0..Len(log) /\ b <= kept
  <2> HIDE DEF old, kept
  <2> QED BY <1>1, <1>2, <1>3, <1>4, <1>5, <1>6
<1>8. kept > 0 => /\ \E c \in checkpoints : c.version = kept /\ Complete(c)
                  /\ log[kept].time <= now - LogRetention
                  /\ kept \in commits
  <2> SUFFICES ASSUME kept > 0
               PROVE  /\ \E c \in checkpoints : c.version = kept /\ Complete(c)
                      /\ log[kept].time <= now - LogRetention
                      /\ kept \in commits
    OBVIOUS
  <2>1. kept \in old
    BY <1>4, <1>5
  <2>2. (\E c \in checkpoints : c.version = kept /\ Complete(c)) /\ kept \in ExpiredAt(cutoff)
    <3> HIDE DEF kept
    <3> QED BY <2>1
  <2>3. kept = b \/ kept \in b+1..Len(log)
    <3> HIDE DEF kept
    <3> QED BY <1>1, <1>7
  <2> HIDE DEF kept, old
  <2> QED BY <1>2, <2>2, <2>3 DEF Base, ExpiredAt
<1> HIDE DEF kept
<1>9. keys \subseteq LogKeys /\ \A k \in keys : k.version < kept
  <2> SUFFICES ASSUME NEW k \in keys PROVE k \in LogKeys /\ k.version < kept
    OBVIOUS
  <2>1. CASE \E c \in checkpoints : c.version < kept /\ k = [kind |-> "checkpoint", version |-> c.version]
    BY <2>1 DEF LogTyped, CheckpointState, LogKeys
  <2>2. CASE \E v \in commits : v < kept /\ k = [kind |-> "commit", version |-> v]
    BY <1>1, <2>2 DEF LogTyped, LogKeys
  <2>3. CASE \E s \in DOMAIN sidecars :
                /\ k = [kind |-> "sidecar", version |-> s]
                /\ sidecars[s] < cutoff
                /\ \A c \in checkpoints : c.version >= kept => s \notin c.sidecars
    <3>1. PICK s \in DOMAIN sidecars :
                /\ k = [kind |-> "sidecar", version |-> s]
                /\ sidecars[s] < cutoff
                /\ \A c \in checkpoints : c.version >= kept => s \notin c.sidecars
      BY <2>3
    <3>2. s \in 1..Len(log) /\ sidecars[s] \in Int
      BY DEF LogTyped
    <3>3. CASE s < b
      BY <1>1, <1>7, <3>1, <3>2, <3>3 DEF LogKeys
    <3>4. CASE \E c \in checkpoints : c.version = s /\ s \in c.sidecars
      BY <1>1, <1>7, <3>1, <3>2, <3>4 DEF LogKeys
    <3>5. CASE saving.pc = "put" /\ s \in saving.sidecars /\ sidecars[s] = saving.began
      BY <1>1, <3>1, <3>2, <3>5, Numbers DEF Timely
    <3> QED BY <1>2, <3>3, <3>4, <3>5 DEF Base
  <2> QED BY <2>1, <2>2, <2>3 DEF Doomed
<1>10. x \in CleanerState /\ x.keys = keys /\ x.batch = {}
  <2>1. IdleCleaner \in CleanerState /\ IdleCleaner.batch = {}
    BY DEF IdleCleaner, CleanerState
  <2> HIDE DEF keys
  <2> QED BY <1>9, <2>1 DEF CleanerState
<1> HIDE DEF x, keys, cutoff
<1>11. cleaner'[a] = x /\ \A c \in Cleaner \ {a} : cleaner'[c] = cleaner[c]
  BY <1>1
<1>12. LogTyped'
  BY <1>1, <1>10 DEF LogTyped
<1>13. Checkpoints'
  BY <1>1 DEF Checkpoints
<1>14. PICK m \in Nat : m = kept
  BY <1>1, <1>7
<1>15. Base(m)'
  <2>1. m+1..Len(log) \subseteq commits
    BY <1>1, <1>2, <1>7, <1>14 DEF Base
  <2>2. ASSUME NEW c \in Cleaner, NEW k \in cleaner'[c].keys \cup cleaner'[c].batch
        PROVE  k.version < m
    <3>1. CASE c = a
      BY <1>9, <1>10, <1>11, <1>14, <2>2, <3>1
    <3>2. CASE c # a
      <4>1. k.version < b /\ k \in LogKeys
        BY <1>1, <1>2, <1>11, <2>2, <3>2 DEF Base, CleanerState
      <4> QED BY <1>1, <1>7, <1>14, <4>1 DEF LogKeys
    <3> QED BY <3>1, <3>2
  <2>3. \A s \in DOMAIN sidecars : s < b => s < m
    BY <1>1, <1>7, <1>14 DEF LogTyped
  <2> QED BY <1>1, <1>2, <1>7, <1>8, <1>14, <2>1, <2>2, <2>3 DEF Base, Complete
<1>16. saving'.pc = "put" => Timely(saving)'
  BY <1>1 DEF Timely
<1> QED BY <1>1, <1>12, <1>13, <1>15, <1>16

\* A cleanup takes its next batch, which was planned already.
LEMMA NextBatchKept == ASSUME HistorySafe, NEW a \in Cleaner, NextBatch(a) PROVE HistorySafe'
<1> USE DEF HistorySafe
<1> DEFINE p == cleaner[a]
           first == {k \in p.keys : Cardinality({j \in p.keys : Before(j, k)}) < Batch}
           done == [IdleCleaner EXCEPT !.pc = "done"]
           more == [p EXCEPT !.batch = first, !.keys = p.keys \ first]
<1>1. /\ now \in Int /\ Len(log) \in Nat
      /\ cleaner \in [Cleaner -> CleanerState] /\ p \in CleanerState
      /\ UNCHANGED <<now, log, commits, checkpoints, sidecars, saving>>
  BY Numbers DEF LogTyped, NextBatch, logFiles
<1>2. \E x \in {done, more} : cleaner' = [cleaner EXCEPT ![a] = x]
  BY DEF NextBatch
<1>3. done \in CleanerState /\ done.keys \cup done.batch = {}
  BY DEF IdleCleaner, CleanerState
<1>4. more \in CleanerState /\ more.keys \cup more.batch \subseteq p.keys
  <2>1. first \subseteq p.keys /\ p.keys \subseteq LogKeys
    BY <1>1 DEF CleanerState
  <2> HIDE DEF first
  <2>2. more.keys = p.keys \ first /\ more.batch = first
    BY <1>1 DEF CleanerState
  <2> QED BY <1>1, <2>1, <2>2 DEF CleanerState
<1> HIDE DEF more, done, first
<1>5. PICK x \in CleanerState : /\ cleaner' = [cleaner EXCEPT ![a] = x]
                                /\ x.keys \cup x.batch \subseteq p.keys
  BY <1>2, <1>3, <1>4
<1>6. LogTyped'
  BY <1>1, <1>5 DEF LogTyped
<1>7. Checkpoints' /\ (saving'.pc = "put" => Timely(saving)')
  BY <1>1 DEF Checkpoints, Timely
<1>8. PICK b \in Nat : Base(b)
  OBVIOUS
<1>9. Base(b)'
  <2>1. \A c \in Cleaner : cleaner'[c].keys \cup cleaner'[c].batch
                              \subseteq cleaner[c].keys \cup cleaner[c].batch
    BY <1>1, <1>5
  <2> QED BY <1>1, <1>8, <2>1 DEF Base, Complete
<1> QED BY <1>1, <1>6, <1>7, <1>9

\* Every file a cleanup deletes is below the base.
LEMMA DeleteLogFileKept ==
    ASSUME HistorySafe, NEW a \in Cleaner, DeleteLogFile(a) PROVE HistorySafe'
<1> USE DEF HistorySafe
<1> DEFINE p == cleaner[a]
<1>1. /\ now \in Int /\ Len(log) \in Nat
      /\ cleaner \in [Cleaner -> CleanerState] /\ p \in CleanerState
      /\ UNCHANGED <<now, log, saving>>
  BY Numbers DEF LogTyped, DeleteLogFile
<1>2. PICK k \in p.batch, ok \in BOOLEAN :
        /\ cleaner' = [cleaner EXCEPT ![a].batch = @ \ {k}, ![a].failed = @ \/ ~ok]
        /\ commits' = IF ok /\ k.kind = "commit" THEN commits \ {k.version} ELSE commits
        /\ checkpoints' = IF ok /\ k.kind = "checkpoint"
                          THEN {d \in checkpoints : d.version # k.version} ELSE checkpoints
        /\ sidecars' = IF ok /\ k.kind = "sidecar" THEN Without(sidecars, {k.version}) ELSE sidecars
  BY DEF DeleteLogFile
<1> DEFINE fails == p.failed \/ ~ok
           x == [p EXCEPT !.batch = p.batch \ {k}, !.failed = fails]
<1>3. cleaner' = [cleaner EXCEPT ![a] = x]
  BY <1>1, <1>2
<1>4. x \in CleanerState /\ x.keys = p.keys /\ x.batch \subseteq p.batch
  <2>1. fails \in BOOLEAN /\ p.batch \ {k} \subseteq LogKeys
    BY <1>1 DEF CleanerState
  <2> HIDE DEF fails
  <2>2. x.keys = p.keys /\ x.batch = p.batch \ {k}
    BY <1>1 DEF CleanerState
  <2>3. x \in CleanerState
    BY <1>1, <2>1 DEF CleanerState
  <2> QED BY <2>2, <2>3
<1> HIDE DEF x
<1>5. PICK b \in Nat : Base(b)
  OBVIOUS
<1>6. k.version < b /\ k.version \in Nat
  <2>1. k \in LogKeys
    BY <1>1, <1>2 DEF CleanerState
  <2> QED BY <1>2, <1>5, <2>1 DEF Base, LogKeys
<1>7. /\ commits' \subseteq commits /\ commits \ {k.version} \subseteq commits'
      /\ checkpoints' \subseteq checkpoints
      /\ \A c \in checkpoints : c.version # k.version => c \in checkpoints'
  BY <1>2
<1>8. /\ DOMAIN sidecars' \subseteq DOMAIN sidecars
      /\ \A s \in DOMAIN sidecars : s # k.version => s \in DOMAIN sidecars'
      /\ \A s \in DOMAIN sidecars' : sidecars'[s] = sidecars[s]
  <2>1. sidecars' = sidecars \/ sidecars' = Without(sidecars, {k.version})
    BY <1>2
  <2> QED BY <2>1 DEF Without
<1>9. LogTyped'
  <2>1. cleaner' \in [Cleaner -> CleanerState]
    BY <1>1, <1>3, <1>4
  <2> QED BY <1>1, <1>7, <1>8, <2>1 DEF LogTyped
<1>10. Checkpoints' /\ (saving'.pc = "put" => Timely(saving)')
  BY <1>1, <1>7 DEF Checkpoints, Timely
<1>11. Base(b)'
  <2>1. \A c \in Cleaner : cleaner'[c].keys \cup cleaner'[c].batch
                              \subseteq cleaner[c].keys \cup cleaner[c].batch
    BY <1>1, <1>3, <1>4
  <2>2. ASSUME b > 0 PROVE \E c \in checkpoints' : c.version = b /\ Complete(c)'
    <3>1. PICK c \in checkpoints : c.version = b /\ Complete(c)
      BY <1>5, <2>2 DEF Base
    <3>2. c \in checkpoints' /\ c.sidecars \subseteq {b}
      BY <1>6, <1>7, <3>1 DEF Checkpoints
    <3>3. Complete(c)'
      BY <1>6, <1>8, <3>1, <3>2 DEF Complete
    <3> QED BY <3>1, <3>2, <3>3
  <2>3. b > 0 => b \in commits'
    BY <1>5, <1>6, <1>7 DEF Base
  <2>4. b+1..Len(log) \subseteq commits'
    BY <1>1, <1>5, <1>6, <1>7 DEF Base
  <2>5. ASSUME NEW s \in DOMAIN sidecars'
        PROVE  \/ s < b
               \/ \E c \in checkpoints' : c.version = s /\ s \in c.sidecars
               \/ saving.pc = "put" /\ s \in saving.sidecars /\ sidecars'[s] = saving.began
    <3>1. s \in DOMAIN sidecars /\ sidecars'[s] = sidecars[s] /\ s \in Nat
      BY <1>1, <1>8 DEF LogTyped
    <3>2. ASSUME NEW c \in checkpoints, c.version = s, ~(s < b)
          PROVE  c \in checkpoints'
      BY <1>6, <1>7, <3>1, <3>2
    <3> QED BY <1>5, <3>1, <3>2 DEF Base
  <2> QED BY <1>1, <1>5, <2>1, <2>2, <2>3, <2>4, <2>5 DEF Base
<1> QED BY <1>1, <1>9, <1>10, <1>11

\* What HistoryKept says of the log.
LEMMA HistoryFollows ==
    ASSUME HistorySafe PROVE RetainedHistory /\ CommitPossible
<1> USE DEF HistorySafe
<1>0. now \in Int /\ log \in Seq(Versions) /\ Len(log) \in Nat /\ Len(log) > 0
  BY Numbers DEF LogTyped
<1>1. PICK b \in Nat : Base(b)
  OBVIOUS
<1>2. CommitPossible
  <2>1. Len(log) = b \/ Len(log) \in b+1..Len(log)
    BY <1>0, <1>1 DEF Base
  <2> QED BY <1>0, <1>1, <2>1 DEF Base, CommitPossible, LastVersion
<1>3. ASSUME NEW v \in 1..Len(log), v < Len(log) => log[v + 1].time > now - LogRetention
      PROVE  Readable(v)
  <2>1. b <= v
    <3> SUFFICES ASSUME v < b PROVE FALSE
      BY <1>0
    <3>1. b \in 1..Len(log) /\ v + 1 \in 1..Len(log) /\ v + 1 <= b /\ v < Len(log)
      BY <1>0, <1>1 DEF Base
    <3>2. log[v + 1].time <= log[b].time /\ log[b].time <= now - LogRetention
      BY <1>1, <3>1 DEF Base, Ordered
    <3>3. log[v + 1].time \in Int /\ log[b].time \in Int
      BY <1>0, <3>1, VersionTypes
    <3> QED BY <1>0, <1>3, <3>1, <3>2, <3>3, Numbers
  <2>2. b+1..v \subseteq commits
    BY <1>0, <1>1 DEF Base
  <2>3. CASE b = 0
    BY <2>2, <2>3 DEF Readable
  <2>4. CASE b > 0
    BY <1>1, <2>1, <2>2, <2>4 DEF Base, Readable
  <2> QED BY <2>3, <2>4
<1> QED BY <1>2, <1>3 DEF RetainedHistory, LastVersion

-----------------------------------------------------------------------------
(* Files of entries *)

\* The files of entries: their data files and deletion vectors, ...
LEMMA InFilesOf ==
    ASSUME NEW S, NEW f
    PROVE  f \in FilesOf(S) <=> \E e \in S : f = e.file \/ (f = e.vector /\ f # None)
BY DEF FilesOf

\* ... which are those of their parts, ...
LEMMA FilesOfParts ==
    ASSUME NEW S, NEW T
    PROVE  /\ FilesOf(S \cup T) = FilesOf(S) \cup FilesOf(T)
           /\ S \subseteq T => FilesOf(S) \subseteq FilesOf(T)
BY DEF FilesOf

\* ... are those of the removes of the entries, ...
LEMMA FilesOfTombs ==
    ASSUME NEW S, NEW at
    PROVE  FilesOf(Tombs(S, at)) = FilesOf(S)
<1>1. \A e \in S : LET t == [file |-> e.file, vector |-> e.vector, at |-> at]
                   IN t \in Tombs(S, at) /\ t.file = e.file /\ t.vector = e.vector
  BY DEF Tombs
<1>2. \A t \in Tombs(S, at) : \E e \in S : t.file = e.file /\ t.vector = e.vector
  BY DEF Tombs
<1>3. ASSUME NEW f PROVE f \in FilesOf(Tombs(S, at)) <=> f \in FilesOf(S)
  <2>1. ASSUME f \in FilesOf(Tombs(S, at)) PROVE f \in FilesOf(S)
    <3>1. PICK t \in Tombs(S, at) : f = t.file \/ (f = t.vector /\ f # None)
      BY <2>1, InFilesOf
    <3>2. PICK e \in S : t.file = e.file /\ t.vector = e.vector
      BY <1>2, <3>1
    <3> QED BY <3>1, <3>2, InFilesOf
  <2>2. ASSUME f \in FilesOf(S) PROVE f \in FilesOf(Tombs(S, at))
    <3>1. PICK e \in S : f = e.file \/ (f = e.vector /\ f # None)
      BY <2>2, InFilesOf
    <3>2. PICK t \in Tombs(S, at) : t.file = e.file /\ t.vector = e.vector
      BY <1>1
    <3> QED BY <3>1, <3>2, InFilesOf
  <2> QED BY <2>1, <2>2
<1> QED BY <1>3

\* ... and are data names.
LEMMA FilesOfTyped ==
    /\ \A S \in SUBSET Entries : FilesOf(S) \subseteq DataNames
    /\ \A S \in SUBSET TombEntries : FilesOf(S) \subseteq DataNames
BY DEF FilesOf, Entries, TombEntries

\* No data file has the name of a change data file or of another writer.
LEMMA NamesApart ==
    /\ DataNames \cap CdcNames = {}
    /\ \A i, j \in Writer : i # j => Own(i) \cap Own(j) = {}
    /\ \A i \in Writer : Own(i) \subseteq Names
<1>1. "change" \notin Writes
  BY DEF Writes
<1>2. DataNames \cap CdcNames = {}
  BY <1>1, NamesAssumption DEF DataNames, CdcNames
<1>3. \A i, j \in Writer : i # j => Own(i) \cap Own(j) = {}
  BY DEF Own
<1>4. \A i \in Writer : Own(i) \subseteq Names
  BY DEF Own, Names, DataNames, CdcNames
<1> QED BY <1>2, <1>3, <1>4

\* The removes of entries carry their time.
LEMMA TombsTyped ==
    ASSUME NEW S \in SUBSET Entries, NEW at \in Int
    PROVE  Tombs(S, at) \in SUBSET TombEntries /\ \A t \in Tombs(S, at) : t.at = at
BY DEF Tombs, Entries, TombEntries

-----------------------------------------------------------------------------
(* The files: a version is committed *)

\* What holds of a version's changes when it is committed: it drops what is live,
\* adds what is there and no VACUUM is after, and was begun in time.
Committable(D, A, C, at) ==
    /\ D \subseteq log[Len(log)].live /\ A \subseteq Entries /\ C \subseteq CdcNames
    /\ at \in Int /\ now <= at + OpTime
    /\ FilesOf(A) \subseteq DOMAIN stored \cup lost
    /\ C \subseteq DOMAIN stored /\ \A f \in C : now <= stored[f] + OpTime
    /\ vacuum.doomed \cap (FilesOf(A) \cup C) = {}
    /\ vacuum.pc = "plan" =>
          \A f \in FilesOf(A) : f \in FilesOf(log[vacuum.version].live) \/ Fresh(f)

\* What becomes of those beside the commit.
Beside(A, C) ==
    /\ \A j \in Writer : writer'[j].pc # "done" =>
          writer'[j] = writer[j] /\ Own(j) \cap (FilesOf(A) \cup C) = {}
    /\ fix' = fix \/ fix'.pc = "done"
    /\ \/ vacuum' = vacuum
       \/ /\ vacuum'.pc # "plan" /\ vacuum'.doomed \subseteq vacuum.doomed
          /\ vacuum'.doomed # {} => vacuum'.pc \in {"start", "delete"}
    /\ Apart'
    /\ UNCHANGED <<stored, lost>>

\* The version after the last: what it has and what it removes.
Adding(e, D, A, C, at) ==
    /\ e.live = (log[Len(log)].live \ D) \cup A
    /\ e.removes = Tombs(D, at)
    /\ e.cdc = C

\* A commit of what is committable keeps the invariant of the files.
LEMMA CommitFiles ==
    ASSUME LogTyped, FilesTyped, Ordered(log, now), FilesInv, NEW e, NEW D, NEW A, NEW C, NEW at,
           Commits(e), Adding(e, D, A, C, at), Committable(D, A, C, at), Beside(A, C),
           e.by \in {"restore", "restore_present"} => e.target \in 1..Len(log)
    PROVE  FilesInv'
<1> DEFINE n == Len(log)
<1> USE DEF FilesInv
<1>0. /\ now \in Int /\ now' = now /\ log \in Seq(Versions) /\ n \in Nat /\ n > 0
      /\ log' \in Seq(Versions) /\ Extended(log, e, log')
      /\ e \in Versions /\ e.time = now /\ stored' = stored /\ lost' = lost
      /\ n \in 1..n
  BY Numbers, AppendExtends DEF LogTyped, Commits, Beside
<1>1. Len(log') = n + 1 /\ log'[n + 1] = e /\ \A v \in 1..n : log'[v] = log[v]
  BY <1>0 DEF Extended
<1>2. \A v \in 1..(n + 1) : v \in 1..n \/ v = n + 1
  BY <1>0
<1>3. \A v \in 1..n : log[v].time \in Int /\ log[v].time <= now
  BY <1>0, VersionTypes DEF Ordered
<1>4. Tombs(D, at) \subseteq TombEntries /\ FilesOf(Tombs(D, at)) = FilesOf(D)
      /\ (\A t \in Tombs(D, at) : t.at = at) /\ D \subseteq Entries
  <2>1. log[n].live \subseteq Entries
    BY <1>0, VersionTypes
  <2> QED BY <2>1, TombsTyped, FilesOfTombs DEF Committable
<1>5. FilesOf(e.live) \subseteq FilesOf(log[n].live) \cup FilesOf(A)
      /\ FilesOf(D) \subseteq FilesOf(log[n].live)
  <2>1. FilesOf(e.live) = FilesOf(log[n].live \ D) \cup FilesOf(A)
    BY FilesOfParts DEF Adding
  <2>2. FilesOf(log[n].live \ D) \subseteq FilesOf(log[n].live)
    <3>1. log[n].live \ D \subseteq log[n].live
      OBVIOUS
    <3> QED BY <3>1, FilesOfParts
  <2>3. D \subseteq log[n].live
    BY DEF Committable
  <2> QED BY <2>1, <2>2, <2>3, FilesOfParts
<1> HIDE DEF n
<1>6. Chain(log')
  <2> SUFFICES ASSUME NEW u \in 1..(n + 1), NEW v \in 1..(n + 1), u <= v, NEW z \in log'[u].live
               PROVE  \/ z \in log'[v].live
                      \/ \E w \in u+1..v : \E t \in log'[w].removes :
                            t.file = z.file /\ t.vector = z.vector
    BY <1>1 DEF Chain
  <2>1. CASE v \in 1..n
    <3>1. u \in 1..n /\ u+1..v \subseteq 1..n
      BY <1>0, <2>1
    <3>2. log'[u] = log[u] /\ log'[v] = log[v] /\ \A w \in u+1..v : log'[w] = log[w]
      BY <1>1, <2>1, <3>1
    <3>3. Chain(log) /\ z \in log[u].live
      BY <3>2
    <3>4. \/ z \in log[v].live
          \/ \E w \in u+1..v : \E t \in log[w].removes : t.file = z.file /\ t.vector = z.vector
      BY <2>1, <3>1, <3>3 DEF Chain, n
    <3> QED BY <3>2, <3>4
  <2>2. CASE v = n + 1 /\ u = n + 1
    BY <2>2
  <2>3. CASE v = n + 1 /\ u \in 1..n
    <3>1. u <= n /\ log'[u] = log[u] /\ n \in 1..n
      BY <1>0, <1>1, <2>3
    <3>2. \/ z \in log[n].live
          \/ \E w \in u+1..n : \E t \in log[w].removes : t.file = z.file /\ t.vector = z.vector
      BY <2>3, <3>1 DEF Chain, n
    <3>3. CASE z \in log[n].live /\ z \notin D
      BY <1>1, <2>3, <3>3 DEF Adding, n
    <3>4. CASE z \in D
      <4>1. [file |-> z.file, vector |-> z.vector, at |-> at] \in Tombs(D, at)
        BY <3>4 DEF Tombs
      <4>2. PICK t \in log'[n + 1].removes : t.file = z.file /\ t.vector = z.vector
        BY <1>1, <4>1 DEF Adding
      <4>3. n + 1 \in u+1..v
        BY <1>0, <2>3, <3>1
      <4> QED BY <4>2, <4>3
    <3>5. CASE \E w \in u+1..n : \E t \in log[w].removes : t.file = z.file /\ t.vector = z.vector
      <4>1. \A w \in u+1..n : w \in u+1..v /\ w \in 1..n
        BY <1>0, <2>3
      <4> QED BY <1>1, <3>5, <4>1
    <3> QED BY <3>2, <3>3, <3>4, <3>5
  <2> QED BY <1>2, <2>1, <2>2, <2>3
<1>7. TombsTimely(log')
  <2> SUFFICES ASSUME NEW v \in 1..(n + 1), NEW t \in log'[v].removes
               PROVE  log'[v].time <= t.at + OpTime
    BY <1>1 DEF TombsTimely
  <2>1. CASE v \in 1..n
    BY <1>1, <2>1 DEF TombsTimely, n
  <2>2. CASE v = n + 1
    BY <1>0, <1>1, <1>4, <2>2 DEF Adding, Committable
  <2> QED BY <1>2, <2>1, <2>2
<1>8. CdcTimely(log', stored')
  <2> SUFFICES ASSUME NEW v \in 1..(n + 1), NEW f \in log'[v].cdc \cap DOMAIN stored
               PROVE  log'[v].time <= stored[f] + OpTime
    BY <1>0, <1>1 DEF CdcTimely
  <2>1. CASE v \in 1..n
    BY <1>1, <2>1 DEF CdcTimely, n
  <2>2. CASE v = n + 1
    BY <1>0, <1>1, <2>2 DEF Adding, Committable
  <2> QED BY <1>2, <2>1, <2>2
<1>9. Targets(log')
  <2> SUFFICES ASSUME NEW v \in 1..(n + 1), log'[v].by \in {"restore", "restore_present"}
               PROVE  log'[v].target \in 1..(n + 1)
    BY <1>1 DEF Targets
  <2>1. log'[v].target \in 1..n
    BY <1>1, <1>2 DEF Targets, n
  <2> QED BY <1>0, <2>1
<1>10. NamesNew'
  <2> SUFFICES ASSUME NEW i \in Writer
               PROVE  /\ writer'[i].pc # "done" =>
                            \A v \in 1..(n + 1) : Own(i) \cap NamedBy(log', v) = {}
                      /\ writer'[i].pc = "idle" => Own(i) \cap (DOMAIN stored \cup lost) = {}
    BY <1>0, <1>1 DEF NamesNew
  <2>1. writer'[i].pc # "done" => writer'[i] = writer[i] /\ Own(i) \cap (FilesOf(A) \cup C) = {}
    BY DEF Beside
  <2>2. ASSUME writer'[i].pc # "done", NEW v \in 1..(n + 1)
        PROVE  Own(i) \cap NamedBy(log', v) = {}
    <3>1. \A u \in 1..n : Own(i) \cap NamedBy(log, u) = {}
      BY <2>1, <2>2 DEF NamesNew, n
    <3>2. CASE v \in 1..n
      BY <1>1, <3>1, <3>2 DEF NamedBy
    <3>3. CASE v = n + 1
      <4>1. Own(i) \cap FilesOf(log[n].live) = {}
        BY <1>0, <3>1 DEF NamedBy
      <4>2. NamedBy(log', v) = FilesOf(e.live) \cup FilesOf(D) \cup C
        BY <1>1, <1>4, <3>3 DEF NamedBy, Adding
      <4> QED BY <1>5, <2>1, <2>2, <4>1, <4>2
    <3> QED BY <1>2, <3>2, <3>3
  <2> QED BY <2>1, <2>2 DEF NamesNew
<1>11. WriterReady'
  <2> SUFFICES ASSUME NEW i \in Writer, writer'[i].pc = "commit"
               PROVE  LET w == writer'[i] IN
                      /\ w.base \in 1..(n + 1)
                      /\ w.drops \subseteq log'[w.base].live
                      /\ FilesOf(w.adds) \subseteq FilesOf(log'[w.base].live) \cup Own(i)
                      /\ w.cdc \subseteq Own(i)
                      /\ \A f \in Own(i) \cap DOMAIN stored : stored[f] = w.began
    BY <1>0, <1>1 DEF WriterReady
  <2>1. writer'[i] = writer[i]
    BY DEF Beside
  <2>2. writer[i].base \in 1..n
    BY <2>1 DEF WriterReady, n
  <2>3. writer[i].base \in 1..(n + 1) /\ log'[writer[i].base] = log[writer[i].base]
    BY <1>0, <1>1, <2>2
  <2> QED BY <2>1, <2>3 DEF WriterReady
<1>12. FixReady'
  <2>1. CASE fix'.pc = "done"
    BY <2>1 DEF FixReady
  <2>2. CASE fix' = fix
    <3>1. \A v \in 1..n : v \in 1..(n + 1) /\ log'[v] = log[v]
      BY <1>0, <1>1
    <3>2. fix.pc = "commit" => fix.base \in 1..n
      BY DEF FixReady, n
    <3>3. fix.pc \in {"plan", "commit"} /\ fix.kind # "repair" => fix.target \in 1..n
      BY DEF FixReady, n
    <3>4. fix.pc = "commit" => log'[fix.base] = log[fix.base]
      BY <3>1, <3>2
    <3>5. fix.pc = "commit" /\ fix.kind # "repair" => log'[fix.target] = log[fix.target]
      BY <3>1, <3>3
    <3>6. FixReady
      OBVIOUS
    <3> QED BY <1>0, <1>1, <2>2, <3>1, <3>2, <3>3, <3>4, <3>5, <3>6 DEF FixReady
  <2> QED BY <2>1, <2>2 DEF Beside
<1>13. \A v \in 1..n : (Retained(v)' => Retained(v)) /\ (Recent(v)' => Recent(v))
  <2> SUFFICES ASSUME NEW v \in 1..n
               PROVE  (Retained(v)' => Retained(v)) /\ (Recent(v)' => Recent(v))
    OBVIOUS
  <2>1. CASE v = n
    BY <1>0, <1>1, <2>1, Numbers DEF Retained, Recent, SupersededAt, LastVersion, n
  <2>2. CASE v # n
    <3>1. v + 1 \in 1..n /\ v # n + 1
      BY <1>0, <2>2
    <3>2. log'[v + 1] = log[v + 1] /\ log'[v] = log[v]
      BY <1>1, <3>1
    <3> QED BY <1>0, <1>1, <2>2, <3>1, <3>2 DEF Retained, Recent, SupersededAt, LastVersion, n
  <2> QED BY <2>1, <2>2
<1>14. Retained(n)
  BY <1>0, Numbers DEF Retained, SupersededAt, LastVersion, n
<1>15. FilesThere'
  <2>1. RetainedFiles'
    <3> SUFFICES ASSUME NEW v \in 1..(n + 1)
                 PROVE  /\ Retained(v)' => FilesOf(log'[v].live) \subseteq DOMAIN stored \cup lost
                        /\ Recent(v)' => log'[v].cdc \subseteq DOMAIN stored
      BY <1>0, <1>1 DEF RetainedFiles, Retained, Recent, LastVersion, Live
    <3>1. CASE v \in 1..n
      BY <1>1, <1>13, <3>1 DEF FilesThere, RetainedFiles, Retained, Recent, LastVersion, Live, n
    <3>2. CASE v = n + 1
      <4>1. FilesOf(log[n].live) \subseteq DOMAIN stored \cup lost
        BY <1>0, <1>14 DEF FilesThere, RetainedFiles, Retained, LastVersion, Live, n
      <4> QED BY <1>1, <1>5, <3>2, <4>1 DEF Adding, Committable
    <3> QED BY <1>2, <3>1, <3>2
  <2>2. ASSUME NEW i \in Writer, writer'[i].pc = "commit"
        PROVE  writer'[i].base # n + 1 /\ writer'[i].cdc \subseteq DOMAIN stored
    <3>1. writer'[i] = writer[i]
      BY <2>2 DEF Beside
    <3> QED BY <1>0, <2>2, <3>1 DEF WriterReady, FilesThere, n
  <2>3. fix'.pc = "commit" => FilesOf(fix'.adds) \subseteq DOMAIN stored \cup lost
    BY DEF Beside, FilesThere
  <2> QED BY <1>0, <1>1, <2>1, <2>2, <2>3 DEF FilesThere
<1>16. PlanSafe'
  <2> SUFFICES ASSUME vacuum'.pc = "plan"
               PROVE  /\ vacuum'.version \in 1..(n + 1)
                      /\ \A v \in vacuum'.version..(n + 1) : \A f \in FilesOf(log'[v].live) :
                            f \in FilesOf(log'[vacuum'.version].live) \/ Fresh(f)'
                      /\ \A i \in Writer : writer'[i].pc = "commit" =>
                            writer'[i].began >= vacuum'.cutoff
    BY <1>1 DEF PlanSafe
  <2>1. vacuum' = vacuum /\ vacuum.version \in 1..n
    BY DEF Beside, PlanSafe, n
  <2>2. /\ vacuum.version \in 1..(n + 1) /\ log'[vacuum.version] = log[vacuum.version]
        /\ \A w \in 1..vacuum.version : log'[w] = log[w]
    BY <1>0, <1>1, <2>1
  <2>3. ASSUME NEW f, Fresh(f) PROVE Fresh(f)'
    BY <1>0, <2>1, <2>2, <2>3 DEF Fresh
  <2>4. ASSUME NEW v \in vacuum.version..(n + 1), NEW f \in FilesOf(log'[v].live)
        PROVE  f \in FilesOf(log[vacuum.version].live) \/ Fresh(f)
    <3>1. ASSUME NEW u \in vacuum.version..n, NEW g \in FilesOf(log[u].live)
          PROVE  g \in FilesOf(log[vacuum.version].live) \/ Fresh(g)
      BY <2>1, <3>1 DEF PlanSafe, n
    <3>2. CASE v # n + 1
      <4>1. v \in vacuum.version..n /\ log'[v] = log[v]
        BY <1>0, <1>1, <2>1, <3>2
      <4> QED BY <2>4, <3>1, <4>1
    <3>3. CASE v = n + 1
      <4>1. n \in vacuum.version..n
        BY <1>0, <2>1
      <4>2. f \in FilesOf(log[n].live) \/ f \in FilesOf(A)
        BY <1>1, <1>5, <2>4, <3>3
      <4> QED BY <2>1, <3>1, <4>1, <4>2 DEF Committable
    <3> QED BY <3>2, <3>3
  <2>5. \A i \in Writer : writer'[i].pc = "commit" => writer'[i].began >= vacuum.cutoff
    BY <2>1 DEF Beside, PlanSafe
  <2> QED BY <2>1, <2>2, <2>3, <2>4, <2>5
<1>17. DoomedSafe'
  <2>1. vacuum'.doomed \subseteq vacuum.doomed
        /\ (vacuum'.doomed # {} => vacuum'.pc \in {"start", "delete"})
    BY DEF Beside, DoomedSafe
  <2>2. ASSUME NEW v \in 1..(n + 1)
        PROVE  /\ Retained(v)' => vacuum'.doomed \cap FilesOf(log'[v].live) = {}
               /\ Recent(v)' => vacuum'.doomed \cap log'[v].cdc = {}
    <3>1. CASE v \in 1..n
      BY <1>1, <1>13, <2>1, <3>1 DEF DoomedSafe, n
    <3>2. CASE v = n + 1
      <4>1. vacuum.doomed \cap FilesOf(log[n].live) = {}
        BY <1>0, <1>14 DEF DoomedSafe, n
      <4> QED BY <1>1, <1>5, <2>1, <3>2, <4>1 DEF Adding, Committable
    <3> QED BY <1>2, <3>1, <3>2
  <2>3. ASSUME NEW i \in Writer, writer'[i].pc = "commit"
        PROVE  writer'[i].base # n + 1 /\ vacuum'.doomed \cap writer'[i].cdc = {}
    <3>1. writer'[i] = writer[i]
      BY <2>3 DEF Beside
    <3> QED BY <1>0, <2>1, <2>3, <3>1 DEF WriterReady, DoomedSafe, n
  <2> QED BY <1>1, <2>1, <2>2, <2>3 DEF DoomedSafe
<1> QED BY <1>6, <1>7, <1>8, <1>9, <1>10, <1>11, <1>12, <1>15, <1>16, <1>17 DEF Beside

-----------------------------------------------------------------------------
(* The files: steps that commit nothing *)

\* A later state with the same versions, in which no less was lost.
LEMMA FixExactKept ==
    ASSUME FixExact, log' = log, lost \subseteq lost' PROVE FixExact'
<1> SUFFICES ASSUME NEW v \in 2..Len(log)
             PROVE  LET c == log[v] IN
                    /\ c.by = "restore" => c.live = log[c.target].live
                    /\ c.by = "restore_present" => c.live \subseteq log[c.target].live
                    /\ c.by = "repair" => /\ c.live \subseteq log[v - 1].live
                                          /\ \A e \in log[v - 1].live \ c.live : e.file \in lost'
                    /\ c.by = "vacuum" => c.live = log[v - 1].live
  BY DEF FixExact, LastVersion, Live
<1> QED BY DEF FixExact, LastVersion, Live

\* Nothing of the log changes.
LEMMA HistoryUnchanged ==
    ASSUME HistorySafe, UNCHANGED logOps, now' = now PROVE HistorySafe'
<1>1. now' \in 0..MaxTime /\ now <= now'
  BY Numbers DEF HistorySafe, LogTyped
<1>2. saving.pc = "put" => Timely(saving)'
  BY DEF HistorySafe, Timely, logOps
<1> QED BY <1>1, <1>2, TimePasses

\* The latest version is retained: nothing superseded it.
LEMMA LastRetained == ASSUME HistorySafe PROVE Retained(Len(log)) /\ Len(log) \in 1..Len(log)
BY Numbers DEF HistorySafe, LogTyped, Retained, SupersededAt, LastVersion

\* The versions that are kept, by these names.
LEMMA Keeps ==
    RetainedFiles <=>
        \A v \in 1..Len(log) :
            /\ Retained(v) => FilesOf(log[v].live) \subseteq DOMAIN stored \cup lost
            /\ Recent(v) => log[v].cdc \subseteq DOMAIN stored
BY DEF RetainedFiles, Retained, Recent, Live, LastVersion

fileVars == <<scene, now, log, stored, lost, writer, fix, vacuum>>

\* The checkpoint and cleanup steps.
LEMMA LogStepKeepsFiles ==
    ASSUME FilesSafe, UNCHANGED fileVars, \A c \in checkpoints' : c.at <= now
    PROVE  FilesSafe'
<1> USE DEF FilesSafe, fileVars
<1>1. FilesTyped'
  BY DEF FilesTyped
<1>2. InTime'
  BY DEF InTime, Timely
<1>3. FixExact'
  BY FixExactKept
<1>4. \A v : (Retained(v)' <=> Retained(v)) /\ (Recent(v)' <=> Recent(v))
  BY DEF Retained, Recent, SupersededAt, LastVersion
<1>5. FilesInv'
  <2>1. Chain(log)' /\ TombsTimely(log)' /\ CdcTimely(log, stored)' /\ Targets(log)'
    BY DEF FilesInv
  <2>2. NamesNew' /\ WriterReady' /\ FixReady' /\ Apart'
    BY DEF FilesInv, NamesNew, WriterReady, FixReady, Apart, InFlight, NamedBy
  <2>3. FilesThere' /\ DoomedSafe'
    <3>1. RetainedFiles'
      BY DEF FilesInv, FilesThere, RetainedFiles, SupersededAt, LastVersion, Live
    <3> QED BY <1>4, <3>1 DEF FilesInv, FilesThere, DoomedSafe
  <2>4. PlanSafe'
    BY DEF FilesInv, PlanSafe, Fresh
  <2> QED BY <2>1, <2>2, <2>3, <2>4 DEF FilesInv
<1> QED BY <1>1, <1>2, <1>3, <1>5

\* Time passes, and retains no version it did not retain.
LEMMA TickKept == ASSUME Inv, Tick PROVE Inv'
<1> USE DEF Inv, FilesSafe
<1>0. /\ now \in Int /\ now' = now + 1 /\ now' \in 0..MaxTime /\ now <= now'
      /\ UNCHANGED <<log, stored, lost, writer, fix, vacuum, scene, checkpoints, saving>>
      /\ UNCHANGED logOps
      /\ log \in Seq(Versions) /\ Len(log) \in Nat
  BY Numbers DEF Tick, logOps, logFiles, ops, HistorySafe, LogTyped
<1>1. ASSUME NEW p, p \in {writer[i] : i \in Writer} \cup {fix, saving}, p.began \in Int,
             InFlight(p), Timely(p)
      PROVE  p.began <= now + 1 /\ now + 1 <= p.began + OpTime
  BY <1>0, <1>1, Numbers DEF Tick, Timely
<1>2. HistorySafe'
  <2>1. ASSUME saving.pc = "put" PROVE Timely(saving)'
    <3>1. saving.began \in Int /\ InFlight(saving) /\ Timely(saving)
      BY <2>1 DEF HistorySafe, LogTyped, SavingState, InFlight
    <3> QED BY <1>0, <1>1, <3>1 DEF Timely
  <2> QED BY <1>0, <2>1, TimePasses
<1>3. FilesTyped'
  BY <1>0 DEF FilesTyped
<1>4. InTime'
  <2>1. ASSUME NEW i \in Writer, writer[i].pc = "commit" PROVE Timely(writer[i])'
    <3>1. writer[i].began \in Int /\ InFlight(writer[i]) /\ Timely(writer[i])
      BY <2>1 DEF FilesTyped, WriterState, InTime, InFlight
    <3> QED BY <1>0, <1>1, <3>1 DEF Timely
  <2>2. ASSUME fix.pc \in {"plan", "commit"} PROVE Timely(fix)'
    <3>1. fix.began \in Int /\ InFlight(fix) /\ Timely(fix)
      BY <2>2 DEF FilesTyped, FixState, InTime, InFlight
    <3> QED BY <1>0, <1>1, <3>1 DEF Timely
  <2>3. vacuum.pc = "plan" => vacuum.cutoff + Retention <= now'
    <3>1. vacuum.cutoff \in Int
      BY DEF FilesTyped, VacuumState
    <3> QED BY <1>0, <3>1, Numbers DEF InTime
  <2>4. \A c \in checkpoints : c.at <= now'
    <3>1. \A c \in checkpoints : c.at \in Int
      BY DEF HistorySafe, LogTyped, CheckpointState
    <3> QED BY <1>0, <3>1 DEF InTime
  <2> QED BY <1>0, <2>1, <2>2, <2>3, <2>4 DEF InTime
<1>5. FixExact'
  BY <1>0, FixExactKept
<1>6. \A v \in 1..Len(log) : (Retained(v)' => Retained(v)) /\ (Recent(v)' => Recent(v))
  <2> SUFFICES ASSUME NEW v \in 1..Len(log)
               PROVE  (Retained(v)' => Retained(v)) /\ (Recent(v)' => Recent(v))
    OBVIOUS
  <2>1. log[v].time \in Int /\ (v # Len(log) => log[v + 1].time \in Int)
    BY <1>0, VersionTypes
  <2> QED BY <1>0, <2>1, Numbers DEF Retained, Recent, SupersededAt, LastVersion
<1>7. FilesInv'
  <2>1. Chain(log)' /\ TombsTimely(log)' /\ CdcTimely(log, stored)' /\ Targets(log)'
    BY <1>0 DEF FilesInv
  <2>2. NamesNew' /\ WriterReady' /\ FixReady' /\ Apart'
    BY <1>0 DEF FilesInv, NamesNew, WriterReady, FixReady, Apart, InFlight, NamedBy
  <2>3. FilesThere'
    <3>1. RetainedFiles'
      <4> SUFFICES ASSUME NEW v \in 1..Len(log)
                   PROVE  /\ Retained(v)' => FilesOf(log[v].live) \subseteq DOMAIN stored \cup lost
                          /\ Recent(v)' => log[v].cdc \subseteq DOMAIN stored
        BY <1>0 DEF RetainedFiles, Retained, Recent, Live, LastVersion
      <4> QED BY <1>6, Keeps DEF FilesInv, FilesThere
    <3> QED BY <1>0, <3>1 DEF FilesInv, FilesThere
  <2>4. DoomedSafe'
    BY <1>0, <1>6 DEF FilesInv, DoomedSafe
  <2>5. PlanSafe'
    BY <1>0 DEF FilesInv, PlanSafe, Fresh
  <2> QED BY <2>1, <2>2, <2>3, <2>4, <2>5 DEF FilesInv
<1> QED BY <1>2, <1>3, <1>4, <1>5, <1>7

\* Storage loses some files that no version kept and nobody about to commit
\* needs, or that are known as lost; a VACUUM may have less left to delete.
StorageShrinks ==
    /\ UNCHANGED <<scene, now, log, writer, fix>>
    /\ DOMAIN stored' \subseteq DOMAIN stored
    /\ \A f \in DOMAIN stored' : stored'[f] = stored[f]
    /\ lost \subseteq lost' /\ lost' \subseteq DataNames
    /\ DOMAIN stored' \cup lost' \subseteq DOMAIN stored \cup lost
    /\ vacuum' \in VacuumState /\ vacuum'.doomed \subseteq vacuum.doomed
    /\ vacuum'.doomed \subseteq DOMAIN stored' \cup lost'
    /\ vacuum'.doomed # {} => vacuum'.pc \in {"start", "delete"}
    /\ vacuum'.pc = "plan" => vacuum' = vacuum
    /\ InFlight(vacuum)' => InFlight(vacuum)
    /\ \A f \in (DOMAIN stored \cup lost) \ (DOMAIN stored' \cup lost') : f \in vacuum.doomed
    /\ \A f \in DOMAIN stored \ DOMAIN stored' : f \in vacuum.doomed \/ f \in DataNames

\* Such a step keeps the invariant.
LEMMA ShrinkingKept ==
    ASSUME HistorySafe, FilesSafe, StorageShrinks, checkpoints' = checkpoints PROVE FilesSafe'
<1> USE DEF FilesSafe
<1> DEFINE all == DOMAIN stored \cup lost
<1>0. UNCHANGED <<scene, now, log, writer, fix>>
  BY DEF StorageShrinks
<1>1. FilesTyped'
  BY <1>0 DEF FilesTyped, StorageShrinks
<1>2. InTime'
  BY <1>0 DEF InTime, Timely, StorageShrinks
<1>3. FixExact'
  BY <1>0, FixExactKept DEF StorageShrinks
<1>4. \A v : (Retained(v)' <=> Retained(v)) /\ (Recent(v)' <=> Recent(v))
  BY <1>0 DEF Retained, Recent, SupersededAt, LastVersion
<1>5. Chain(log') /\ TombsTimely(log') /\ Targets(log')
  BY <1>0 DEF FilesInv
<1>6. CdcTimely(log', stored')
  BY <1>0 DEF FilesInv, CdcTimely, StorageShrinks
<1>7. NamesNew'
  BY <1>0 DEF FilesInv, NamesNew, NamedBy, StorageShrinks
<1>8. WriterReady'
  BY <1>0 DEF FilesInv, WriterReady, StorageShrinks
<1>9. FixReady'
  BY <1>0 DEF FilesInv, FixReady, StorageShrinks
<1>10. Apart'
  BY <1>0 DEF FilesInv, Apart, StorageShrinks, InFlight
<1>11. ASSUME NEW S, S \subseteq all, vacuum.doomed \cap S = {}
       PROVE  S \subseteq DOMAIN stored' \cup lost'
  BY <1>11 DEF StorageShrinks
<1>12. ASSUME NEW C, C \subseteq DOMAIN stored, C \subseteq CdcNames, vacuum.doomed \cap C = {}
       PROVE  C \subseteq DOMAIN stored'
  BY <1>12, NamesApart DEF StorageShrinks
<1>13. \A v \in 1..Len(log) : log[v].cdc \subseteq CdcNames
  BY VersionTypes DEF HistorySafe, LogTyped
<1>14. \A i \in Writer : writer[i].cdc \subseteq CdcNames
  BY DEF FilesTyped, WriterState
<1>15. FilesThere'
  <2>1. RetainedFiles'
    <3> SUFFICES ASSUME NEW v \in 1..Len(log)
                 PROVE  /\ Retained(v)' => FilesOf(log[v].live) \subseteq DOMAIN stored' \cup lost'
                        /\ Recent(v)' => log[v].cdc \subseteq DOMAIN stored'
      BY <1>0 DEF RetainedFiles, Retained, Recent, Live, LastVersion
    <3>1. ASSUME Retained(v) PROVE FilesOf(log[v].live) \subseteq DOMAIN stored' \cup lost'
      <4>1. FilesOf(log[v].live) \subseteq all /\ vacuum.doomed \cap FilesOf(log[v].live) = {}
        BY <3>1, Keeps DEF FilesInv, FilesThere, DoomedSafe
      <4> QED BY <1>11, <4>1
    <3>2. ASSUME Recent(v) PROVE log[v].cdc \subseteq DOMAIN stored'
      <4>1. log[v].cdc \subseteq DOMAIN stored /\ vacuum.doomed \cap log[v].cdc = {}
        BY <3>2, Keeps DEF FilesInv, FilesThere, DoomedSafe
      <4> QED BY <1>12, <1>13, <4>1
    <3> QED BY <1>4, <3>1, <3>2
  <2>2. ASSUME NEW i \in Writer, writer[i].pc = "commit"
        PROVE  /\ writer[i].base = Len(log) =>
                     FilesOf(writer[i].adds) \subseteq DOMAIN stored' \cup lost'
               /\ writer[i].cdc \subseteq DOMAIN stored'
    <3>1. ASSUME writer[i].base = Len(log)
          PROVE  FilesOf(writer[i].adds) \subseteq DOMAIN stored' \cup lost'
      <4>1. FilesOf(writer[i].adds) \subseteq all
            /\ vacuum.doomed \cap FilesOf(writer[i].adds) = {}
        BY <2>2, <3>1 DEF FilesInv, FilesThere, DoomedSafe
      <4> QED BY <1>11, <4>1
    <3>2. writer[i].cdc \subseteq DOMAIN stored /\ vacuum.doomed \cap writer[i].cdc = {}
      BY <2>2 DEF FilesInv, FilesThere, DoomedSafe
    <3> QED BY <1>12, <1>14, <3>1, <3>2
  <2>3. fix.pc = "commit" => FilesOf(fix.adds) \subseteq DOMAIN stored' \cup lost'
    <3> SUFFICES ASSUME fix.pc = "commit"
                 PROVE  FilesOf(fix.adds) \subseteq DOMAIN stored' \cup lost'
      OBVIOUS
    <3>1. vacuum.doomed = {}
      BY DEF FilesInv, Apart, DoomedSafe, InFlight
    <3>2. FilesOf(fix.adds) \subseteq all
      BY DEF FilesInv, FilesThere
    <3> QED BY <1>11, <3>1, <3>2
  <2> QED BY <1>0, <2>1, <2>2, <2>3 DEF FilesThere
<1>16. PlanSafe'
  BY <1>0 DEF FilesInv, PlanSafe, Fresh, StorageShrinks
<1>17. DoomedSafe'
  <2>1. vacuum'.doomed \subseteq vacuum.doomed
        /\ (vacuum'.doomed # {} => vacuum'.pc \in {"start", "delete"})
    BY DEF StorageShrinks
  <2> QED BY <1>0, <1>4, <2>1 DEF FilesInv, DoomedSafe
<1> QED BY <1>1, <1>2, <1>3, <1>5, <1>6, <1>7, <1>8, <1>9, <1>10, <1>15, <1>16, <1>17 DEF FilesInv

\* A data file lost by hand is known as lost.
LEMMA LoseFileKept == ASSUME Inv, LoseFile PROVE Inv'
<1> USE DEF Inv
<1>1. PICK e \in log[Len(log)].live :
          /\ e.file \in DOMAIN stored
          /\ stored' = Without(stored, {e.file})
          /\ lost' = lost \cup {e.file}
  BY DEF LoseFile, Live, LastVersion
<1>2. UNCHANGED <<scene, now, log, writer, fix, vacuum, checkpoints>> /\ UNCHANGED logOps
  BY DEF LoseFile, logFiles, ops, logOps
<1>3. e.file \in DataNames
  <2>1. log[Len(log)].live \subseteq Entries
    BY LastRetained, VersionTypes DEF HistorySafe, LogTyped
  <2> QED BY <2>1 DEF Entries
<1>4. /\ DOMAIN stored' = DOMAIN stored \ {e.file}
      /\ \A f \in DOMAIN stored' : stored'[f] = stored[f]
  BY <1>1 DEF Without
<1>5. lost \subseteq DataNames /\ vacuum \in VacuumState /\ vacuum.doomed \subseteq DOMAIN stored \cup lost
      /\ (vacuum.doomed # {} => vacuum.pc \in {"start", "delete"})
  BY DEF FilesSafe, FilesTyped, FilesInv, DoomedSafe
<1>6. HistorySafe'
  BY <1>2, HistoryUnchanged
<1>7. StorageShrinks
  BY <1>1, <1>2, <1>3, <1>4, <1>5 DEF StorageShrinks, InFlight
<1> QED BY <1>2, <1>6, <1>7, ShrinkingKept

\* VACUUM deletes a file, or fails to: it was doomed, so no kept version needs it.
LEMMA DeleteFileKept == ASSUME Inv, DeleteFile PROVE Inv'
<1> USE DEF Inv
<1>1. PICK f \in vacuum.doomed :
          /\ vacuum' = [vacuum EXCEPT !.doomed = @ \ {f},
                                      !.pc = IF vacuum.doomed = {f} THEN "end" ELSE @]
          /\ stored' \in {stored, Without(stored, {f})}
  BY DEF DeleteFile
<1>2. UNCHANGED <<scene, now, log, lost, writer, fix, checkpoints>> /\ UNCHANGED logOps
  BY DEF DeleteFile, logFiles, logOps
<1>3. lost \subseteq DataNames /\ vacuum \in VacuumState /\ vacuum.doomed \subseteq DOMAIN stored \cup lost
      /\ vacuum.pc = "delete"
  BY DEF FilesSafe, FilesTyped, DeleteFile
<1>4. vacuum' \in VacuumState /\ vacuum'.doomed = vacuum.doomed \ {f}
      /\ vacuum'.pc = IF vacuum.doomed = {f} THEN "end" ELSE "delete"
  BY <1>1, <1>3 DEF VacuumState
<1>5. /\ DOMAIN stored' \subseteq DOMAIN stored /\ DOMAIN stored \ {f} \subseteq DOMAIN stored'
      /\ \A g \in DOMAIN stored' : stored'[g] = stored[g]
  <2>1. CASE stored' = stored
    BY <2>1
  <2>2. CASE stored' = Without(stored, {f})
    BY <2>2 DEF Without
  <2> QED BY <1>1, <2>1, <2>2
<1>6. HistorySafe'
  BY <1>2, HistoryUnchanged
<1>7. StorageShrinks
  <2>1. vacuum'.doomed # {} => vacuum'.pc \in {"start", "delete"}
    BY <1>4
  <2>2. vacuum'.pc # "plan" /\ InFlight(vacuum)
    BY <1>3, <1>4 DEF InFlight
  <2> QED BY <1>1, <1>2, <1>3, <1>4, <1>5, <2>1, <2>2 DEF StorageShrinks
<1> QED BY <1>2, <1>6, <1>7, ShrinkingKept

\* Only one operation changes, and nothing of the table.
tableVars == <<scene, now, log, stored, lost, checkpoints>>

\* A writer ends.
LEMMA WriterEnds ==
    ASSUME HistorySafe, FilesSafe, NEW i \in Writer, UNCHANGED tableVars, UNCHANGED <<fix, vacuum>>,
           writer' = [writer EXCEPT ![i] = [IdleWriter EXCEPT !.pc = "done"]]
    PROVE  FilesSafe'
<1> USE DEF FilesSafe, tableVars
<1>1. writer'[i].pc = "done" /\ (\A j \in Writer : j # i => writer'[j] = writer[j])
      /\ writer' \in [Writer -> WriterState]
  <2>1. [IdleWriter EXCEPT !.pc = "done"] \in WriterState
        /\ [IdleWriter EXCEPT !.pc = "done"].pc = "done"
    BY DEF IdleWriter, WriterState
  <2> QED BY <2>1 DEF FilesTyped
<1>2. FilesTyped'
  BY <1>1 DEF FilesTyped
<1>3. InTime'
  BY <1>1 DEF InTime, Timely
<1>4. FixExact'
  BY FixExactKept
<1>5. \A v : (Retained(v)' <=> Retained(v)) /\ (Recent(v)' <=> Recent(v))
  BY DEF Retained, Recent, SupersededAt, LastVersion
<1>6. Chain(log)' /\ TombsTimely(log)' /\ CdcTimely(log, stored)' /\ Targets(log)' /\ RetainedFiles'
  BY DEF FilesInv, FilesThere, RetainedFiles, SupersededAt, LastVersion, Live
<1>7. NamesNew' /\ WriterReady'
  BY <1>1 DEF FilesInv, NamesNew, WriterReady, NamedBy
<1>8. FixReady' /\ Apart'
  BY DEF FilesInv, FixReady, Apart, InFlight
<1>9. FilesThere'
  BY <1>1, <1>6 DEF FilesInv, FilesThere
<1>10. PlanSafe'
  BY <1>1 DEF FilesInv, PlanSafe, Fresh
<1>11. DoomedSafe'
  BY <1>1, <1>5 DEF FilesInv, DoomedSafe
<1> QED BY <1>2, <1>3, <1>4, <1>6, <1>7, <1>8, <1>9, <1>10, <1>11 DEF FilesInv

\* The restore or repair takes a step that commits nothing.
LEMMA FixMoves ==
    ASSUME HistorySafe, FilesSafe, UNCHANGED tableVars, UNCHANGED <<writer, vacuum>>,
           fix' \in FixState, fix'.tries <= Attempts,
           fix'.pc \in {"idle", "plan", "commit"} => fix'.tries < Attempts,
           fix'.pc \in {"plan", "commit"} => fix'.began = now,
           FixReady', Apart',
           fix'.pc = "commit" => FilesOf(fix'.adds) \subseteq DOMAIN stored \cup lost
    PROVE  FilesSafe'
<1> USE DEF FilesSafe, tableVars
<1>2. FilesTyped'
  BY DEF FilesTyped
<1>3. InTime'
  <2>1. now \in Int
    BY Numbers DEF HistorySafe, LogTyped
  <2>2. fix'.pc \in {"plan", "commit"} => Timely(fix)'
    BY <2>1, Numbers DEF Timely
  <2> QED BY <2>2 DEF InTime, Timely
<1>4. FixExact'
  BY FixExactKept
<1>5. \A v : (Retained(v)' <=> Retained(v)) /\ (Recent(v)' <=> Recent(v))
  BY DEF Retained, Recent, SupersededAt, LastVersion
<1>6. Chain(log)' /\ TombsTimely(log)' /\ CdcTimely(log, stored)' /\ Targets(log)' /\ RetainedFiles'
  BY DEF FilesInv, FilesThere, RetainedFiles, SupersededAt, LastVersion, Live
<1>7. NamesNew' /\ WriterReady'
  BY DEF FilesInv, NamesNew, WriterReady, NamedBy
<1>9. FilesThere'
  BY <1>6 DEF FilesInv, FilesThere
<1>10. PlanSafe'
  BY DEF FilesInv, PlanSafe, Fresh
<1>11. DoomedSafe'
  BY <1>5 DEF FilesInv, DoomedSafe
<1> QED BY <1>2, <1>3, <1>4, <1>6, <1>7, <1>9, <1>10, <1>11 DEF FilesInv

\* The VACUUM takes a step that deletes and commits nothing.
LEMMA VacuumMoves ==
    ASSUME HistorySafe, FilesSafe, UNCHANGED tableVars, UNCHANGED <<writer, fix>>,
           vacuum' \in VacuumState, vacuum'.doomed \subseteq DOMAIN stored \cup lost,
           vacuum'.pc = "plan" => vacuum'.cutoff + Retention <= now,
           PlanSafe', DoomedSafe', Apart'
    PROVE  FilesSafe'
<1> USE DEF FilesSafe, tableVars
<1>2. FilesTyped'
  BY DEF FilesTyped
<1>3. InTime'
  BY DEF InTime, Timely
<1>4. FixExact'
  BY FixExactKept
<1>6. Chain(log)' /\ TombsTimely(log)' /\ CdcTimely(log, stored)' /\ Targets(log)' /\ RetainedFiles'
  BY DEF FilesInv, FilesThere, RetainedFiles, SupersededAt, LastVersion, Live
<1>7. NamesNew' /\ WriterReady' /\ FixReady'
  BY DEF FilesInv, NamesNew, WriterReady, NamedBy, FixReady
<1>9. FilesThere'
  BY <1>6 DEF FilesInv, FilesThere
<1> QED BY <1>2, <1>3, <1>4, <1>6, <1>7, <1>9 DEF FilesInv

-----------------------------------------------------------------------------
(* Writers *)

\* What a write stages: names of its own, and entries made of those and of what
\* is live.
Stages(i, w, N) ==
    /\ w \in WriterState
    /\ w.pc = "commit" /\ w.base = Len(log) /\ w.began = now
    /\ w.drops \subseteq log[Len(log)].live
    /\ N \subseteq Own(i)
    /\ FilesOf(w.adds) \subseteq FilesOf(log[Len(log)].live) \cup N
    /\ w.cdc \subseteq N

\* That is what StageWrite does.
LEMMA StageWriteStages ==
    ASSUME Inv, NEW i \in Writer, StageWrite(i)
    PROVE  \E w, N : /\ Stages(i, w, N)
                     /\ stored' = With(stored, N, now)
                     /\ writer' = [writer EXCEPT ![i] = w]
<1> USE DEF Inv
<1>0. now \in Int /\ Len(log) \in Nat /\ log[Len(log)].live \subseteq Entries /\ scene \in Scenes
  BY Numbers, LastRetained, VersionTypes DEF HistorySafe, LogTyped, FilesSafe, FilesTyped
<1>1. scene.writes \subseteq Writes
  BY <1>0, ConstantsAssumption
<1>2. PICK how \in scene.writes, drops \in SUBSET log[Len(log)].live :
         LET new  == {<<i, how>>}
             cdc  == IF how = "rewrite" THEN {<<i, "change">>} ELSE {}
             adds == IF how = "vectors" THEN {[e EXCEPT !.vector = <<i, how>>] : e \in drops}
                     ELSE {[file |-> <<i, how>>, vector |-> None]}
         IN /\ stored' = With(stored, new \cup cdc, now)
            /\ writer' = [writer EXCEPT ![i] =
                  [pc |-> "commit", base |-> Len(log), began |-> now,
                   adds |-> adds, drops |-> drops, cdc |-> cdc]]
  BY DEF StageWrite, Live, LastVersion
<1> DEFINE new  == {<<i, how>>}
           cdc  == IF how = "rewrite" THEN {<<i, "change">>} ELSE {}
           adds == IF how = "vectors" THEN {[e EXCEPT !.vector = <<i, how>>] : e \in drops}
                   ELSE {[file |-> <<i, how>>, vector |-> None]}
           w == [pc |-> "commit", base |-> Len(log), began |-> now,
                 adds |-> adds, drops |-> drops, cdc |-> cdc]
<1>3. <<i, how>> \in DataNames /\ <<i, how>> \in Own(i)
  BY <1>1, <1>2 DEF DataNames, Own
<1>4. cdc \subseteq CdcNames /\ cdc \subseteq Own(i)
  BY DEF CdcNames, Own
<1>5. drops \subseteq Entries
  BY <1>0
<1>6. adds \subseteq Entries /\ FilesOf(adds) \subseteq FilesOf(log[Len(log)].live) \cup new
  <2>1. CASE how = "vectors"
    <3>1. \A e \in drops : LET a == [e EXCEPT !.vector = <<i, how>>]
                           IN a \in Entries /\ a.file = e.file /\ a.vector = <<i, how>>
      BY <1>3, <1>5 DEF Entries
    <3>2. \A a \in adds : a \in Entries /\ a.vector = <<i, how>> /\ \E e \in drops : a.file = e.file
      BY <2>1, <3>1
    <3> HIDE DEF adds
    <3>3. ASSUME NEW f \in FilesOf(adds) PROVE f \in FilesOf(log[Len(log)].live) \cup new
      <4>1. PICK a \in adds : f = a.file \/ (f = a.vector /\ f # None)
        BY <3>3, InFilesOf
      <4>2. PICK e \in drops : a.file = e.file
        BY <3>2
      <4>3. e \in log[Len(log)].live
        OBVIOUS
      <4>4. e.file \in FilesOf(log[Len(log)].live)
        BY <4>3, InFilesOf
      <4> QED BY <3>2, <4>1, <4>2, <4>4
    <3> QED BY <3>2, <3>3
  <2>2. CASE how # "vectors"
    <3>1. adds = {[file |-> <<i, how>>, vector |-> None]}
      BY <2>2
    <3>2. adds \subseteq Entries
      BY <1>3, <3>1 DEF Entries
    <3>3. FilesOf(adds) \subseteq new
      BY <3>1 DEF FilesOf
    <3> QED BY <3>2, <3>3
  <2> QED BY <2>1, <2>2
<1> HIDE DEF adds, cdc
<1>7. /\ w \in WriterState /\ w.pc = "commit" /\ w.base = Len(log) /\ w.began = now
      /\ w.drops = drops /\ w.adds = adds /\ w.cdc = cdc
  BY <1>0, <1>4, <1>5, <1>6 DEF WriterState
<1>8. Stages(i, w, new \cup cdc)
  <2>1. new \cup cdc \subseteq Own(i)
    BY <1>3, <1>4
  <2> QED BY <1>6, <1>7, <2>1 DEF Stages
<1>9. stored' = With(stored, new \cup cdc, now) /\ writer' = [writer EXCEPT ![i] = w]
  BY <1>2 DEF adds, cdc
<1> QED BY <1>8, <1>9

\* A staged write stores new names only.
LEMMA StageWriteKept == ASSUME Inv, NEW i \in Writer, StageWrite(i) PROVE Inv'
<1> USE DEF Inv
<1> DEFINE n == Len(log)
<1>1. PICK w, N : /\ Stages(i, w, N)
                  /\ stored' = With(stored, N, now)
                  /\ writer' = [writer EXCEPT ![i] = w]
  BY StageWriteStages
<1>2. UNCHANGED <<scene, now, log, lost, fix, vacuum, checkpoints>> /\ UNCHANGED logOps
  BY DEF StageWrite, logFiles, logOps
<1>3. HistorySafe'
  BY <1>2, HistoryUnchanged
<1> SUFFICES FilesSafe'
  BY <1>3
<1> USE DEF FilesSafe
<1>4. /\ now \in Int /\ n \in 1..n /\ Retained(n) /\ writer[i].pc = "idle"
      /\ writer \in [Writer -> WriterState]
  BY Numbers, LastRetained DEF HistorySafe, LogTyped, StageWrite, FilesTyped
<1>5. /\ w \in WriterState /\ w.pc = "commit" /\ w.base = n /\ w.began = now
      /\ w.drops \subseteq log[n].live /\ N \subseteq Own(i)
      /\ FilesOf(w.adds) \subseteq FilesOf(log[n].live) \cup N
      /\ w.cdc \subseteq N
  BY <1>1 DEF Stages
<1>6. writer'[i] = w /\ (\A j \in Writer : j # i => writer'[j] = writer[j])
      /\ writer' \in [Writer -> WriterState]
  BY <1>1, <1>4, <1>5
<1>7. /\ DOMAIN stored' = N \cup DOMAIN stored
      /\ \A f \in N : stored'[f] = now
      /\ \A f \in DOMAIN stored \ N : stored'[f] = stored[f]
  BY <1>1 DEF With
<1>8. /\ Own(i) \cap (DOMAIN stored \cup lost) = {}
      /\ \A v \in 1..n : Own(i) \cap NamedBy(log, v) = {}
  BY <1>4 DEF FilesInv, NamesNew
<1>9. \A f \in DOMAIN stored : f \notin N /\ stored'[f] = stored[f] /\ f \in DOMAIN stored'
  BY <1>5, <1>7, <1>8
<1> HIDE DEF n
<1>10. FilesTyped'
  <2>1. N \subseteq Names
    BY <1>5, NamesApart
  <2>2. DOMAIN stored' \subseteq Names /\ \A f \in DOMAIN stored' : stored'[f] \in Int
    BY <1>4, <1>7, <1>9, <2>1 DEF FilesTyped
  <2>3. vacuum.doomed \subseteq DOMAIN stored' \cup lost
    BY <1>7 DEF FilesTyped
  <2> QED BY <1>2, <1>6, <2>2, <2>3 DEF FilesTyped
<1>11. InTime'
  <2>1. Timely(w)
    BY <1>4, <1>5, Numbers DEF Timely
  <2>2. \A j \in Writer : writer'[j].pc = "commit" => Timely(writer'[j])
    BY <1>6, <2>1 DEF InTime
  <2> QED BY <1>2, <2>2 DEF InTime, Timely
<1>12. FixExact'
  BY <1>2, FixExactKept
<1>13. \A v : (Retained(v)' <=> Retained(v)) /\ (Recent(v)' <=> Recent(v))
  BY <1>2 DEF Retained, Recent, SupersededAt, LastVersion
<1>14. Chain(log') /\ TombsTimely(log') /\ Targets(log')
  BY <1>2 DEF FilesInv
<1>15. CdcTimely(log', stored')
  <2> SUFFICES ASSUME NEW v \in 1..n, NEW f \in log[v].cdc \cap DOMAIN stored'
               PROVE  log[v].time <= stored'[f] + OpTime
    BY <1>2 DEF CdcTimely, n
  <2>1. f \notin N
    BY <1>5, <1>8 DEF NamedBy
  <2>2. f \in DOMAIN stored /\ stored'[f] = stored[f]
    BY <1>7, <1>9, <2>1
  <2> QED BY <2>2 DEF FilesInv, CdcTimely, n
<1>16. \A j \in Writer : j # i => Own(j) \cap N = {}
  BY <1>5, NamesApart
<1>17. NamesNew'
  <2> SUFFICES ASSUME NEW j \in Writer
               PROVE  /\ writer'[j].pc # "done" => \A v \in 1..n : Own(j) \cap NamedBy(log', v) = {}
                      /\ writer'[j].pc = "idle" => Own(j) \cap (DOMAIN stored' \cup lost') = {}
    BY <1>2 DEF NamesNew, n
  <2>0. \A v : NamedBy(log', v) = NamedBy(log, v)
    BY <1>2
  <2>1. CASE j = i
    BY <1>5, <1>6, <1>8, <2>0, <2>1
  <2>2. CASE j # i
    BY <1>2, <1>6, <1>7, <1>16, <2>0, <2>2 DEF FilesInv, NamesNew, n
  <2> QED BY <2>1, <2>2
<1>18. WriterReady'
  <2> SUFFICES ASSUME NEW j \in Writer, writer'[j].pc = "commit"
               PROVE  /\ writer'[j].base \in 1..n
                      /\ writer'[j].drops \subseteq log[writer'[j].base].live
                      /\ FilesOf(writer'[j].adds)
                            \subseteq FilesOf(log[writer'[j].base].live) \cup Own(j)
                      /\ writer'[j].cdc \subseteq Own(j)
                      /\ \A f \in Own(j) \cap DOMAIN stored' : stored'[f] = writer'[j].began
    BY <1>2 DEF WriterReady, n
  <2>1. CASE j = i
    <3>1. \A f \in Own(i) \cap DOMAIN stored' : f \in N
      BY <1>7, <1>8
    <3> QED BY <1>4, <1>5, <1>6, <1>7, <2>1, <3>1
  <2>2. CASE j # i
    <3>1. \A f \in Own(j) \cap DOMAIN stored' : f \in DOMAIN stored /\ stored'[f] = stored[f]
      BY <1>7, <1>9, <1>16, <2>2
    <3> QED BY <1>6, <2>2, <3>1 DEF FilesInv, WriterReady, n
  <2> QED BY <2>1, <2>2
<1>19. FixReady' /\ Apart'
  BY <1>2 DEF FilesInv, FixReady, Apart, InFlight
<1>20. FilesOf(log[n].live) \subseteq DOMAIN stored \cup lost
  BY <1>4, Keeps DEF FilesInv, FilesThere, n
<1>21. FilesThere'
  <2>1. RetainedFiles'
    <3> SUFFICES ASSUME NEW v \in 1..n
                 PROVE  /\ Retained(v)' => FilesOf(log[v].live) \subseteq DOMAIN stored' \cup lost
                        /\ Recent(v)' => log[v].cdc \subseteq DOMAIN stored'
      BY <1>2 DEF RetainedFiles, Retained, Recent, Live, LastVersion, n
    <3>1. /\ Retained(v) => FilesOf(log[v].live) \subseteq DOMAIN stored \cup lost
          /\ Recent(v) => log[v].cdc \subseteq DOMAIN stored
      BY Keeps DEF FilesInv, FilesThere, n
    <3> QED BY <1>7, <1>13, <3>1
  <2>2. ASSUME NEW j \in Writer, writer'[j].pc = "commit"
        PROVE  /\ writer'[j].base = n => FilesOf(writer'[j].adds) \subseteq DOMAIN stored' \cup lost
               /\ writer'[j].cdc \subseteq DOMAIN stored'
    <3>1. CASE j = i
      BY <1>5, <1>6, <1>7, <1>20, <3>1
    <3>2. CASE j # i
      BY <1>6, <1>7, <2>2, <3>2 DEF FilesInv, FilesThere, n
    <3> QED BY <3>1, <3>2
  <2>3. fix.pc = "commit" => FilesOf(fix.adds) \subseteq DOMAIN stored' \cup lost
    BY <1>7 DEF FilesInv, FilesThere
  <2> QED BY <1>2, <2>1, <2>2, <2>3 DEF FilesThere, n
<1>22. PlanSafe'
  <2> SUFFICES ASSUME vacuum.pc = "plan" PROVE PlanSafe'
    BY <1>2 DEF PlanSafe
  <2>1. now >= vacuum.cutoff
    <3>1. vacuum.cutoff \in Int
      BY DEF FilesTyped, VacuumState
    <3> QED BY <1>4, <3>1, Numbers DEF InTime
  <2>2. ASSUME NEW f, Fresh(f) PROVE Fresh(f)'
    BY <1>2, <1>7, <1>9, <2>1, <2>2 DEF Fresh
  <2>3. \A j \in Writer : writer'[j].pc = "commit" => writer'[j].began >= vacuum.cutoff
    BY <1>5, <1>6, <2>1 DEF FilesInv, PlanSafe
  <2> QED BY <1>2, <2>2, <2>3 DEF FilesInv, PlanSafe
<1>23. DoomedSafe'
  <2>1. ASSUME NEW j \in Writer, writer'[j].pc = "commit"
        PROVE  /\ writer'[j].base = n => vacuum.doomed \cap FilesOf(writer'[j].adds) = {}
               /\ vacuum.doomed \cap writer'[j].cdc = {}
    <3>1. CASE j = i
      <4>1. vacuum.doomed \cap N = {}
        BY <1>5, <1>8 DEF FilesTyped
      <4>2. vacuum.doomed \cap FilesOf(log[n].live) = {}
        BY <1>4 DEF FilesInv, DoomedSafe, n
      <4> QED BY <1>5, <1>6, <3>1, <4>1, <4>2
    <3>2. CASE j # i
      BY <1>6, <2>1, <3>2 DEF FilesInv, DoomedSafe, n
    <3> QED BY <3>1, <3>2
  <2> QED BY <1>2, <1>13, <2>1 DEF FilesInv, DoomedSafe, n
<1> QED BY <1>10, <1>11, <1>12, <1>14, <1>15, <1>17, <1>18, <1>19, <1>21, <1>22, <1>23 DEF FilesInv

-----------------------------------------------------------------------------
(* Commits *)

\* The last version is what FixExact says it is.
Exact(e) ==
    LET live == log[Len(log)].live IN
    /\ e.by \in {"restore", "restore_present"} => e.target \in 1..Len(log)
    /\ e.by = "restore" => e.live = log[e.target].live
    /\ e.by = "restore_present" => e.live \subseteq log[e.target].live
    /\ e.by = "repair" => e.live \subseteq live /\ \A z \in live \ e.live : z.file \in lost
    /\ e.by = "vacuum" => e.live = live

\* A commit of an exact version keeps FixExact.
LEMMA CommitExact ==
    ASSUME HistorySafe, FilesSafe, NEW e, Commits(e), Exact(e), lost' = lost PROVE FixExact'
<1> DEFINE n == Len(log)
<1>0. /\ log \in Seq(Versions) /\ n \in Nat /\ n > 0 /\ n \in 1..n
      /\ log' \in Seq(Versions) /\ Extended(log, e, log')
  BY AppendExtends DEF HistorySafe, LogTyped, Commits
<1>1. Len(log') = n + 1 /\ log'[n + 1] = e /\ \A v \in 1..n : log'[v] = log[v]
  BY <1>0 DEF Extended
<1>2. Targets(log) /\ FixExact
  BY DEF FilesSafe, FilesInv
<1> SUFFICES ASSUME NEW v \in 2..(n + 1)
             PROVE  /\ log'[v].by = "restore" => log'[v].live = log'[log'[v].target].live
                    /\ log'[v].by = "restore_present" =>
                          log'[v].live \subseteq log'[log'[v].target].live
                    /\ log'[v].by = "repair" =>
                          /\ log'[v].live \subseteq log'[v - 1].live
                          /\ \A z \in log'[v - 1].live \ log'[v].live : z.file \in lost
                    /\ log'[v].by = "vacuum" => log'[v].live = log'[v - 1].live
  BY <1>1 DEF FixExact, LastVersion, Live
<1>3. CASE v = n + 1
  <2>1. v - 1 = n /\ log'[v - 1] = log[n] /\ log'[v] = e
    BY <1>0, <1>1, <1>3
  <2>2. e.by \in {"restore", "restore_present"} => log'[e.target] = log[e.target]
    BY <1>1 DEF Exact
  <2> QED BY <2>1, <2>2 DEF Exact
<1>4. CASE v # n + 1
  <2>1. v \in 2..n /\ v \in 1..n /\ v - 1 \in 1..n
    BY <1>0, <1>4
  <2>2. log'[v] = log[v] /\ log'[v - 1] = log[v - 1]
    BY <1>1, <2>1
  <2>3. log[v].by \in {"restore", "restore_present"} => log'[log[v].target] = log[log[v].target]
    BY <1>1, <1>2, <2>1 DEF Targets
  <2>4. /\ log[v].by = "restore" => log[v].live = log[log[v].target].live
        /\ log[v].by = "restore_present" => log[v].live \subseteq log[log[v].target].live
        /\ log[v].by = "repair" => /\ log[v].live \subseteq log[v - 1].live
                                   /\ \A z \in log[v - 1].live \ log[v].live : z.file \in lost
        /\ log[v].by = "vacuum" => log[v].live = log[v - 1].live
    BY <1>2, <2>1 DEF FixExact, LastVersion, Live
  <2> QED BY <2>2, <2>3, <2>4
<1> QED BY <1>3, <1>4

\* A commit keeps the invariant.
LEMMA CommitKept ==
    ASSUME Inv, NEW e, NEW D, NEW A, NEW C, NEW at,
           Commits(e), Adding(e, D, A, C, at), Committable(D, A, C, at), Beside(A, C), Exact(e),
           UNCHANGED <<checkpoints, sidecars, cleaner, saving>>, FilesTyped', InTime'
    PROVE  Inv'
<1>1. HistorySafe'
  BY CommitsKeepHistory DEF Inv
<1>2. FixExact'
  BY CommitExact DEF Inv, Beside
<1>3. FilesInv'
  <2>1. LogTyped /\ FilesTyped /\ Ordered(log, now) /\ FilesInv
    BY DEF Inv, HistorySafe, FilesSafe
  <2>2. e.by \in {"restore", "restore_present"} => e.target \in 1..Len(log)
    BY DEF Exact
  <2> QED BY <2>1, <2>2, CommitFiles
<1> QED BY <1>1, <1>2, <1>3 DEF Inv, FilesSafe

\* The version that Commit appends.
LEMMA EntryCommits ==
    ASSUME Inv, NEW by \in Fixes \cup {"write", "vacuum"}, NEW live \in SUBSET Entries,
           NEW removes \in SUBSET TombEntries, NEW cdc \in SUBSET CdcNames, NEW target \in Nat,
           NEW e, e = Entry(by, live, removes, cdc, target), Commit(e), now' = now
    PROVE  /\ Commits(e) /\ e.by = by /\ e.live = live /\ e.removes = removes
           /\ e.cdc = cdc /\ e.target = target
<1>1. now \in Int
  BY Numbers DEF Inv, HistorySafe, LogTyped
<1>2. e \in Versions
  BY <1>1 DEF Entry, Versions
<1> QED BY <1>2 DEF Commits, Commit, Entry, LastVersion

\* A write commits on the version it was planned on, or ends.
LEMMA CommitWriteKept == ASSUME Inv, NEW i \in Writer, CommitWrite(i) PROVE Inv'
<1> USE DEF Inv
<1> DEFINE w == writer[i]
           n == Len(log)
<1>0. /\ w.pc = "commit" /\ w \in WriterState
      /\ writer' = [writer EXCEPT ![i] = [IdleWriter EXCEPT !.pc = "done"]]
      /\ UNCHANGED <<scene, now, stored, lost, checkpoints, sidecars, fix, vacuum, cleaner, saving>>
  BY DEF CommitWrite, FilesSafe, FilesTyped
<1>1. CASE n # w.base
  <2>1. UNCHANGED <<log, commits>>
    BY <1>1 DEF CommitWrite, LastVersion
  <2>2. UNCHANGED logOps /\ UNCHANGED tableVars
    BY <1>0, <2>1 DEF logOps, tableVars
  <2>3. HistorySafe'
    BY <1>0, <2>2, HistoryUnchanged
  <2> QED BY <1>0, <2>2, <2>3, WriterEnds
<1>2. CASE n = w.base
  <2> DEFINE D == w.drops
             A == w.adds
             C == w.cdc
             live == (log[n].live \ D) \cup A
             e == Entry("write", live, Tombs(D, w.began), C, 0)
  <2>1. Commit(e)
    BY <1>2 DEF CommitWrite, LastVersion, Live
  <2>2. /\ D \subseteq Entries /\ A \subseteq Entries /\ C \subseteq CdcNames /\ w.began \in Int
        /\ now \in Int /\ n \in 1..n /\ Retained(n) /\ log[n].live \subseteq Entries
    <3>1. log \in Seq(Versions) /\ now \in Int
      BY Numbers DEF HistorySafe, LogTyped
    <3>2. Retained(n) /\ n \in 1..n
      BY LastRetained
    <3>3. log[n].live \subseteq Entries
      BY <3>1, <3>2, VersionTypes
    <3> QED BY <1>0, <3>1, <3>2, <3>3 DEF WriterState
  <2>3. /\ D \subseteq log[n].live
        /\ FilesOf(A) \subseteq FilesOf(log[n].live) \cup Own(i)
        /\ C \subseteq Own(i)
        /\ \A f \in Own(i) \cap DOMAIN stored : stored[f] = w.began
    BY <1>0, <1>2 DEF FilesSafe, FilesInv, WriterReady
  <2>4. FilesOf(A) \subseteq DOMAIN stored \cup lost /\ C \subseteq DOMAIN stored
    BY <1>0, <1>2 DEF FilesSafe, FilesInv, FilesThere
  <2>5. vacuum.doomed \cap (FilesOf(A) \cup C) = {}
    BY <1>0, <1>2 DEF FilesSafe, FilesInv, DoomedSafe
  <2>6. now <= w.began + OpTime
    BY <1>0 DEF FilesSafe, InTime, Timely
  <2>7. ASSUME vacuum.pc = "plan", NEW f \in FilesOf(A)
        PROVE  f \in FilesOf(log[vacuum.version].live) \/ Fresh(f)
    <3>1. PlanSafe /\ NamesNew
      BY DEF FilesSafe, FilesInv
    <3>2. vacuum.version \in 1..n /\ n \in vacuum.version..n /\ w.began >= vacuum.cutoff
      BY <1>0, <2>2, <2>7, <3>1 DEF PlanSafe
    <3>3. CASE f \in FilesOf(log[n].live)
      BY <2>7, <3>1, <3>2, <3>3 DEF PlanSafe
    <3>4. CASE f \in Own(i)
      <4>1. f \in DOMAIN stored => stored[f] >= vacuum.cutoff
        BY <2>3, <3>2, <3>4
      <4>2. \A v \in 1..n : f \notin FilesOf(log[v].removes)
        BY <1>0, <3>1, <3>4 DEF NamesNew, NamedBy
      <4>3. \A v \in 1..vacuum.version : v \in 1..n
        BY <2>2, <3>2
      <4> QED BY <4>1, <4>2, <4>3 DEF Fresh
    <3> QED BY <2>3, <2>7, <3>3, <3>4
  <2>8. Committable(D, A, C, w.began)
    <3>1. \A f \in C : now <= stored[f] + OpTime
      BY <2>3, <2>4, <2>6
    <3> QED BY <2>2, <2>3, <2>4, <2>5, <2>6, <2>7, <3>1 DEF Committable
  <2>9. /\ writer'[i].pc = "done" /\ \A j \in Writer : j # i => writer'[j] = writer[j]
        /\ writer' \in [Writer -> WriterState]
    <3>1. [IdleWriter EXCEPT !.pc = "done"] \in WriterState
          /\ [IdleWriter EXCEPT !.pc = "done"].pc = "done"
      BY DEF IdleWriter, WriterState
    <3> QED BY <1>0, <3>1 DEF FilesSafe, FilesTyped
  <2>10. Beside(A, C)
    <3>1. ASSUME NEW j \in Writer, writer'[j].pc # "done"
          PROVE  writer'[j] = writer[j] /\ Own(j) \cap (FilesOf(A) \cup C) = {}
      <4>1. j # i /\ writer'[j] = writer[j]
        BY <2>9, <3>1
      <4>2. Own(j) \cap Own(i) = {}
        BY <4>1, NamesApart
      <4>3. Own(j) \cap FilesOf(log[n].live) = {}
        BY <2>2, <3>1, <4>1 DEF FilesSafe, FilesInv, NamesNew, NamedBy
      <4> QED BY <2>3, <4>1, <4>2, <4>3
    <3>2. Apart'
      BY <1>0 DEF FilesSafe, FilesInv, Apart, InFlight
    <3> QED BY <1>0, <3>1, <3>2 DEF Beside
  <2>11. Tombs(D, w.began) \in SUBSET TombEntries /\ live \in SUBSET Entries
    BY <2>2, TombsTyped
  <2>12. /\ Commits(e) /\ e.by = "write" /\ e.live = live /\ e.removes = Tombs(D, w.began)
         /\ e.cdc = C
    <3>1. "write" \in Fixes \cup {"write", "vacuum"} /\ C \in SUBSET CdcNames /\ 0 \in Nat /\ now' = now
      BY <1>0, <2>2
    <3>2. Inv /\ e = Entry("write", live, Tombs(D, w.began), C, 0)
      OBVIOUS
    <3> HIDE DEF live, D, C, w, e, Inv
    <3> QED BY <2>1, <2>11, <3>1, <3>2, EntryCommits
  <2>13. Adding(e, D, A, C, w.began) /\ Exact(e)
    BY <2>12 DEF Adding, Exact
  <2>14. FilesTyped' /\ InTime'
    BY <1>0, <2>9 DEF FilesSafe, FilesTyped, InTime, Timely
  <2> HIDE DEF e, D, A, C
  <2> QED BY <1>0, <2>8, <2>10, <2>12, <2>13, <2>14, CommitKept
<1> QED BY <1>1, <1>2

-----------------------------------------------------------------------------
(* RESTORE and REPAIR *)

\* The states a restore or repair begins and ends in.
LEMMA IdleFixTyped ==
    /\ IdleFix \in FixState /\ IdleFix.tries = 0 /\ IdleFix.adds = {} /\ IdleFix.drops = {}
    /\ [IdleFix EXCEPT !.pc = "done"] \in FixState
    /\ [IdleFix EXCEPT !.pc = "done"].pc = "done" /\ [IdleFix EXCEPT !.pc = "done"].tries = 0
<1>1. IdleFix \in FixState
  BY DEF IdleFix, FixState
<1>2. [IdleFix EXCEPT !.pc = "done"] \in FixState
  BY <1>1 DEF FixState
<1> QED BY <1>1, <1>2 DEF IdleFix

\* A restore or repair ends without a commit.
LEMMA FixGivesUp ==
    ASSUME Inv, UNCHANGED tableVars, UNCHANGED <<writer, vacuum>>,
           fix' \in FixState, fix'.pc = "done", fix'.tries <= Attempts
    PROVE  FilesSafe'
<1>1. FixReady' /\ Apart'
  BY DEF FixReady, Apart, InFlight
<1> QED BY <1>1, FixMoves DEF Inv

\* A restore or repair begins while no VACUUM runs.
LEMMA BeginFixKept == ASSUME Inv, ~Overlap, BeginFix PROVE Inv'
<1> USE DEF Inv
<1>1. PICK kind \in Fixes, t \in 1..Len(log) :
          fix' = [IdleFix EXCEPT !.pc = "plan", !.kind = kind, !.began = now,
                                 !.target = IF kind = "repair" THEN 0 ELSE t]
  BY DEF BeginFix, LastVersion, Fixes
<1>2. UNCHANGED logOps /\ UNCHANGED tableVars /\ UNCHANGED <<writer, vacuum>> /\ ~InFlight(vacuum)
      /\ now' = now
  BY DEF BeginFix, logOps, logFiles, tableVars
<1>3. HistorySafe'
  BY <1>2, HistoryUnchanged
<1>4. now \in Int /\ Len(log) \in Nat
  BY Numbers DEF HistorySafe, LogTyped
<1>5. /\ fix' \in FixState /\ fix'.pc = "plan" /\ fix'.kind = kind /\ fix'.began = now
      /\ fix'.target = IF kind = "repair" THEN 0 ELSE t
      /\ fix'.adds = {} /\ fix'.drops = {} /\ fix'.tries = 0
  <2>1. (IF kind = "repair" THEN 0 ELSE t) \in Nat
    BY <1>4
  <2> QED BY <1>1, <1>4, <2>1, IdleFixTyped DEF FixState
<1>6. FixReady' /\ Apart'
  <2>1. FixReady'
    <3>1. kind # "repair" => fix'.target \in 1..Len(log')
      BY <1>1, <1>2, <1>5 DEF tableVars
    <3>2. fix'.kind \in Fixes /\ (fix'.kind = "repair" => fix'.target = 0)
      BY <1>1, <1>5
    <3> QED BY <1>5, <3>1, <3>2 DEF FixReady
  <2>2. Apart'
    BY <1>2 DEF Apart, InFlight
  <2> QED BY <2>1, <2>2
<1>7. FilesSafe'
  BY <1>2, <1>5, <1>6, FixMoves, Numbers
<1> QED BY <1>3, <1>7

\* What a plan leaves when it is to be committed.
LEMMA PlanRestoreIs ==
    ASSUME Inv, fix.pc = "plan", fix.kind # "repair", PlanRestore,
           UNCHANGED tableVars, UNCHANGED <<writer, vacuum>>
    PROVE  FilesSafe'
<1> USE DEF Inv
<1> DEFINE n == Len(log)
           past == log[fix.target].live
           live == log[n].live
           back == past \ live
           adds == {z \in back : Gone({z}) = {}}
<1>0. /\ now \in Int /\ n \in Nat /\ n \in 1..n /\ fix \in FixState /\ fix.tries < Attempts
      /\ fix.target \in 1..n /\ fix.kind \in {"restore", "restore_present"}
      /\ past \subseteq Entries /\ live \subseteq Entries
  <2>1. now \in Int /\ n \in Nat /\ n \in 1..n /\ log \in Seq(Versions)
    BY Numbers, LastRetained DEF HistorySafe, LogTyped
  <2>2. fix \in FixState /\ fix.tries < Attempts /\ fix.target \in 1..n
        /\ fix.kind \in {"restore", "restore_present"}
    BY DEF FilesSafe, FilesTyped, FilesInv, FixReady, Fixes
  <2> QED BY <2>1, <2>2, VersionTypes
<1>1. CASE fix' = [IdleFix EXCEPT !.pc = "done"]
  BY <1>1, IdleFixTyped, FixGivesUp, Numbers
<1>2. CASE /\ ~(fix.kind = "restore" /\ Gone(back) # {})
           /\ fix' = [fix EXCEPT !.pc = "commit", !.base = n, !.began = now,
                                 !.drops = live \ past, !.adds = adds]
  <2>1. adds \subseteq past /\ adds \subseteq Entries /\ live \ past \subseteq Entries
    BY <1>0
  <2>2. fix.kind = "restore" => adds = back
    <3> SUFFICES ASSUME fix.kind = "restore", NEW z \in back PROVE Gone({z}) = {}
      OBVIOUS
    <3>1. Gone(back) = {}
      BY <1>2
    <3>2. FilesOf({z}) \subseteq FilesOf(back)
      BY FilesOfParts
    <3> QED BY <3>1, <3>2 DEF Gone
  <2>3. FilesOf(adds) \subseteq DOMAIN stored
    <3> SUFFICES ASSUME NEW f \in FilesOf(adds) PROVE f \in DOMAIN stored
      OBVIOUS
    <3>1. PICK z \in adds : f = z.file \/ (f = z.vector /\ f # None)
      BY InFilesOf
    <3>2. f \in FilesOf({z})
      BY <3>1, InFilesOf
    <3>3. Gone({z}) = {}
      OBVIOUS
    <3> QED BY <3>2, <3>3 DEF Gone
  <2>4. (live \ (live \ past)) \cup adds \subseteq past
        /\ (fix.kind = "restore" => (live \ (live \ past)) \cup adds = past)
    BY <2>1, <2>2
  <2> HIDE DEF adds, past, live
  <2>5. /\ fix' \in FixState /\ fix'.pc = "commit" /\ fix'.kind = fix.kind /\ fix'.began = now
        /\ fix'.target = fix.target /\ fix'.base = n /\ fix'.tries = fix.tries
        /\ fix'.adds = adds /\ fix'.drops = live \ past
    BY <1>0, <1>2, <2>1 DEF FixState
  <2>6. log' = log
    BY DEF tableVars
  <2>7. FixReady'
    <3>1. log'[fix'.base].live = live /\ log'[fix'.target].live = past
      BY <2>5, <2>6 DEF live, past
    <3>2. fix'.base \in 1..Len(log') /\ fix'.target \in 1..Len(log')
      BY <1>0, <2>5, <2>6
    <3>3. fix'.kind \in Fixes /\ fix'.kind # "repair"
      BY <1>0, <2>5 DEF Fixes
    <3>4. fix'.drops \subseteq live
      BY <2>5
    <3> QED BY <2>1, <2>4, <2>5, <3>1, <3>2, <3>3, <3>4 DEF FixReady
  <2>8. Apart'
    BY <2>5 DEF FilesSafe, FilesInv, Apart, InFlight
  <2>9. fix'.tries <= Attempts /\ fix'.tries < Attempts
    BY <1>0, <2>5, Numbers DEF FixState
  <2> QED BY <2>3, <2>5, <2>7, <2>8, <2>9, FixMoves
<1> QED BY <1>1, <1>2 DEF PlanRestore, Live, LastVersion

\* A repair drops the live files that are not in storage, and those are lost.
LEMMA PlanRepairIs ==
    ASSUME Inv, fix.pc = "plan", fix.kind = "repair", PlanRepair,
           UNCHANGED tableVars, UNCHANGED <<writer, vacuum>>
    PROVE  FilesSafe'
<1> USE DEF Inv
<1> DEFINE n == Len(log)
           missing == {z \in log[n].live : z.file \notin DOMAIN stored}
<1>0. /\ now \in Int /\ n \in Nat /\ n \in 1..n /\ Retained(n)
      /\ fix \in FixState /\ fix.tries < Attempts
      /\ fix.target = 0 /\ fix.adds = {} /\ log[n].live \subseteq Entries
  <2>1. now \in Int /\ n \in Nat /\ n \in 1..n /\ Retained(n) /\ log \in Seq(Versions)
    BY Numbers, LastRetained DEF HistorySafe, LogTyped
  <2>2. fix \in FixState /\ fix.tries < Attempts /\ fix.target = 0 /\ fix.adds = {}
    BY DEF FilesSafe, FilesTyped, FilesInv, FixReady
  <2> QED BY <2>1, <2>2, VersionTypes
<1>1. CASE fix' = [IdleFix EXCEPT !.pc = "done"]
  BY <1>1, IdleFixTyped, FixGivesUp, Numbers
<1>2. CASE fix' = [fix EXCEPT !.pc = "commit", !.base = n, !.began = now, !.drops = missing]
  <2>1. missing \subseteq log[n].live /\ missing \subseteq Entries
    BY <1>0
  <2>2. \A z \in missing : z.file \in lost
    <3>1. FilesOf(log[n].live) \subseteq DOMAIN stored \cup lost
      BY <1>0, Keeps DEF FilesSafe, FilesInv, FilesThere
    <3>2. \A z \in log[n].live : z.file \in FilesOf(log[n].live)
      BY InFilesOf
    <3> QED BY <3>1, <3>2
  <2> HIDE DEF missing
  <2>3. /\ fix' \in FixState /\ fix'.pc = "commit" /\ fix'.kind = "repair" /\ fix'.began = now
        /\ fix'.target = 0 /\ fix'.base = n /\ fix'.tries = fix.tries
        /\ fix'.adds = {} /\ fix'.drops = missing
    BY <1>0, <1>2, <2>1 DEF FixState
  <2>4. log' = log /\ lost' = lost
    BY DEF tableVars
  <2>5. FixReady'
    <3>1. fix'.base \in 1..Len(log') /\ fix'.kind \in Fixes /\ fix'.drops \subseteq log'[fix'.base].live
      BY <1>0, <2>1, <2>3, <2>4 DEF Fixes
    <3> QED BY <2>2, <2>3, <2>4, <3>1 DEF FixReady
  <2>6. Apart'
    BY <2>3 DEF FilesSafe, FilesInv, Apart, InFlight
  <2>7. FilesOf(fix'.adds) \subseteq DOMAIN stored \cup lost
    BY <2>3 DEF FilesOf
  <2>8. fix'.tries <= Attempts /\ fix'.tries < Attempts
    BY <1>0, <2>3, Numbers DEF FixState
  <2> QED BY <2>3, <2>5, <2>6, <2>7, <2>8, FixMoves
<1> QED BY <1>1, <1>2 DEF PlanRepair, Live, LastVersion

\* A plan of either keeps the invariant.
LEMMA PlanFixKept == ASSUME Inv, PlanFix PROVE Inv'
<1>1. UNCHANGED logOps /\ UNCHANGED tableVars /\ UNCHANGED <<writer, vacuum>> /\ now' = now
  BY DEF PlanFix, logOps, logFiles, tableVars
<1>2. HistorySafe'
  BY <1>1, HistoryUnchanged DEF Inv
<1>3. FilesSafe'
  <2>1. CASE fix.kind = "repair"
    BY <1>1, <2>1, PlanRepairIs DEF PlanFix
  <2>2. CASE fix.kind # "repair"
    BY <1>1, <2>2, PlanRestoreIs DEF PlanFix
  <2> QED BY <2>1, <2>2
<1> QED BY <1>2, <1>3 DEF Inv

\* A restore or repair commits on the version it was planned on, is planned again, or
\* ends.
LEMMA CommitFixKept == ASSUME Inv, CommitFix PROVE Inv'
<1> USE DEF Inv
<1> DEFINE n == Len(log)
<1>0. /\ fix.pc = "commit" /\ fix \in FixState /\ fix.tries < Attempts /\ fix.tries \in Nat
      /\ UNCHANGED <<scene, now, stored, lost, checkpoints, sidecars, writer, vacuum, cleaner, saving>>
      /\ now \in Int /\ n \in 1..n /\ log[n].live \subseteq Entries
  <2>1. now \in Int /\ n \in 1..n /\ log \in Seq(Versions)
    BY Numbers, LastRetained DEF HistorySafe, LogTyped
  <2>2. fix.pc = "commit" /\ fix \in FixState /\ fix.tries < Attempts /\ fix.tries \in Nat
    BY DEF CommitFix, FilesSafe, FilesTyped, FixState
  <2> QED BY <2>1, <2>2, VersionTypes DEF CommitFix
<1>1. CASE n # fix.base
  <2>1. /\ UNCHANGED <<log, commits>>
        /\ fix' = [fix EXCEPT !.pc = IF fix.tries + 1 < Attempts THEN "plan" ELSE "done",
                              !.tries = fix.tries + 1, !.began = now, !.adds = {}, !.drops = {}]
    BY <1>1 DEF CommitFix, LastVersion
  <2>2. UNCHANGED logOps /\ UNCHANGED tableVars /\ UNCHANGED <<writer, vacuum>> /\ now' = now
    BY <1>0, <2>1 DEF logOps, tableVars
  <2>3. HistorySafe'
    BY <2>2, HistoryUnchanged
  <2>4. /\ fix' \in FixState /\ fix'.pc = IF fix.tries + 1 < Attempts THEN "plan" ELSE "done"
        /\ fix'.tries = fix.tries + 1 /\ fix'.kind = fix.kind /\ fix'.target = fix.target
        /\ fix'.began = now /\ fix'.adds = {} /\ fix'.drops = {}
    <3> DEFINE p == IF fix.tries + 1 < Attempts THEN "plan" ELSE "done"
               t == fix.tries + 1
    <3>1. p \in {"idle", "plan", "commit", "done"} /\ t \in Nat
      BY <1>0
    <3>2. fix' = [fix EXCEPT !.pc = p, !.tries = t, !.began = now, !.adds = {}, !.drops = {}]
      BY <2>1
    <3> HIDE DEF p, t
    <3>3. /\ fix' \in FixState /\ fix'.pc = p /\ fix'.tries = t /\ fix'.kind = fix.kind
          /\ fix'.target = fix.target /\ fix'.began = now /\ fix'.adds = {} /\ fix'.drops = {}
      BY <1>0, <3>1, <3>2 DEF FixState
    <3> QED BY <3>3 DEF p, t
  <2>5. FixReady'
    <3>1. FixReady /\ log' = log
      BY <2>1 DEF FilesSafe, FilesInv
    <3> QED BY <1>0, <2>4, <3>1 DEF FixReady
  <2>6. Apart'
    BY <1>0, <2>4 DEF FilesSafe, FilesInv, Apart, InFlight
  <2>7. /\ fix'.tries <= Attempts /\ (fix'.pc \in {"idle", "plan", "commit"} => fix'.tries < Attempts)
        /\ fix'.pc # "commit"
    BY <1>0, <2>4, Numbers
  <2>8. FilesSafe'
    BY <2>2, <2>4, <2>5, <2>6, <2>7, FixMoves
  <2> QED BY <2>3, <2>8
<1>2. CASE n = fix.base
  <2> DEFINE D == fix.drops
             A == fix.adds
             live == (log[n].live \ D) \cup A
             e == Entry(fix.kind, live, Tombs(D, fix.began), {}, fix.target)
  <2>1. Commit(e) /\ fix' = [IdleFix EXCEPT !.pc = "done"]
    BY <1>2 DEF CommitFix, LastVersion, Live
  <2>2. D \subseteq Entries /\ A \subseteq Entries /\ fix.began \in Int /\ fix.target \in Nat
    BY <1>0 DEF FixState
  <2>3. FixReady /\ InTime /\ FilesThere
    BY DEF FilesSafe, FilesInv
  <2>4. /\ D \subseteq log[n].live /\ fix.kind \in Fixes
        /\ fix.kind = "repair" => A = {} /\ \A z \in D : z.file \in lost
        /\ fix.kind # "repair" => fix.target \in 1..n
        /\ fix.kind = "restore" => live = log[fix.target].live
        /\ fix.kind = "restore_present" => live \subseteq log[fix.target].live
    BY <1>0, <1>2, <2>3 DEF FixReady
  <2>5. vacuum.doomed = {} /\ vacuum.pc # "plan"
    BY <1>0 DEF FilesSafe, FilesInv, Apart, DoomedSafe, InFlight
  <2>6. now <= fix.began + OpTime
    BY <1>0, <2>3 DEF InTime, Timely
  <2>7. FilesOf(A) \subseteq DOMAIN stored \cup lost
    BY <1>0, <2>3 DEF FilesThere
  <2>8. Committable(D, A, {}, fix.began)
    BY <2>2, <2>4, <2>5, <2>6, <2>7 DEF Committable
  <2>9. Tombs(D, fix.began) \in SUBSET TombEntries /\ live \in SUBSET Entries
    BY <1>0, <2>2, TombsTyped
  <2>10. /\ Commits(e) /\ e.by = fix.kind /\ e.live = live /\ e.removes = Tombs(D, fix.began)
         /\ e.cdc = {} /\ e.target = fix.target
    <3>1. /\ fix.kind \in Fixes \cup {"write", "vacuum"} /\ {} \in SUBSET CdcNames
          /\ fix.target \in Nat /\ now' = now
      BY <1>0, <2>2, <2>4
    <3>2. Inv /\ e = Entry(fix.kind, live, Tombs(D, fix.began), {}, fix.target)
      OBVIOUS
    <3> HIDE DEF live, D, e, Inv
    <3> QED BY <2>1, <2>9, <3>1, <3>2, EntryCommits
  <2>11. Adding(e, D, A, {}, fix.began)
    BY <2>10 DEF Adding
  <2>12. Exact(e)
    <3>1. fix.kind \in {"restore", "restore_present", "repair"}
      BY <2>4 DEF Fixes
    <3>2. fix.kind = "repair" => live \subseteq log[n].live /\ \A z \in log[n].live \ live : z.file \in lost
      BY <2>4
    <3> HIDE DEF live, e
    <3> QED BY <2>4, <2>10, <3>1, <3>2 DEF Exact
  <2>13. Beside(A, {})
    <3>1. ASSUME NEW j \in Writer, writer'[j].pc # "done"
          PROVE  writer'[j] = writer[j] /\ Own(j) \cap (FilesOf(A) \cup {}) = {}
      <4>1. writer' = writer /\ NamesNew
        BY <1>0 DEF FilesSafe, FilesInv
      <4>2. CASE fix.kind = "repair"
        BY <2>4, <4>1, <4>2 DEF FilesOf
      <4>3. CASE fix.kind # "repair"
        <5>1. A \subseteq log[fix.target].live /\ fix.target \in 1..n
          BY <1>0, <2>3, <2>4, <4>3 DEF FixReady
        <5>2. FilesOf(A) \subseteq FilesOf(log[fix.target].live)
          BY <5>1, FilesOfParts
        <5>3. Own(j) \cap FilesOf(log[fix.target].live) = {}
          BY <3>1, <4>1, <5>1 DEF NamesNew, NamedBy
        <5> QED BY <4>1, <5>2, <5>3
      <4> QED BY <4>2, <4>3
    <3>2. fix'.pc = "done"
      BY <2>1, IdleFixTyped
    <3>3. Apart'
      BY <3>2 DEF Apart, InFlight
    <3> QED BY <1>0, <3>1, <3>2, <3>3 DEF Beside
  <2>14. FilesTyped' /\ InTime'
    BY <1>0, <2>1, IdleFixTyped, Numbers DEF FilesSafe, FilesTyped, InTime, Timely
  <2> HIDE DEF e, D, A
  <2> QED BY <1>0, <2>8, <2>10, <2>11, <2>12, <2>13, <2>14, CommitKept
<1> QED BY <1>1, <1>2

-----------------------------------------------------------------------------
(* VACUUM *)

\* The state a VACUUM begins in.
LEMMA IdleVacuumTyped ==
    IdleVacuum \in VacuumState /\ IdleVacuum.doomed = {}
BY DEF IdleVacuum, VacuumState

\* A VACUUM ends: nothing is left to delete.
LEMMA VacuumEnds ==
    ASSUME Inv, UNCHANGED tableVars, UNCHANGED <<writer, fix>>, vacuum' = VacuumAt("done")
    PROVE  FilesSafe'
<1>1. vacuum' \in VacuumState /\ vacuum'.pc = "done" /\ vacuum'.doomed = {}
  BY IdleVacuumTyped DEF VacuumAt, VacuumState
<1>2. PlanSafe' /\ DoomedSafe' /\ Apart'
  BY <1>1 DEF PlanSafe, DoomedSafe, Apart, InFlight
<1> QED BY <1>1, <1>2, VacuumMoves DEF Inv

\* A VACUUM begins: every writer in flight began after its cutoff.
LEMMA BeginVacuumKept == ASSUME Inv, ~Overlap, BeginVacuum PROVE Inv'
<1> USE DEF Inv
<1> DEFINE n == Len(log)
<1>1. PICK asked \in Asked, lite \in BOOLEAN :
          /\ asked >= Retention
          /\ vacuum' = [IdleVacuum EXCEPT !.pc = "plan", !.lite = lite,
                                          !.version = n, !.cutoff = now - asked]
  BY DEF BeginVacuum, LastVersion
<1>2. UNCHANGED logOps /\ UNCHANGED tableVars /\ UNCHANGED <<writer, fix>> /\ ~InFlight(fix)
      /\ now' = now
  BY DEF BeginVacuum, logOps, logFiles, tableVars
<1>3. HistorySafe'
  BY <1>2, HistoryUnchanged
<1>4. now \in Int /\ n \in Nat /\ n \in 1..n /\ asked \in Nat
  BY <1>1, Numbers, LastRetained, ConstantsAssumption DEF HistorySafe, LogTyped
<1>5. /\ vacuum' \in VacuumState /\ vacuum'.pc = "plan" /\ vacuum'.version = n
      /\ vacuum'.cutoff = now - asked /\ vacuum'.doomed = {}
  <2>1. now - asked \in Int
    BY <1>4
  <2> QED BY <1>1, <1>4, <2>1, IdleVacuumTyped DEF VacuumState
<1>6. PlanSafe'
  <2>1. log' = log /\ now' = now /\ writer' = writer
    BY <1>2 DEF tableVars
  <2>2. ASSUME NEW i \in Writer, writer[i].pc = "commit" PROVE writer[i].began >= vacuum'.cutoff
    <3>1. Timely(writer[i]) /\ writer[i].began \in Int
      BY <2>2 DEF FilesSafe, InTime, FilesTyped, WriterState
    <3> QED BY <1>1, <1>4, <1>5, <3>1, Numbers DEF Timely
  <2>3. \A v \in n..n : v = n
    BY <1>4
  <2> QED BY <1>4, <1>5, <2>1, <2>2, <2>3 DEF PlanSafe
<1>7. DoomedSafe'
  BY <1>5 DEF DoomedSafe
<1>8. Apart'
  BY <1>2 DEF Apart, InFlight
<1>9. vacuum'.cutoff + Retention <= now
  BY <1>1, <1>4, <1>5, Numbers
<1>10. FilesSafe'
  BY <1>2, <1>5, <1>6, <1>7, <1>8, <1>9, VacuumMoves
<1> QED BY <1>3, <1>10

\* A tombstone is in a version of the log.
LEMMA TombstonesIn ==
    ASSUME NEW v, NEW P, P \subseteq Tombstones(v), NEW f \in FilesOf(P)
    PROVE  \E u \in 1..v : f \in FilesOf(log[u].removes)
<1>1. PICK t \in P : f = t.file \/ (f = t.vector /\ f # None)
  BY InFilesOf
<1>2. PICK u \in 1..v : t \in log[u].removes
  BY <1>1 DEF Tombstones
<1> QED BY <1>1, <1>2, InFilesOf

\* What a VACUUM finds: listed files and those of expired removes, less what is
\* referenced.
Dooms(f) ==
    /\ f \in DOMAIN stored
    /\ \/ ~vacuum.lite /\ stored[f] < vacuum.cutoff
       \/ vacuum.lite /\ \E u \in 1..vacuum.version : f \in FilesOf(log[u].removes)
    /\ f \notin Referenced(vacuum.version, vacuum.cutoff)

\* What was written since the VACUUM began is not found.
LEMMA FreshIsSpared ==
    ASSUME NEW f, Dooms(f), Fresh(f), vacuum.cutoff \in Int, FilesTyped PROVE FALSE
BY DEF Dooms, Fresh, FilesTyped

\* A file of a kept version is not found: it is live, fresh, or protected by the
\* remove that took it out of the table.
LEMMA KeptIsSpared ==
    ASSUME Inv, vacuum.pc = "plan", NEW u \in 1..Len(log), Retained(u),
           NEW f \in FilesOf(log[u].live), Dooms(f)
    PROVE  FALSE
<1> USE DEF Inv
<1> DEFINE n == Len(log)
           v == vacuum.version
<1>0. /\ now \in Int /\ n \in Nat /\ n \in 1..n /\ log \in Seq(Versions) /\ v \in 1..n
      /\ vacuum.cutoff \in Int /\ vacuum.cutoff + Retention <= now /\ PlanSafe
      /\ Ordered(log, now) /\ Chain(log) /\ TombsTimely(log)
  BY Numbers, LastRetained DEF HistorySafe, LogTyped, FilesSafe, FilesTyped, VacuumState, InTime,
     FilesInv, PlanSafe
<1>1. f \notin FilesOf(log[v].live)
  BY DEF Dooms, Referenced, Live
<1>2. CASE u >= v
  <2>1. u \in v..n
    BY <1>0, <1>2
  <2>2. Fresh(f)
    BY <1>0, <1>1, <2>1 DEF PlanSafe
  <2> QED BY <1>0, <2>2, FreshIsSpared DEF FilesSafe
<1>3. CASE u < v
  <2>1. PICK z \in log[u].live : f = z.file \/ (f = z.vector /\ f # None)
    BY InFilesOf
  <2>2. z \notin log[v].live
    BY <1>1, <2>1, InFilesOf
  <2>3. PICK w \in u+1..v : \E t \in log[w].removes : t.file = z.file /\ t.vector = z.vector
    <3>1. u \in 1..n /\ v \in 1..n /\ u <= v
      BY <1>0, <1>3
    <3>2. Chain(log) /\ z \in log[u].live /\ z \notin log[v].live
      BY <1>0, <2>1, <2>2
    <3> HIDE DEF v, n
    <3> QED BY <3>1, <3>2 DEF Chain, n
  <2>4. PICK t \in log[w].removes : t.file = z.file /\ t.vector = z.vector
    BY <2>3
  <2>5. w \in 1..v /\ w \in 1..n /\ u + 1 \in 1..n /\ u + 1 <= w /\ u # n
    BY <1>0, <1>3
  <2>6. log[w].time \in Int /\ log[u + 1].time \in Int /\ t.at \in Int
    <3>1. log[w].removes \subseteq TombEntries
      BY <1>0, <2>5, VersionTypes
    <3> QED BY <1>0, <2>4, <2>5, <3>1, VersionTypes DEF TombEntries
  <2>7. log[u + 1].time <= log[w].time /\ log[w].time <= t.at + OpTime
    BY <1>0, <2>4, <2>5 DEF Ordered, TombsTimely
  <2>8. now - log[u + 1].time <= Retention - OpTime
    BY <2>5 DEF Retained, SupersededAt, LastVersion
  <2>9. t.at >= now - Retention
    <3>1. now \in Int
      BY <1>0
    <3>2. \A a, b, c \in Int : a <= b /\ b <= c + OpTime /\ now - a <= Retention - OpTime
                              => c >= now - Retention
      BY <3>1, Numbers
    <3> QED BY <2>6, <2>7, <2>8, <3>2
  <2>10. t.at >= vacuum.cutoff
    BY <1>0, <2>6, <2>9, Numbers
  <2>11. t \in Tombstones(v)
    <3>1. \A c \in SegmentStart(v) : t.at >= c.at - Retention
      <4>1. \A c \in checkpoints : c.at \in Int /\ c.at <= now
        BY DEF HistorySafe, LogTyped, CheckpointState, FilesSafe, InTime
      <4>2. SegmentStart(v) \subseteq checkpoints
        BY DEF SegmentStart
      <4>3. \A c \in SegmentStart(v) : c.at \in Int /\ c.at <= now
        BY <4>1, <4>2
      <4>4. t.at \in Int /\ now \in Int /\ Retention \in Int
        BY <1>0, <2>6, Numbers
      <4> QED BY <2>9, <4>3, <4>4
    <3> QED BY <2>4, <2>5, <3>1 DEF Tombstones
  <2>12. f \in FilesOf({s \in Tombstones(v) : s.at >= vacuum.cutoff})
    <3>1. t \in {s \in Tombstones(v) : s.at >= vacuum.cutoff}
      BY <2>10, <2>11
    <3> QED BY <2>1, <2>4, <3>1, InFilesOf
  <2> QED BY <2>12 DEF Dooms, Referenced
<1> QED BY <1>0, <1>2, <1>3

\* Nor is the change data of a recent version, ...
LEMMA RecentIsSpared ==
    ASSUME Inv, vacuum.pc = "plan", NEW u \in 1..Len(log), Recent(u),
           NEW f \in log[u].cdc, Dooms(f)
    PROVE  FALSE
<1> USE DEF Inv
<1>0. /\ now \in Int /\ log \in Seq(Versions) /\ vacuum.version \in 1..Len(log)
      /\ vacuum.cutoff \in Int /\ vacuum.cutoff + Retention <= now
      /\ CdcTimely(log, stored) /\ log[u].time \in Int /\ log[u].cdc \subseteq CdcNames
      /\ Len(log) \in Nat
  <2>1. log \in Seq(Versions) /\ now \in Int
    BY Numbers DEF HistorySafe, LogTyped
  <2> QED BY <2>1, VersionTypes DEF FilesSafe, FilesTyped, VacuumState, InTime, FilesInv, PlanSafe
<1>1. CASE vacuum.lite
  <2>1. PICK w \in 1..vacuum.version : f \in FilesOf(log[w].removes)
    BY <1>1 DEF Dooms
  <2>2. w \in 1..Len(log)
    BY <1>0
  <2>3. log[w].removes \subseteq TombEntries
    BY <1>0, <2>2, VersionTypes
  <2> QED BY <1>0, <2>1, <2>3, FilesOfTyped, NamesApart
<1>2. CASE ~vacuum.lite
  <2>1. f \in DOMAIN stored /\ stored[f] < vacuum.cutoff /\ stored[f] \in Int
    BY <1>2 DEF Dooms, FilesSafe, FilesTyped
  <2>2. log[u].time <= stored[f] + OpTime
    BY <1>0, <2>1 DEF CdcTimely
  <2>3. now - log[u].time <= Retention - OpTime
    BY DEF Recent
  <2>4. /\ now \in Int /\ log[u].time \in Int /\ vacuum.cutoff \in Int
        /\ vacuum.cutoff + Retention <= now /\ Retention \in Int /\ OpTime \in Int
    BY <1>0, Numbers
  <2> QED BY <2>1, <2>2, <2>3, <2>4
<1> QED BY <1>1, <1>2

\* ... nor what a writer stored and is about to commit.
LEMMA StagedIsSpared ==
    ASSUME Inv, vacuum.pc = "plan", NEW i \in Writer, writer[i].pc = "commit",
           NEW f \in Own(i), Dooms(f)
    PROVE  FALSE
<1> USE DEF Inv
<1>0. /\ Len(log) \in Nat /\ vacuum.version \in 1..Len(log) /\ vacuum.cutoff \in Int
      /\ writer[i].began >= vacuum.cutoff /\ writer[i].began \in Int
      /\ \A g \in Own(i) \cap DOMAIN stored : stored[g] = writer[i].began
      /\ \A v \in 1..Len(log) : Own(i) \cap NamedBy(log, v) = {}
  BY DEF HistorySafe, LogTyped, FilesSafe, FilesTyped, VacuumState, WriterState, FilesInv,
     PlanSafe, WriterReady, NamesNew
<1>1. \A v \in 1..vacuum.version : v \in 1..Len(log)
  BY <1>0
<1>2. Fresh(f)
  BY <1>0, <1>1 DEF Fresh, NamedBy
<1> QED BY <1>0, <1>2, FreshIsSpared DEF FilesSafe

\* So what a VACUUM plans to delete is safe to delete.
LEMMA PlanVacuumKept == ASSUME Inv, PlanVacuum PROVE Inv'
<1> USE DEF Inv
<1> DEFINE v       == vacuum.version
           expired == FilesOf({t \in Tombstones(v) : t.at < vacuum.cutoff})
           listed  == {f \in DOMAIN stored : stored[f] < vacuum.cutoff}
           doomed  == (IF vacuum.lite THEN expired \cap DOMAIN stored ELSE listed)
                         \ Referenced(v, vacuum.cutoff)
<1>1. /\ vacuum.pc = "plan"
      /\ vacuum' = IF doomed = {} THEN VacuumAt("done")
                   ELSE [VacuumAt("start") EXCEPT !.doomed = doomed]
  BY DEF PlanVacuum
<1>2. UNCHANGED logOps /\ UNCHANGED tableVars /\ UNCHANGED <<writer, fix>> /\ now' = now
  BY DEF PlanVacuum, logOps, logFiles, tableVars
<1>3. HistorySafe'
  BY <1>2, HistoryUnchanged
<1>4. \A f \in doomed : Dooms(f)
  <2> SUFFICES ASSUME NEW f \in doomed PROVE Dooms(f)
    OBVIOUS
  <2>1. f \in DOMAIN stored /\ f \notin Referenced(v, vacuum.cutoff)
    OBVIOUS
  <2>2. CASE vacuum.lite
    <3>1. f \in expired
      BY <2>2
    <3>2. {t \in Tombstones(v) : t.at < vacuum.cutoff} \subseteq Tombstones(v)
      OBVIOUS
    <3>3. \E u \in 1..v : f \in FilesOf(log[u].removes)
      BY <3>1, <3>2, TombstonesIn
    <3> QED BY <2>1, <2>2, <3>3 DEF Dooms
  <2>3. CASE ~vacuum.lite
    BY <2>1, <2>3 DEF Dooms
  <2> QED BY <2>2, <2>3
<1> HIDE DEF doomed
<1>5. doomed \subseteq DOMAIN stored /\ DOMAIN stored \subseteq Names
  BY <1>4 DEF Dooms, FilesSafe, FilesTyped
<1>6. CASE doomed = {}
  BY <1>1, <1>2, <1>3, <1>6, VacuumEnds
<1>7. CASE doomed # {}
  <2>1. /\ vacuum' \in VacuumState /\ vacuum'.pc = "start" /\ vacuum'.doomed = doomed
    <3>1. vacuum \in VacuumState /\ VacuumAt("start") = [vacuum EXCEPT !.pc = "start"]
      BY DEF FilesSafe, FilesTyped, VacuumAt
    <3>2. VacuumAt("start") \in VacuumState /\ VacuumAt("start").pc = "start"
      BY <3>1 DEF VacuumState
    <3>3. vacuum' = [VacuumAt("start") EXCEPT !.doomed = doomed]
      BY <1>1, <1>7
    <3>4. doomed \in SUBSET Names
      BY <1>5
    <3> HIDE DEF VacuumAt
    <3> QED BY <3>2, <3>3, <3>4 DEF VacuumState
  <2>2. UNCHANGED <<log, now, stored, lost, writer>>
    BY <1>2 DEF tableVars
  <2>3. \A u : (Retained(u)' <=> Retained(u)) /\ (Recent(u)' <=> Recent(u))
    BY <2>2 DEF Retained, Recent, SupersededAt, LastVersion
  <2>4. ASSUME NEW u \in 1..Len(log)
        PROVE  /\ Retained(u) => doomed \cap FilesOf(log[u].live) = {}
               /\ Recent(u) => doomed \cap log[u].cdc = {}
    <3>1. ASSUME Retained(u), NEW f \in doomed, f \in FilesOf(log[u].live) PROVE FALSE
      BY <1>1, <1>4, <3>1, KeptIsSpared
    <3>2. ASSUME Recent(u), NEW f \in doomed, f \in log[u].cdc PROVE FALSE
      BY <1>1, <1>4, <3>2, RecentIsSpared
    <3> QED BY <3>1, <3>2
  <2>5. ASSUME NEW i \in Writer, writer[i].pc = "commit"
        PROVE  /\ writer[i].base = Len(log) => doomed \cap FilesOf(writer[i].adds) = {}
               /\ doomed \cap writer[i].cdc = {}
    <3>1. ASSUME NEW f \in doomed, f \in Own(i) PROVE FALSE
      BY <1>1, <1>4, <2>5, <3>1, StagedIsSpared
    <3>2. writer[i].cdc \subseteq Own(i)
          /\ FilesOf(writer[i].adds) \subseteq FilesOf(log[writer[i].base].live) \cup Own(i)
      BY <2>5 DEF FilesSafe, FilesInv, WriterReady
    <3>3. doomed \cap FilesOf(log[Len(log)].live) = {}
      BY <2>4, LastRetained
    <3> QED BY <3>1, <3>2, <3>3
  <2>6. DoomedSafe'
    BY <2>1, <2>2, <2>3, <2>4, <2>5 DEF DoomedSafe
  <2>7. PlanSafe' /\ Apart'
    BY <1>1, <1>2, <2>1 DEF PlanSafe, FilesSafe, FilesInv, Apart, InFlight
  <2>8. FilesSafe'
    BY <1>2, <1>5, <2>1, <2>6, <2>7, VacuumMoves
  <2> QED BY <1>3, <2>8
<1> QED BY <1>6, <1>7

\* VACUUM START and VACUUM END are versions that change nothing.
LEMMA AnnounceKept ==
    ASSUME Inv, NEW from, NEW to, Announce(from, to),
           \/ from = "start" /\ to = "delete"
           \/ from = "end" /\ to = "done"
    PROVE  Inv'
<1> USE DEF Inv
<1> DEFINE n == Len(log)
           live == log[n].live
           e == Entry("vacuum", live, {}, {}, 0)
<1>0. /\ vacuum.pc = from /\ vacuum \in VacuumState
      /\ UNCHANGED <<scene, now, stored, lost, checkpoints, sidecars, writer, fix, cleaner, saving>>
      /\ now \in Int /\ n \in 1..n /\ live \subseteq Entries
  <2>1. now \in Int /\ n \in 1..n /\ log \in Seq(Versions) /\ vacuum \in VacuumState
    BY Numbers, LastRetained DEF HistorySafe, LogTyped, FilesSafe, FilesTyped
  <2> QED BY <2>1, VersionTypes DEF Announce
<1>1. CASE vacuum' = VacuumAt("done") /\ UNCHANGED <<log, commits>>
  <2>1. UNCHANGED logOps /\ UNCHANGED tableVars
    BY <1>0, <1>1 DEF logOps, tableVars
  <2>2. HistorySafe'
    BY <1>0, <2>1, HistoryUnchanged
  <2> QED BY <1>0, <1>1, <2>1, <2>2, VacuumEnds
<1>2. CASE Commit(e) /\ vacuum' = VacuumAt(to)
  <2>1. /\ vacuum' \in VacuumState /\ vacuum'.pc = to /\ vacuum'.doomed \subseteq vacuum.doomed
        /\ vacuum'.doomed # {} => vacuum'.pc \in {"start", "delete"}
    <3>1. CASE from = "start" /\ to = "delete"
      <4>1. vacuum' = [vacuum EXCEPT !.pc = "delete"]
        BY <1>2, <3>1 DEF VacuumAt
      <4> QED BY <1>0, <3>1, <4>1 DEF VacuumState
    <3>2. CASE from = "end" /\ to = "done"
      <4>1. vacuum' = [IdleVacuum EXCEPT !.pc = "done"]
        BY <1>2, <3>2 DEF VacuumAt
      <4> QED BY <3>2, <4>1, IdleVacuumTyped DEF VacuumState
    <3> QED BY <3>1, <3>2
  <2>2. Committable({}, {}, {}, now)
    BY <1>0, Numbers DEF Committable, FilesOf
  <2>3. Beside({}, {})
    <3>1. vacuum.pc # "plan" /\ InFlight(vacuum) /\ vacuum'.pc # "plan"
      BY <1>0, <2>1 DEF InFlight
    <3>2. Apart'
      BY <1>0, <3>1 DEF FilesSafe, FilesInv, Apart, InFlight
    <3> QED BY <1>0, <2>1, <3>1, <3>2 DEF Beside, FilesOf
  <2>4. Commits(e) /\ e.by = "vacuum" /\ e.live = live /\ e.removes = {} /\ e.cdc = {}
    <3>1. /\ "vacuum" \in Fixes \cup {"write", "vacuum"} /\ {} \in SUBSET CdcNames
          /\ {} \in SUBSET TombEntries /\ live \in SUBSET Entries /\ 0 \in Nat /\ now' = now
      BY <1>0
    <3>2. Inv /\ Commit(e) /\ e = Entry("vacuum", live, {}, {}, 0)
      BY <1>2
    <3> HIDE DEF live, e, Inv
    <3> QED BY <3>1, <3>2, EntryCommits
  <2>5. Adding(e, {}, {}, {}, now) /\ Exact(e)
    <3>1. Tombs({}, now) = {} /\ (live \ {}) \cup {} = live
      BY DEF Tombs
    <3> QED BY <2>4, <3>1 DEF Adding, Exact
  <2>6. FilesTyped' /\ InTime'
    <3>1. vacuum'.pc # "plan"
      BY <2>1
    <3> QED BY <1>0, <2>1, <3>1 DEF FilesSafe, FilesTyped, InTime, Timely
  <2> HIDE DEF e
  <2> QED BY <1>0, <2>2, <2>3, <2>4, <2>5, <2>6, CommitKept
<1> QED BY <1>1, <1>2 DEF Announce, Live, LastVersion

-----------------------------------------------------------------------------
(* The theorems *)

\* The invariant holds initially, ...
LEMMA InitHolds == Init => Inv
<1> SUFFICES ASSUME Init PROVE Inv
  OBVIOUS
<1> DEFINE first == [by |-> "write", time |-> 0, removes |-> {}, cdc |-> {}, target |-> 0,
                     live |-> {[file |-> f, vector |-> None] : f \in Initial}]
<1>0. /\ log = <<first>> /\ now = 0 /\ stored = [f \in Initial |-> 0] /\ lost = {}
      /\ commits = {1} /\ checkpoints = {} /\ sidecars = <<>>
      /\ writer = [i \in Writer |-> IdleWriter] /\ fix = IdleFix /\ vacuum = IdleVacuum
      /\ saving = IdleSaving /\ cleaner = [c \in Cleaner |-> IdleCleaner] /\ scene \in Scenes
  BY DEF Init
<1>1. /\ first \in Versions /\ first.by = "write" /\ first.time = 0 /\ first.removes = {}
      /\ first.cdc = {} /\ FilesOf(first.live) \subseteq Initial
  <2>1. \A z \in first.live : z \in Entries /\ z.file \in Initial /\ z.vector = None
    BY DEF Entries, DataNames
  <2>2. FilesOf(first.live) \subseteq Initial
    BY <2>1 DEF FilesOf
  <2>3. first.live \in SUBSET Entries
    BY <2>1
  <2>4. first \in Versions
    <3> DEFINE L == {[file |-> f, vector |-> None] : f \in Initial}
    <3>1. L \in SUBSET Entries
      BY <2>3
    <3>2. first = [by |-> "write", time |-> 0, removes |-> {}, cdc |-> {}, target |-> 0, live |-> L]
      OBVIOUS
    <3> HIDE DEF L, first
    <3> QED BY <3>1, <3>2 DEF Versions
  <2> QED BY <2>2, <2>4
<1> HIDE DEF first
<1>2. /\ Len(log) = 1 /\ log[1] = first /\ log \in Seq(Versions)
      /\ DOMAIN sidecars = {} /\ DOMAIN stored = Initial
      /\ \A v \in 1..1 : v = 1
  BY <1>0, <1>1
<1>3. /\ IdleWriter \in WriterState /\ IdleWriter.pc = "idle"
      /\ IdleCleaner \in CleanerState /\ IdleCleaner.keys = {} /\ IdleCleaner.batch = {}
      /\ IdleSaving \in SavingState /\ IdleSaving.pc = "idle"
      /\ IdleFix \in FixState /\ IdleFix.pc = "idle" /\ IdleFix.tries = 0
      /\ IdleVacuum \in VacuumState /\ IdleVacuum.pc = "idle" /\ IdleVacuum.doomed = {}
  BY DEF IdleWriter, WriterState, IdleCleaner, CleanerState, IdleSaving, SavingState,
     IdleFix, FixState, IdleVacuum, VacuumState
<1>4. HistorySafe
  <2>1. LogTyped
    BY <1>0, <1>2, <1>3, Numbers DEF LogTyped
  <2>2. Ordered(log, now)
    BY <1>0, <1>1, <1>2 DEF Ordered
  <2>3. Checkpoints
    BY <1>0, <1>3 DEF Checkpoints
  <2>4. Base(0)
    BY <1>0, <1>2, <1>3 DEF Base
  <2> QED BY <1>0, <1>3, <2>1, <2>2, <2>3, <2>4 DEF HistorySafe
<1>5. FilesTyped
  BY <1>0, <1>2, <1>3, Numbers DEF FilesTyped, Names, DataNames
<1>6. InTime
  BY <1>0, <1>3 DEF InTime
<1>7. FixExact
  BY <1>2 DEF FixExact, LastVersion
<1>8. FilesInv
  <2>1. Chain(log) /\ TombsTimely(log) /\ CdcTimely(log, stored) /\ Targets(log)
    BY <1>1, <1>2 DEF Chain, TombsTimely, CdcTimely, Targets
  <2>2. NamesNew
    <3>1. \A i \in Writer : Own(i) \cap Initial = {}
      BY NamesAssumption DEF Own
    <3>2. NamedBy(log, 1) \subseteq Initial
      BY <1>1, <1>2 DEF NamedBy, FilesOf
    <3> QED BY <1>0, <1>2, <3>1, <3>2 DEF NamesNew
  <2>3. WriterReady /\ FixReady /\ PlanSafe /\ Apart
    BY <1>0, <1>3 DEF WriterReady, FixReady, PlanSafe, Apart, InFlight
  <2>4. FilesThere
    <3>1. RetainedFiles
      BY <1>1, <1>2, Keeps
    <3> QED BY <1>0, <1>3, <3>1 DEF FilesThere
  <2>5. DoomedSafe
    BY <1>0, <1>3 DEF DoomedSafe
  <2> QED BY <2>1, <2>2, <2>3, <2>4, <2>5 DEF FilesInv
<1> QED BY <1>4, <1>5, <1>6, <1>7, <1>8 DEF Inv, FilesSafe

\* A step on the log alone: a checkpoint or a cleanup.
LEMMA LogStepKept ==
    ASSUME Inv, HistorySafe', UNCHANGED fileVars, checkpoints' \subseteq checkpoints PROVE Inv'
<1>1. \A c \in checkpoints' : c.at <= now
  BY DEF Inv, FilesSafe, InTime
<1> QED BY <1>1, LogStepKeepsFiles DEF Inv

\* ... is kept by every step ...
LEMMA NextKeeps == ASSUME Inv, ~Overlap, [Next]_vars PROVE Inv'
<1>0. HistorySafe
  BY DEF Inv
<1>1. CASE Tick
  BY <1>1, TickKept
<1>2. CASE LoseFile
  BY <1>2, LoseFileKept
<1>3. ASSUME NEW i \in Writer, StageWrite(i) PROVE Inv'
  BY <1>3, StageWriteKept
<1>4. ASSUME NEW i \in Writer, CommitWrite(i) PROVE Inv'
  BY <1>4, CommitWriteKept
<1>5. CASE BeginFix
  BY <1>5, BeginFixKept
<1>6. CASE PlanFix
  BY <1>6, PlanFixKept
<1>7. CASE CommitFix
  BY <1>7, CommitFixKept
<1>8. CASE BeginVacuum
  BY <1>8, BeginVacuumKept
<1>9. CASE PlanVacuum
  BY <1>9, PlanVacuumKept
<1>10. CASE StartVacuum
  BY <1>10, AnnounceKept DEF StartVacuum
<1>11. CASE EndVacuum
  BY <1>11, AnnounceKept DEF EndVacuum
<1>12. CASE DeleteFile
  BY <1>12, DeleteFileKept
<1>13. CASE BeginCheckpoint
  <2>1. UNCHANGED fileVars /\ checkpoints' = checkpoints
    BY <1>13 DEF BeginCheckpoint, fileVars
  <2> QED BY <1>0, <1>13, <2>1, BeginCheckpointKept, LogStepKept
<1>14. CASE PutCheckpoint
  <2>1. UNCHANGED fileVars
    BY <1>14 DEF PutCheckpoint, fileVars
  <2>2. now \in Int
    BY <1>0, Numbers DEF HistorySafe, LogTyped
  <2>3. \A c \in checkpoints' : c.at <= now
    BY <1>14, <2>2 DEF PutCheckpoint, Inv, FilesSafe, InTime
  <2> QED BY <1>0, <1>14, <2>1, <2>3, PutCheckpointKept, LogStepKeepsFiles DEF Inv
<1>15. ASSUME NEW c \in Cleaner, PlanCleanup(c) PROVE Inv'
  <2>1. UNCHANGED fileVars /\ checkpoints' = checkpoints
    BY <1>15 DEF PlanCleanup, fileVars, logFiles
  <2> QED BY <1>0, <1>15, <2>1, PlanCleanupKept, LogStepKept
<1>16. ASSUME NEW c \in Cleaner, NextBatch(c) PROVE Inv'
  <2>1. UNCHANGED fileVars /\ checkpoints' = checkpoints
    BY <1>16 DEF NextBatch, fileVars, logFiles
  <2> QED BY <1>0, <1>16, <2>1, NextBatchKept, LogStepKept
<1>17. ASSUME NEW c \in Cleaner, DeleteLogFile(c) PROVE Inv'
  <2>1. UNCHANGED fileVars /\ checkpoints' \subseteq checkpoints
    BY <1>17 DEF DeleteLogFile, fileVars
  <2> QED BY <1>0, <1>17, <2>1, DeleteLogFileKept, LogStepKept
<1>18. CASE UNCHANGED vars
  <2>1. UNCHANGED fileVars /\ UNCHANGED logOps /\ checkpoints' = checkpoints /\ now' = now
    BY <1>18 DEF vars, fileVars, logOps
  <2>2. HistorySafe'
    BY <1>0, <2>1, HistoryUnchanged
  <2> QED BY <2>1, <2>2, LogStepKept
<1> QED BY <1>1, <1>2, <1>3, <1>4, <1>5, <1>6, <1>7, <1>8, <1>9, <1>10, <1>11, <1>12, <1>13,
           <1>14, <1>15, <1>16, <1>17, <1>18 DEF Next

\* ... and always holds.
LEMMA InvHolds == ~Overlap => (Spec => []Inv)
<1> SUFFICES ASSUME ~Overlap PROVE Spec => []Inv
  OBVIOUS
<1>1. Inv /\ [Next]_vars => Inv'
  BY NextKeeps
<1> QED BY <1>1, InitHolds, PTL DEF Spec

\* What is kept follows from the invariant.
LEMMA InvImplies == Inv => HistoryKept /\ FixExact
<1> SUFFICES ASSUME Inv PROVE HistoryKept /\ FixExact
  OBVIOUS
<1>1. TypeOK
  <2>1. LogTyped /\ FilesTyped /\ Checkpoints
    BY DEF Inv, HistorySafe, FilesSafe
  <2>2. fix.tries \in 0..Attempts
    BY <2>1, Numbers DEF FilesTyped, FixState
  <2> QED BY <2>1, <2>2 DEF TypeOK, LogTyped, FilesTyped, Checkpoints, LastVersion
<1>2. RetainedHistory /\ CommitPossible
  BY HistoryFollows DEF Inv
<1> QED BY <1>1, <1>2 DEF HistoryKept, Inv, FilesSafe, FilesInv, FilesThere

\* However writers, VACUUM (full and LITE), log cleanups that fail half-way,
\* checkpoints, RESTORE and REPAIR interleave, and whatever is lost by hand: every
\* version within the retentions can be built from the log and has its data files,
\* deletion vectors and change data, and the next commit finds its predecessor, as
\* long as no RESTORE or REPAIR runs beside a VACUUM (engine/kernel.py vacuum,
\* restore, repair; vacuum.rs; logclean.rs).
THEOREM HistoryAlwaysKept == ~Overlap => (Spec => []HistoryKept)
BY InvHolds, InvImplies, PTL

\* A RESTORE gives the target's files, a REPAIR removes only lost ones and VACUUM's
\* own versions change nothing, under the same condition, however often they are
\* planned again after another writer was first.
THEOREM FixesExact == ~Overlap => (Spec => []FixExact)
BY InvHolds, InvImplies, PTL
=============================================================================
