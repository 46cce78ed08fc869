------------------------ MODULE DistributedWriteProofs ------------------------
(***************************************************************************)
(* Proofs about DistributedWrite, for any number of plans, calls, retries  *)
(* and versions, and for every setting.                                    *)
(***************************************************************************)
EXTENDS DistributedWrite, TLAPS

-----------------------------------------------------------------------------
(* Types *)

\* What is known of a setting (the assumption on Settings, for the one in force).
SettingKept == setting \in Settings

\* The setting in force is well formed.
LEMMA SettingTyped ==
    ASSUME SettingKept
    PROVE  /\ managed \in BOOLEAN
           /\ Empty \subseteq Plan /\ KeepFiles \subseteq Plan
           /\ setting.catalog \subseteq Plan /\ setting.lastWriterWins \subseteq Overwrites
BY ConstantsAssumption DEF SettingKept, managed, Empty, KeepFiles

\* What a plan commits is a commit record.
LEMMA RecordTyped ==
    ASSUME SettingKept, NEW p \in Plan
    PROVE  /\ Record(p) \in CommitRecord
           /\ Record(p).by = p /\ Record(p).txn = TxnOf[p]
           /\ Record(p).adds = Files(p) /\ Record(p).layout = FALSE
BY DEF Record, CommitRecord, Files

\* Initially every variable has its type.
LEMMA InitTyped == Init => TypeOK /\ SettingKept
<1> SUFFICES ASSUME Init PROVE TypeOK /\ SettingKept
  OBVIOUS
<1> USE ConstantsAssumption
<1>1. log \in Seq(CommitRecord)
  BY DEF Init
<1> HIDE DEF CommitRecord
<1> QED BY <1>1 DEF Init, TypeOK, SettingKept

\* No step breaks a type or changes the setting.
LEMMA NextTyped ==
    ASSUME TypeOK, SettingKept, [Next]_vars
    PROVE  TypeOK' /\ SettingKept' /\ setting' = setting
<1>1. setting' = setting
  BY DEF Next, vars
<1>2. SettingKept' /\ CommitRecord' = CommitRecord
  BY <1>1 DEF SettingKept, CommitRecord, TxnOf
<1>3. \A p \in Plan : Record(p) \in CommitRecord
  BY RecordTyped
<1>4. LastVersion \in Nat
  BY DEF TypeOK, LastVersion
<1>5. \A p \in Plan : FreshTail(p) \in Nat /\ Latest(tail[p]) \in Nat
  BY <1>4 DEF FreshTail, Latest, TypeOK
<1> HIDE DEF CommitRecord, Record
<1>6. CASE UNCHANGED vars
  BY <1>6, <1>2 DEF vars, TypeOK
<1>7. ASSUME NEW p \in Plan, Step(p) PROVE TypeOK'
  <2> USE <1>2, <1>4 DEF TypeOK, Goto, Finish, world
  <2>1. CASE PlanWrite(p)
    BY <2>1 DEF PlanWrite
  <2>2. CASE WriteFiles(p)
    BY <2>2 DEF WriteFiles, Files
  <2>3. CASE CommitCall(p)
    <3>1. calls' \in [Plan -> 0..MaxCalls] /\ attempt' \in [Plan -> 0..Retries]
      BY <2>3, ConstantsAssumption DEF CommitCall
    <3>2. \/ Finish(p, "refused") \/ Finish(p, "empty")
          \/ pc' = [pc EXCEPT ![p] = "attempt"] /\ result' = [result EXCEPT ![p] = "none"]
      BY <2>3 DEF CommitCall
    <3> QED BY <2>3, <3>1, <3>2 DEF CommitCall
  <2>4. CASE Attempt(p)
    BY <2>4, <1>5 DEF Attempt
  <2>5. CASE CheckMoved(p)
    BY <2>5 DEF CheckMoved
  <2>6. CASE Snapshot(p)
    BY <2>6, <1>5 DEF Snapshot
  <2>7. CASE SendCommits(p)
    <3>1. log' \in Seq(CommitRecord)
      BY <2>7, <1>3 DEF SendCommits
    <3> QED BY <2>7, <3>1 DEF SendCommits
  <2>8. CASE SendRefused(p)
    BY <2>8 DEF SendRefused
  <2>9. CASE Publish(p)
    <3>1. published' \in Nat /\ (Goto(p, "reread") \/ Finish(p, "backfill"))
      BY <2>9 DEF Publish, Max2
    <3> QED BY <2>9, <3>1 DEF Publish
  <2>10. CASE Reread(p)
    BY <2>10, <1>5 DEF Reread
  <2>11. CASE Unanswered(p)
    <3>1. attempt' \in [Plan -> 0..Retries]
      <4>1. CASE attempt[p] < Retries /\ attempt' = [attempt EXCEPT ![p] = attempt[p] + 1]
        BY <4>1, ConstantsAssumption
      <4>2. CASE attempt' = attempt
        BY <4>2
      <4> QED BY <2>11, <4>1, <4>2 DEF Unanswered
    <3>2. Goto(p, "attempt") \/ Finish(p, "unknown")
      BY <2>11 DEF Unanswered
    <3> QED BY <2>11, <3>1, <3>2 DEF Unanswered
  <2>12. CASE Conflict(p)
    <3>1. attempt' \in [Plan -> 0..Retries]
      <4>1. CASE attempt[p] < Retries /\ attempt' = [attempt EXCEPT ![p] = attempt[p] + 1]
        BY <4>1, ConstantsAssumption
      <4>2. CASE attempt' = attempt
        BY <4>2
      <4> QED BY <2>12, <4>1, <4>2 DEF Conflict
    <3>2. Goto(p, "attempt") \/ Goto(p, "certain")
      BY <2>12 DEF Conflict
    <3> QED BY <2>12, <3>1, <3>2 DEF Conflict
  <2>13. CASE CertainFailure(p)
    BY <2>13 DEF CertainFailure
  <2>14. CASE AbortCheck(p)
    BY <2>14, <1>5 DEF AbortCheck
  <2>15. CASE Delete(p)
    BY <2>15 DEF Delete
  <2> QED BY <1>7, <2>1, <2>2, <2>3, <2>4, <2>5, <2>6, <2>7, <2>8, <2>9, <2>10, <2>11, <2>12,
             <2>13, <2>14, <2>15 DEF Step
<1>8. ASSUME NEW p \in Plan, Fail(p) \/ AbortCall(p) PROVE TypeOK'
  <2> USE <1>2, <1>4 DEF TypeOK, Goto, Finish, world
  <2>1. Request(p) \in [plan : Plan, at : Nat]
    BY DEF Request
  <2>2. CASE CannotTell(p)
    BY <2>2 DEF CannotTell
  <2>3. CASE SendUnanswered(p)
    BY <2>3, <2>1 DEF SendUnanswered
  <2>4. CASE Crash(p)
    BY <2>4, <2>1 DEF Crash
  <2>5. CASE AbortCall(p)
    <3>1. MaxCalls \in 0..MaxCalls
      BY ConstantsAssumption
    <3>2. calls' \in [Plan -> 0..MaxCalls]
      BY <2>5, <3>1 DEF AbortCall
    <3>3. pc' = [pc EXCEPT ![p] = "abort"] /\ UNCHANGED result
      BY <2>5 DEF AbortCall
    <3>4. UNCHANGED <<log, published, store, inflight, version, tail, base, attempt, backfilled>>
      BY <2>5 DEF AbortCall
    <3> QED BY <3>2, <3>3, <3>4
  <2> QED BY <1>8, <2>2, <2>3, <2>4, <2>5 DEF Fail
<1>9. ASSUME NEW r \in inflight, LandLate(r) PROVE TypeOK'
  <2>1. r.plan \in Plan
    BY DEF TypeOK
  <2>2. Record(r.plan) \in CommitRecord
    BY <1>3, <2>1
  <2>3. log' \in Seq(CommitRecord)
    BY <1>9, <2>2 DEF LandLate, TypeOK
  <2>4. inflight' \subseteq [plan : Plan, at : Nat]
    BY <1>9 DEF LandLate, TypeOK
  <2>5. UNCHANGED <<published, store, pc, version, tail, base, attempt, calls, backfilled,
                    result>>
    BY <1>9 DEF LandLate
  <2> QED BY <1>2, <2>3, <2>4, <2>5 DEF TypeOK
<1>10. ASSUME OtherCommit PROVE TypeOK'
  <2>1. \A l \in BOOLEAN :
          [by |-> Other, txn |-> NoTxn, adds |-> {}, layout |-> l] \in CommitRecord
    BY DEF CommitRecord
  <2>2. log' \in Seq(CommitRecord)
    <3>1. PICK l \in BOOLEAN :
            log' = Append(log, [by |-> Other, txn |-> NoTxn, adds |-> {}, layout |-> l])
      BY <1>10 DEF OtherCommit
    <3> QED BY <2>1, <3>1 DEF TypeOK
  <2>3. UNCHANGED <<published, store, inflight, pc, version, tail, base, attempt, calls,
                    backfilled, result>>
    BY <1>10 DEF OtherCommit
  <2> QED BY <1>2, <2>2, <2>3 DEF TypeOK
<1> QED BY <1>1, <1>2, <1>6, <1>7, <1>8, <1>9, <1>10 DEF Next
-----------------------------------------------------------------------------
(* The log: what a version holds, seen through one parameter, the log, so that *)
(* the same facts serve the state before and after a step.                     *)

TxnIn(l, t, v) == t # NoTxn /\ \E i \in 1..v : l[i].txn = t
LayoutIn(l, v) == Cardinality({i \in 1..v : l[i].layout})
LandedIn(l, p) == \E v \in 1..Len(l) : l[v].adds = {p}

\* Where a plan is before its files are written: no request of it can exist.
Before == {"new", "refused", "write"}

\* A plan that commits on the planned version or not at all: a guarded overwrite,
\* and a plan that cannot read the catalog's tail again.
Pinned(p) == Guarded(p) \/ (managed /\ p \notin setting.catalog)

\* A version holds what its plan writes, after the version the plan was made at.
LogShape ==
    \A v \in 1..LastVersion :
        /\ log[v].by = Other => log[v].adds = {} /\ log[v].txn = NoTxn
        /\ \A p \in Plan :
              log[v].by = p => /\ log[v].adds = Files(p) /\ log[v].txn = TxnOf[p]
                               /\ pc[p] \notin Before /\ version[p] < v

\* What a driver knows of the table is never ahead of it.
VersionsBehind ==
    \A p \in Plan :
        /\ version[p] <= tail[p] /\ tail[p] <= LastVersion
        /\ base[p] <= Latest(tail[p])
        /\ managed /\ p \notin setting.catalog => tail[p] = version[p]

\* A snapshot a commit is about to be built on has the plan's layout and not its
\* txn; only a guarded overwrite asks whether the table moved.
SendReady ==
    \A p \in Plan :
        /\ pc[p] = "send" =>
              /\ version[p] <= base[p]
              /\ ~TxnIn(log, TxnOf[p], base[p])
              /\ p \in Empty \/ LayoutIn(log, base[p]) = LayoutIn(log, version[p])
              /\ Pinned(p) => base[p] = version[p]
        /\ pc[p] = "moved" => Guarded(p)

\* So has the snapshot a request under way was built on.
InflightReady ==
    \A r \in inflight :
        /\ pc[r.plan] \notin Before
        /\ version[r.plan] < r.at /\ r.at <= base[r.plan] + 1
        /\ ~TxnIn(log, TxnOf[r.plan], r.at - 1)
        /\ r.plan \in Empty \/ LayoutIn(log, r.at - 1) = LayoutIn(log, version[r.plan])
        /\ Pinned(r.plan) => r.at = version[r.plan] + 1

\* The caller was told, or is about to be told, that nothing was committed.
GivenUp(p) ==
    \/ pc[p] \in {"conflict", "certain", "abort", "delete"}
    \/ pc[p] = "idle" /\ result[p] \in {"none", "failed"}

\* Then no request of the plan can take effect any more.
NoneUnderWay == \A r \in inflight : GivenUp(r.plan) => r.at <= LastVersion

\* The files may still be committed.
Needed(p) ==
    \/ pc[p] \in {"attempt", "moved", "snapshot", "send", "publish", "reread", "unknown",
                  "conflict", "certain"}
    \/ pc[p] = "idle" /\ result[p] \in {"none", "unknown", "unreachable", "crashed", "backfill"}
    \/ pc[p] = "idle" /\ result[p] = "failed" /\ p \in KeepFiles /\ calls[p] < MaxCalls

\* Files that may still be committed are in storage.
FilesKept ==
    /\ \A p \in Plan \ Empty : Needed(p) => p \in store
    /\ \A p \in Plan : pc[p] \in {"abort", "delete"} => p \notin KeepFiles \/ calls[p] = MaxCalls
    /\ \A r \in inflight : r.at > LastVersion => r.plan \in store \cup Empty

\* Files about to be deleted are in no version.
DeletesUnlanded == \A p \in Plan : pc[p] = "delete" => ~LandedIn(log, p)

\* Everything the safety of the log rests on.
SafeInv ==
    /\ TypeOK /\ SettingKept /\ LogShape /\ VersionsBehind /\ SendReady /\ InflightReady
    /\ NoneUnderWay /\ FilesKept /\ DeletesUnlanded

\* A plan that sees every commit, and whose requests do not outlive their answer.
Sees(p) == "late" \notin Faults /\ (managed => p \in setting.catalog)

\* Where a driver has looked for the files and not found them.
Looked(p) ==
    \/ pc[p] \in Before \cup {"moved", "snapshot", "send", "publish", "reread", "conflict",
                              "certain", "abort", "delete"}
    \/ pc[p] = "idle" /\ result[p] \in {"none", "failed", "refused"}

\* Then they are in no version, and a success was seen in one.
LookedInv ==
    /\ "late" \notin Faults => inflight = {}
    /\ \A p \in Plan \ Empty :
          /\ Sees(p) /\ Looked(p) => ~LandedIn(log, p)
          /\ result[p] \in {"failed", "refused"} => pc[p] \in {"idle", "abort", "delete"}
          /\ result[p] = "committed" => LandedIn(log, p)

\* The log m is l with one more version, r.
Extension(l, r, m) ==
    /\ Len(m) = Len(l) + 1 /\ m[Len(l) + 1] = r
    /\ \A i \in 1..Len(l) : m[i] = l[i]
    /\ \A t : \A v \in 0..Len(l) : TxnIn(m, t, v) <=> TxnIn(l, t, v)
    /\ \A v \in 0..Len(l) : LayoutIn(m, v) = LayoutIn(l, v)
    /\ r.layout = FALSE => LayoutIn(m, Len(l) + 1) = LayoutIn(l, Len(l))
    /\ \A p : LandedIn(m, p) <=> LandedIn(l, p) \/ r.adds = {p}

\* Appending a version leaves the ones before it as they were.
LEMMA AppendFacts ==
    ASSUME NEW S, NEW l \in Seq(S), NEW r \in S
    PROVE  Extension(l, r, Append(l, r))
<1> DEFINE m == Append(l, r)
<1>1. /\ Len(m) = Len(l) + 1 /\ m[Len(l) + 1] = r /\ Len(l) \in Nat
      /\ \A i \in 1..Len(l) : m[i] = l[i]
  OBVIOUS
<1> HIDE DEF m
<1>2. \A t : \A v \in 0..Len(l) : TxnIn(m, t, v) <=> TxnIn(l, t, v)
  <2> SUFFICES ASSUME NEW t, NEW v \in 0..Len(l) PROVE TxnIn(m, t, v) <=> TxnIn(l, t, v)
    OBVIOUS
  <2>1. \A i \in 1..v : m[i] = l[i]
    BY <1>1
  <2> QED BY <2>1 DEF TxnIn
<1>3. \A v \in 0..Len(l) : LayoutIn(m, v) = LayoutIn(l, v)
  <2> SUFFICES ASSUME NEW v \in 0..Len(l) PROVE LayoutIn(m, v) = LayoutIn(l, v)
    OBVIOUS
  <2>1. {i \in 1..v : m[i].layout} = {i \in 1..v : l[i].layout}
    BY <1>1
  <2> QED BY <2>1 DEF LayoutIn
<1>4. ASSUME r.layout = FALSE PROVE LayoutIn(m, Len(l) + 1) = LayoutIn(l, Len(l))
  <2>1. {i \in 1..(Len(l) + 1) : m[i].layout} = {i \in 1..Len(l) : l[i].layout}
    BY <1>1, <1>4
  <2> QED BY <2>1 DEF LayoutIn
<1>5. \A p : LandedIn(m, p) <=> LandedIn(l, p) \/ r.adds = {p}
  <2> SUFFICES ASSUME NEW p PROVE LandedIn(m, p) <=> LandedIn(l, p) \/ r.adds = {p}
    OBVIOUS
  <2>1. ASSUME NEW v \in 1..Len(m), m[v].adds = {p} PROVE LandedIn(l, p) \/ r.adds = {p}
    BY <1>1, <2>1 DEF LandedIn
  <2>2. ASSUME NEW v \in 1..Len(l), l[v].adds = {p} PROVE LandedIn(m, p)
    <3>1. v \in 1..Len(m) /\ m[v].adds = {p}
      BY <1>1, <2>2
    <3> QED BY <3>1 DEF LandedIn
  <2>3. ASSUME r.adds = {p} PROVE LandedIn(m, p)
    <3>1. Len(l) + 1 \in 1..Len(m) /\ m[Len(l) + 1].adds = {p}
      BY <1>1, <2>3
    <3> QED BY <3>1 DEF LandedIn
  <2> QED BY <2>1, <2>2, <2>3 DEF LandedIn
<1>6. Extension(l, r, m)
  BY <1>1, <1>2, <1>3, <1>4, <1>5 DEF Extension
<1> QED BY <1>6 DEF m

\* The operators of the specification, in these terms.
LEMMA LogTerms ==
    /\ \A t, v : Recorded(t, v) <=> TxnIn(log, t, v)
    /\ \A v : Layout(v) = LayoutIn(log, v)
BY DEF Recorded, Layout, TxnIn, LayoutIn

\* The commit records of the plan p and of a writer outside the plans.
OtherRecord(l) == [by |-> Other, txn |-> NoTxn, adds |-> {}, layout |-> l]

\* What a step can do to the log: nothing, or append one commit.
LogStep ==
    \/ log' = log
    \/ \E p \in Plan : SendCommits(p) /\ log' = Append(log, Record(p))
    \/ \E r \in inflight : LandLate(r) /\ log' = Append(log, Record(r.plan))
    \/ OtherCommit /\ \E l \in BOOLEAN : log' = Append(log, OtherRecord(l))

\* Every step does one of these, and a plan is made once, before it writes.
LEMMA Frame ==
    ASSUME TypeOK, SettingKept, [Next]_vars
    PROVE  /\ \A q \in Plan : pc'[q] \in Before => pc[q] \in Before
           /\ \A q \in Plan : pc[q] \notin Before => version'[q] = version[q]
           /\ LogStep
<1> DEFINE Kept == /\ \A q \in Plan : pc'[q] \in Before => pc[q] \in Before
                   /\ \A q \in Plan : pc[q] \notin Before => version'[q] = version[q]
<1>2. ASSUME NEW p \in Plan, Step(p), ~SendCommits(p) PROVE Kept /\ log' = log
  <2> USE DEF TypeOK, Goto, Finish, world, Before
  <2>1. CASE PlanWrite(p)
    BY <2>1 DEF PlanWrite
  <2>2. CASE WriteFiles(p)
    BY <2>2 DEF WriteFiles
  <2>3. CASE CommitCall(p)
    BY <2>3 DEF CommitCall
  <2>4. CASE Attempt(p)
    BY <2>4 DEF Attempt
  <2>5. CASE CheckMoved(p)
    BY <2>5 DEF CheckMoved
  <2>6. CASE Snapshot(p)
    BY <2>6 DEF Snapshot
  <2>8. CASE SendRefused(p)
    BY <2>8 DEF SendRefused
  <2>9. CASE Publish(p)
    BY <2>9 DEF Publish
  <2>10. CASE Reread(p)
    BY <2>10 DEF Reread
  <2>11. CASE Unanswered(p)
    BY <2>11 DEF Unanswered
  <2>12. CASE Conflict(p)
    BY <2>12 DEF Conflict
  <2>13. CASE CertainFailure(p)
    BY <2>13 DEF CertainFailure
  <2>14. CASE AbortCheck(p)
    BY <2>14 DEF AbortCheck
  <2>15. CASE Delete(p)
    BY <2>15 DEF Delete
  <2> QED BY <1>2, <2>1, <2>2, <2>3, <2>4, <2>5, <2>6, <2>8, <2>9, <2>10, <2>11, <2>12,
             <2>13, <2>14, <2>15 DEF Step
<1>3. ASSUME NEW p \in Plan, SendCommits(p) PROVE Kept /\ log' = Append(log, Record(p))
  BY <1>3 DEF SendCommits, Goto, Finish, Before, TypeOK
<1>4. ASSUME NEW p \in Plan, Fail(p) \/ AbortCall(p) PROVE Kept /\ log' = log
  <2> USE DEF TypeOK, Goto, Finish, world, Before
  <2>1. CASE CannotTell(p)
    BY <2>1 DEF CannotTell
  <2>2. CASE SendUnanswered(p)
    BY <2>2 DEF SendUnanswered
  <2>3. CASE Crash(p)
    BY <2>3 DEF Crash
  <2>4. CASE AbortCall(p)
    BY <2>4 DEF AbortCall
  <2> QED BY <1>4, <2>1, <2>2, <2>3, <2>4 DEF Fail
<1>5. ASSUME NEW r \in inflight, LandLate(r) PROVE Kept /\ log' = Append(log, Record(r.plan))
  BY <1>5 DEF LandLate
<1>6. ASSUME OtherCommit
      PROVE  Kept /\ \E l \in BOOLEAN : log' = Append(log, OtherRecord(l))
  BY <1>6 DEF OtherCommit, OtherRecord
<1> HIDE DEF Kept
<1>7. Kept /\ LogStep
  <2>1. CASE UNCHANGED vars
    BY <2>1 DEF Kept, vars, LogStep
  <2>2. CASE Next
    BY <2>2, <1>2, <1>3, <1>4, <1>5, <1>6 DEF Next, LogStep
  <2> QED BY <2>1, <2>2
<1> QED BY <1>7 DEF Kept

\* The setting is fixed, and so is everything that only depends on it.
LEMMA SettingSame ==
    ASSUME setting' = setting
    PROVE  /\ managed' = managed /\ Empty' = Empty /\ KeepFiles' = KeepFiles /\ TxnOf' = TxnOf
           /\ Faults' = Faults /\ setting.catalog' = setting.catalog
           /\ \A p \in Plan : /\ (Guarded(p)' <=> Guarded(p)) /\ (Pinned(p)' <=> Pinned(p))
                              /\ Files(p)' = Files(p) /\ (Rereads(p)' <=> Rereads(p))
BY DEF managed, Empty, KeepFiles, TxnOf, Faults, Guarded, Pinned, Files, Rereads

\* The log only grows, and what was said of an old version stays true.
LEMMA LogGrows ==
    ASSUME TypeOK, SettingKept, [Next]_vars
    PROVE  /\ LastVersion \in Nat /\ LastVersion' \in Nat
           /\ LastVersion <= LastVersion' /\ LastVersion' <= LastVersion + 1
           /\ \A i \in 1..LastVersion : log'[i] = log[i]
           /\ \A t : \A v \in 0..LastVersion : TxnIn(log', t, v) <=> TxnIn(log, t, v)
           /\ \A v \in 0..LastVersion : LayoutIn(log', v) = LayoutIn(log, v)
           /\ \A p : LandedIn(log, p) => LandedIn(log', p)
<1>0. log \in Seq(CommitRecord) /\ Len(log) \in Nat
  BY DEF TypeOK
<1>1. CASE log' = log
  BY <1>0, <1>1 DEF LastVersion
<1>2. ASSUME NEW r \in CommitRecord, log' = Append(log, r)
      PROVE  /\ LastVersion \in Nat /\ LastVersion' \in Nat
             /\ LastVersion <= LastVersion' /\ LastVersion' <= LastVersion + 1
             /\ \A i \in 1..LastVersion : log'[i] = log[i]
             /\ \A t : \A v \in 0..LastVersion : TxnIn(log', t, v) <=> TxnIn(log, t, v)
             /\ \A v \in 0..LastVersion : LayoutIn(log', v) = LayoutIn(log, v)
             /\ \A p : LandedIn(log, p) => LandedIn(log', p)
  <2> HIDE DEF CommitRecord
  <2>1. Extension(log, r, log')
    BY <1>0, <1>2, AppendFacts
  <2> QED BY <1>0, <2>1 DEF Extension, LastVersion
<1>3. \A p \in Plan : Record(p) \in CommitRecord
  BY RecordTyped
<1>4. \A l \in BOOLEAN : OtherRecord(l) \in CommitRecord
  BY DEF OtherRecord, CommitRecord
<1>5. \A r \in inflight : r.plan \in Plan
  BY DEF TypeOK
<1>6. LogStep
  BY Frame
<1>7. log' = log \/ \E r \in CommitRecord : log' = Append(log, r)
  BY <1>3, <1>4, <1>5, <1>6 DEF LogStep
<1> QED BY <1>1, <1>2, <1>7

\* A version a plan lands at comes after the version it was planned at.
LEMMA LogShapeStep ==
    ASSUME SafeInv, [Next]_vars
    PROVE  LogShape'
<1> USE DEF SafeInv
<1>0. log \in Seq(CommitRecord) /\ Len(log) \in Nat
  BY DEF TypeOK
<1>1. setting' = setting
  BY NextTyped
<1>2. TxnOf' = TxnOf /\ \A p \in Plan : Files(p)' = Files(p)
  BY <1>1, SettingSame
<1>3. /\ \A q \in Plan : pc'[q] \in Before => pc[q] \in Before
      /\ \A q \in Plan : pc[q] \notin Before => version'[q] = version[q]
      /\ LogStep
  BY Frame
<1>4. /\ LastVersion \in Nat /\ LastVersion' \in Nat
      /\ LastVersion <= LastVersion' /\ LastVersion' <= LastVersion + 1
      /\ \A i \in 1..LastVersion : log'[i] = log[i]
  BY LogGrows
<1> DEFINE Shape(v) ==
      /\ log'[v].by = Other => log'[v].adds = {} /\ log'[v].txn = NoTxn
      /\ \A p \in Plan :
            log'[v].by = p => /\ log'[v].adds = Files(p) /\ log'[v].txn = TxnOf[p]
                              /\ pc'[p] \notin Before /\ version'[p] < v
<1>5. \A v \in 1..LastVersion : Shape(v)
  BY <1>3, <1>4 DEF LogShape
<1>6. ASSUME NEW p \in Plan, log' = Append(log, Record(p)),
             pc'[p] \notin Before, version'[p] <= LastVersion
      PROVE  Shape(LastVersion + 1)
  <2>1. log'[LastVersion + 1] = Record(p)
    BY <1>0, <1>6 DEF LastVersion
  <2>2. version'[p] < LastVersion + 1
    <3>1. TypeOK'
      BY NextTyped
    <3>2. version'[p] \in Nat
      BY <3>1 DEF TypeOK
    <3> QED BY <1>4, <1>6, <3>2
  <2>3. /\ Record(p).by = p /\ Record(p).adds = Files(p) /\ Record(p).txn = TxnOf[p]
        /\ p # Other
    BY RecordTyped, ConstantsAssumption
  <2> HIDE DEF Shape
  <2>4. log'[LastVersion + 1].by # Other
    BY <2>1, <2>3
  <2>5. ASSUME NEW q \in Plan, log'[LastVersion + 1].by = q PROVE q = p
    BY <2>1, <2>3, <2>5
  <2> QED BY <2>1, <2>2, <2>3, <2>4, <2>5, <1>6 DEF Shape
<1>7. LastVersion' = LastVersion + 1 => Shape(LastVersion + 1)
  <2>1. CASE log' = log
    BY <2>1, <1>4 DEF LastVersion
  <2>2. ASSUME NEW p \in Plan, SendCommits(p), log' = Append(log, Record(p))
        PROVE  Shape(LastVersion + 1)
    <3>1. version[p] <= LastVersion /\ version' = version
      BY <2>2 DEF SendReady, SendCommits
    <3>2. pc'[p] \notin Before
      BY <2>2 DEF SendCommits, Goto, Finish, Before, TypeOK
    <3> QED BY <1>6, <2>2, <3>1, <3>2
  <2>3. ASSUME NEW r \in inflight, LandLate(r), log' = Append(log, Record(r.plan))
        PROVE  Shape(LastVersion + 1)
    <3>1. r.plan \in Plan /\ r.at \in Nat /\ version[r.plan] \in Nat
      BY DEF TypeOK
    <3>2. version' = version /\ pc' = pc /\ r.at = LastVersion + 1
      BY <2>3 DEF LandLate
    <3>3. version[r.plan] < r.at /\ pc[r.plan] \notin Before
      BY DEF InflightReady
    <3>4. pc'[r.plan] \notin Before /\ version'[r.plan] <= LastVersion
      BY <1>4, <3>1, <3>2, <3>3
    <3> HIDE DEF Shape
    <3> QED BY <1>6, <2>3, <3>1, <3>4
  <2>4. ASSUME NEW l \in BOOLEAN, log' = Append(log, OtherRecord(l))
        PROVE  Shape(LastVersion + 1)
    <3>1. log'[LastVersion + 1] = OtherRecord(l)
      BY <1>0, <2>4 DEF LastVersion
    <3> QED BY <3>1, ConstantsAssumption DEF OtherRecord
  <2> QED BY <1>3, <2>1, <2>2, <2>3, <2>4 DEF LogStep
<1>8. \A v \in 1..LastVersion' : Shape(v)
  <2> HIDE DEF Shape
  <2>1. \A v \in 1..LastVersion' :
           v \in 1..LastVersion \/ (v = LastVersion + 1 /\ LastVersion' = LastVersion + 1)
    BY <1>4
  <2> QED BY <1>5, <1>7, <2>1
<1> QED BY <1>2, <1>8 DEF LogShape

\* No driver gets ahead of the table.
LEMMA VersionsStep ==
    ASSUME SafeInv, [Next]_vars
    PROVE  VersionsBehind'
<1> USE DEF SafeInv
<1>1. setting' = setting
  BY NextTyped
<1>2. /\ LastVersion \in Nat /\ LastVersion' \in Nat /\ LastVersion <= LastVersion'
  BY LogGrows
<1>3. managed \in BOOLEAN
  BY SettingTyped
<1>4. /\ version \in [Plan -> Nat] /\ tail \in [Plan -> Nat] /\ base \in [Plan -> Nat]
  BY DEF TypeOK
<1> USE <1>1, <1>2, <1>3, <1>4 DEF VersionsBehind, Latest, managed
<1>5. CASE UNCHANGED <<version, tail, base>>
  BY <1>5
<1>6. ASSUME NEW p \in Plan, PlanWrite(p) PROVE VersionsBehind'
  BY <1>6 DEF PlanWrite, world, LastVersion
<1>7. ASSUME NEW p \in Plan, tail' = [tail EXCEPT ![p] = FreshTail(p)],
             UNCHANGED <<version, base>>
      PROVE  VersionsBehind'
  BY <1>7 DEF FreshTail, Rereads
<1>8. ASSUME NEW p \in Plan, Snapshot(p) PROVE VersionsBehind'
  <2>1. /\ UNCHANGED <<version, tail>>
        /\ \E v \in {version[p], Latest(tail[p])} : base' = [base EXCEPT ![p] = v]
    BY <1>8 DEF Snapshot
  <2> QED BY <2>1
<1>9. \/ UNCHANGED <<version, tail, base>>
      \/ \E p \in Plan :
            \/ PlanWrite(p) \/ Snapshot(p)
            \/ tail' = [tail EXCEPT ![p] = FreshTail(p)] /\ UNCHANGED <<version, base>>
  <2>1. CASE UNCHANGED vars
    BY <2>1 DEF vars
  <2>2. ASSUME NEW p \in Plan, Step(p)
        PROVE  \/ UNCHANGED <<version, tail, base>>
               \/ PlanWrite(p) \/ Snapshot(p)
               \/ tail' = [tail EXCEPT ![p] = FreshTail(p)] /\ UNCHANGED <<version, base>>
    BY <2>2 DEF Step, WriteFiles, CommitCall, Attempt, CheckMoved, SendCommits, SendRefused,
                Publish, Reread, Unanswered, Conflict, CertainFailure, AbortCheck, Delete
  <2>3. ASSUME NEW p \in Plan, Fail(p) \/ AbortCall(p) PROVE UNCHANGED <<version, tail, base>>
    BY <2>3 DEF Fail, CannotTell, SendUnanswered, Crash, AbortCall
  <2>4. ASSUME NEW r \in inflight, LandLate(r) PROVE UNCHANGED <<version, tail, base>>
    BY <2>4 DEF LandLate
  <2>5. ASSUME OtherCommit PROVE UNCHANGED <<version, tail, base>>
    BY <2>5 DEF OtherCommit
  <2> QED BY <2>1, <2>2, <2>3, <2>4, <2>5 DEF Next
<1> QED BY <1>5, <1>6, <1>7, <1>8, <1>9

\* A step of the driver of plan q.
Acts(q) == Step(q) \/ Fail(q) \/ AbortCall(q)

\* The step leaves what the driver of plan q knows and was told.
Untouched(q) ==
    /\ pc'[q] = pc[q] /\ version'[q] = version[q] /\ tail'[q] = tail[q] /\ base'[q] = base[q]
    /\ calls'[q] = calls[q] /\ result'[q] = result[q]

\* A driver's state is its own: only its own steps change it.
LEMMA Others ==
    ASSUME TypeOK, [Next]_vars, NEW q \in Plan
    PROVE  Acts(q) \/ Untouched(q)
<1>1. CASE UNCHANGED vars
  BY <1>1 DEF vars, Untouched
<1>2. ASSUME NEW p \in Plan, Step(p), p # q PROVE Untouched(q)
  <2> USE <1>2 DEF TypeOK, Goto, Finish, world, Untouched
  <2>1. CASE PlanWrite(p)
    BY <2>1 DEF PlanWrite
  <2>2. CASE WriteFiles(p)
    BY <2>2 DEF WriteFiles
  <2>3. CASE CommitCall(p)
    BY <2>3 DEF CommitCall
  <2>4. CASE Attempt(p)
    BY <2>4 DEF Attempt
  <2>5. CASE CheckMoved(p)
    BY <2>5 DEF CheckMoved
  <2>6. CASE Snapshot(p)
    BY <2>6 DEF Snapshot
  <2>7. CASE SendCommits(p)
    BY <2>7 DEF SendCommits
  <2>8. CASE SendRefused(p)
    BY <2>8 DEF SendRefused
  <2>9. CASE Publish(p)
    BY <2>9 DEF Publish
  <2>10. CASE Reread(p)
    BY <2>10 DEF Reread
  <2>11. CASE Unanswered(p)
    BY <2>11 DEF Unanswered
  <2>12. CASE Conflict(p)
    BY <2>12 DEF Conflict
  <2>13. CASE CertainFailure(p)
    BY <2>13 DEF CertainFailure
  <2>14. CASE AbortCheck(p)
    BY <2>14 DEF AbortCheck
  <2>15. CASE Delete(p)
    BY <2>15 DEF Delete
  <2> QED BY <1>2, <2>1, <2>2, <2>3, <2>4, <2>5, <2>6, <2>7, <2>8, <2>9, <2>10, <2>11, <2>12,
             <2>13, <2>14, <2>15 DEF Step
<1>3. ASSUME NEW p \in Plan, Fail(p) \/ AbortCall(p), p # q PROVE Untouched(q)
  <2> USE <1>3 DEF TypeOK, Goto, Finish, world, Untouched
  <2>1. CASE CannotTell(p)
    BY <2>1 DEF CannotTell
  <2>2. CASE SendUnanswered(p)
    BY <2>2 DEF SendUnanswered
  <2>3. CASE Crash(p)
    BY <2>3 DEF Crash
  <2>4. CASE AbortCall(p)
    BY <2>4 DEF AbortCall
  <2> QED BY <1>3, <2>1, <2>2, <2>3, <2>4 DEF Fail
<1>4. ASSUME NEW r \in inflight, LandLate(r) PROVE Untouched(q)
  BY <1>4 DEF LandLate, Untouched
<1>5. ASSUME OtherCommit PROVE Untouched(q)
  BY <1>5 DEF OtherCommit, Untouched
<1> QED BY <1>1, <1>2, <1>3, <1>4, <1>5 DEF Next, Acts

\* Where a step of a driver leads, and from where.
LEMMA Arrivals ==
    ASSUME TypeOK, NEW q \in Plan, Acts(q)
    PROVE  /\ pc'[q] = "send" => Snapshot(q)
           /\ pc'[q] = "moved" => Attempt(q) /\ Guarded(q)
           /\ pc'[q] = "conflict" => SendRefused(q)
           /\ pc'[q] = "delete" => AbortCheck(q)
           /\ pc'[q] = "abort" => CertainFailure(q) \/ AbortCall(q)
           /\ pc'[q] = "certain" => CheckMoved(q) \/ Snapshot(q) \/ Conflict(q)
           /\ pc'[q] = "idle" /\ result'[q] = "none" => WriteFiles(q)
           /\ pc'[q] = "idle" /\ result'[q] = "failed" =>
                 \/ WriteFiles(q) \/ CertainFailure(q) \/ AbortCheck(q) \/ Delete(q)
                 \/ CannotTell(q) /\ pc[q] = "abort"
           /\ pc[q] \notin {"new", "write"} \/ PlanWrite(q) \/ WriteFiles(q)
           /\ pc[q] # "refused"
<1> USE DEF TypeOK, Goto, Finish
<1>1. CASE PlanWrite(q)
  BY <1>1 DEF PlanWrite
<1>2. CASE WriteFiles(q)
  BY <1>2 DEF WriteFiles
<1>3. CASE CommitCall(q)
  BY <1>3 DEF CommitCall
<1>4. CASE Attempt(q)
  BY <1>4 DEF Attempt
<1>5. CASE CheckMoved(q)
  BY <1>5 DEF CheckMoved
<1>6. CASE Snapshot(q)
  BY <1>6 DEF Snapshot
<1>7. CASE SendCommits(q)
  BY <1>7 DEF SendCommits
<1>8. CASE SendRefused(q)
  BY <1>8 DEF SendRefused
<1>9. CASE Publish(q)
  BY <1>9 DEF Publish
<1>10. CASE Reread(q)
  BY <1>10 DEF Reread
<1>11. CASE Unanswered(q)
  BY <1>11 DEF Unanswered
<1>12. CASE Conflict(q)
  BY <1>12 DEF Conflict
<1>13. CASE CertainFailure(q)
  BY <1>13 DEF CertainFailure
<1>14. CASE AbortCheck(q)
  BY <1>14 DEF AbortCheck
<1>15. CASE Delete(q)
  BY <1>15 DEF Delete
<1>16. CASE CannotTell(q)
  BY <1>16 DEF CannotTell
<1>17. CASE SendUnanswered(q)
  BY <1>17 DEF SendUnanswered
<1>18. CASE Crash(q)
  BY <1>18 DEF Crash
<1>19. CASE AbortCall(q)
  BY <1>19 DEF AbortCall
<1> QED BY <1>1, <1>2, <1>3, <1>4, <1>5, <1>6, <1>7, <1>8, <1>9, <1>10, <1>11, <1>12, <1>13,
           <1>14, <1>15, <1>16, <1>17, <1>18, <1>19 DEF Acts, Step, Fail

\* A commit is sent on a snapshot that has the plan's layout and not its txn, and
\* that stays so: the log only grows.
LEMMA SendStep ==
    ASSUME SafeInv, [Next]_vars
    PROVE  SendReady'
<1> USE DEF SafeInv
<1>1. setting' = setting
  BY NextTyped
<1>2. /\ managed' = managed /\ Empty' = Empty /\ TxnOf' = TxnOf
      /\ \A p \in Plan : (Pinned(p)' <=> Pinned(p)) /\ (Guarded(p)' <=> Guarded(p))
  BY <1>1, SettingSame
<1>3. /\ LastVersion \in Nat
      /\ \A t : \A v \in 0..LastVersion : TxnIn(log', t, v) <=> TxnIn(log, t, v)
      /\ \A v \in 0..LastVersion : LayoutIn(log', v) = LayoutIn(log, v)
  BY LogGrows
<1>4. \A p \in Plan : /\ version[p] \in 0..LastVersion /\ base[p] \in 0..LastVersion
                      /\ Latest(tail[p]) \in 0..LastVersion /\ version[p] <= Latest(tail[p])
  BY <1>3 DEF VersionsBehind, TypeOK, Latest
<1>7. ASSUME NEW q \in Plan, pc'[q] = "moved" PROVE Guarded(q)
  BY <1>7, Others, Arrivals DEF SendReady, Untouched
<1> SUFFICES ASSUME NEW q \in Plan, pc'[q] = "send"
             PROVE  /\ version'[q] <= base'[q]
                    /\ ~TxnIn(log', TxnOf[q], base'[q])
                    /\ q \in Empty \/ LayoutIn(log', base'[q]) = LayoutIn(log', version'[q])
                    /\ Pinned(q) => base'[q] = version'[q]
  BY <1>2, <1>7 DEF SendReady
<1>5. CASE Untouched(q)
  BY <1>3, <1>4, <1>5 DEF SendReady, Untouched
<1>6. CASE Snapshot(q)
  <2> DEFINE v == IF Guarded(q) THEN version[q] ELSE Latest(tail[q])
  <2>1. base'[q] = v /\ version' = version /\ Fits(q, v) /\ ~Recorded(TxnOf[q], v)
    BY <1>6 DEF Snapshot, TypeOK, Goto, Finish
  <2>2. ~TxnIn(log, TxnOf[q], v) /\ (q \in Empty \/ LayoutIn(log, v) = LayoutIn(log, version[q]))
    BY <2>1, LogTerms DEF Fits
  <2>3. v \in 0..LastVersion /\ version[q] <= v
    BY <1>4
  <2>4. Pinned(q) => v = version[q]
    BY DEF Pinned, VersionsBehind, Latest
  <2> HIDE DEF v
  <2> QED BY <1>3, <1>4, <2>1, <2>2, <2>3, <2>4
<1> QED BY <1>5, <1>6, Others, Arrivals

\* The step sends the request r and does not wait for its answer.
Sent(r) ==
    /\ r.plan \in Plan /\ pc[r.plan] = "send" /\ r = Request(r.plan) /\ "late" \in Faults
    /\ UNCHANGED <<log, version, base, store>>
    /\ \/ pc'[r.plan] = "unknown"
       \/ pc'[r.plan] = "idle" /\ result'[r.plan] = "crashed"

\* No request is under way but those found and the one just sent.
LEMMA InflightStep ==
    ASSUME TypeOK, [Next]_vars
    PROVE  \A r \in inflight' : r \in inflight \/ Sent(r)
<1>1. CASE UNCHANGED vars
  BY <1>1 DEF vars
<1>2. ASSUME NEW p \in Plan, Step(p) PROVE inflight' = inflight
  BY <1>2 DEF Step, PlanWrite, WriteFiles, CommitCall, Attempt, CheckMoved, Snapshot, SendCommits,
              SendRefused, Publish, Reread, Unanswered, Conflict, CertainFailure, AbortCheck,
              Delete, world
<1>3. ASSUME NEW p \in Plan, CannotTell(p) \/ AbortCall(p) PROVE inflight' = inflight
  BY <1>3 DEF CannotTell, AbortCall, world
<1>4. ASSUME NEW p \in Plan, SendUnanswered(p) \/ Crash(p)
      PROVE  inflight' = inflight \/ (inflight' = inflight \cup {Request(p)} /\ Sent(Request(p)))
  <2>1. Request(p).plan = p
    BY DEF Request
  <2>2. CASE SendUnanswered(p)
    BY <2>1, <2>2 DEF SendUnanswered, Goto, Sent, TypeOK
  <2>3. CASE Crash(p)
    BY <2>1, <2>3 DEF Crash, Finish, Sent, TypeOK
  <2> QED BY <1>4, <2>2, <2>3
<1>5. ASSUME NEW r \in inflight, LandLate(r) PROVE inflight' \subseteq inflight
  BY <1>5 DEF LandLate
<1>6. ASSUME OtherCommit PROVE inflight' = inflight
  BY <1>6 DEF OtherCommit
<1> QED BY <1>1, <1>2, <1>3, <1>4, <1>5, <1>6 DEF Next, Fail

\* Only a new snapshot moves the version a commit is built on.
LEMMA BaseStep ==
    ASSUME TypeOK, NEW q \in Plan, Acts(q)
    PROVE  base'[q] = base[q] \/ Snapshot(q)
<1>1. CASE Step(q)
  BY <1>1 DEF Step, PlanWrite, WriteFiles, CommitCall, Attempt, CheckMoved, SendCommits,
              SendRefused, Publish, Reread, Unanswered, Conflict, CertainFailure, AbortCheck, Delete
<1>2. CASE Fail(q) \/ AbortCall(q)
  BY <1>2 DEF Fail, CannotTell, SendUnanswered, Crash, AbortCall
<1> QED BY <1>1, <1>2 DEF Acts

\* What was true of the snapshot when the request was sent stays true.
LEMMA InflightReadyStep ==
    ASSUME SafeInv, [Next]_vars
    PROVE  InflightReady'
<1> USE DEF SafeInv
<1>1. setting' = setting
  BY NextTyped
<1>2. /\ Empty' = Empty /\ TxnOf' = TxnOf /\ \A p \in Plan : Pinned(p)' <=> Pinned(p)
  BY <1>1, SettingSame
<1>3. /\ LastVersion \in Nat
      /\ \A t : \A v \in 0..LastVersion : TxnIn(log', t, v) <=> TxnIn(log, t, v)
      /\ \A v \in 0..LastVersion : LayoutIn(log', v) = LayoutIn(log, v)
  BY LogGrows
<1>4. \A p \in Plan : /\ version[p] \in 0..LastVersion /\ base[p] \in 0..LastVersion
                      /\ base[p] <= Latest(tail[p])
  BY <1>3 DEF VersionsBehind, TypeOK, Latest
<1> SUFFICES ASSUME NEW r \in inflight', r.plan \in Plan, r.at \in Nat
             PROVE  /\ pc'[r.plan] \notin Before
                    /\ version'[r.plan] < r.at /\ r.at <= base'[r.plan] + 1
                    /\ ~TxnIn(log', TxnOf[r.plan], r.at - 1)
                    /\ \/ r.plan \in Empty
                       \/ LayoutIn(log', r.at - 1) = LayoutIn(log', version'[r.plan])
                    /\ Pinned(r.plan) => r.at = version'[r.plan] + 1
  <2>1. TypeOK'
    BY NextTyped
  <2>2. \A r \in inflight' : r.plan \in Plan /\ r.at \in Nat
    BY <2>1 DEF TypeOK
  <2> QED BY <1>2, <2>2 DEF InflightReady
<1> DEFINE p == r.plan
<1>5. CASE r \in inflight
  <2>1. /\ pc[p] \notin Before /\ version[p] < r.at /\ r.at <= base[p] + 1
        /\ ~TxnIn(log, TxnOf[p], r.at - 1)
        /\ p \in Empty \/ LayoutIn(log, r.at - 1) = LayoutIn(log, version[p])
        /\ Pinned(p) => r.at = version[p] + 1
    BY <1>5 DEF InflightReady
  <2>2. pc'[p] \notin Before /\ version'[p] = version[p]
    BY <2>1, Frame
  <2>3. r.at <= base'[p] + 1
    <3>1. CASE base'[p] = base[p]
      BY <2>1, <3>1
    <3>2. CASE Snapshot(p)
      <4>1. base'[p] = IF Guarded(p) THEN version[p] ELSE Latest(tail[p])
        BY <3>2 DEF Snapshot, TypeOK
      <4>2. CASE Guarded(p)
        BY <1>4, <2>1, <4>1, <4>2 DEF Pinned
      <4>3. CASE ~Guarded(p)
        <5>1. Latest(tail[p]) \in Nat
          BY <1>3 DEF Latest, TypeOK
        <5> QED BY <1>4, <2>1, <4>1, <4>3, <5>1
      <4> QED BY <4>2, <4>3
    <3> QED BY <3>1, <3>2, Others, BaseStep DEF Untouched
  <2>4. r.at - 1 \in 0..LastVersion
    BY <1>3, <1>4, <2>1
  <2> HIDE DEF p
  <2> QED BY <1>3, <1>4, <2>1, <2>2, <2>3, <2>4 DEF p
<1>6. CASE Sent(r)
  <2>1. r.at = base[p] + 1
    BY <1>6 DEF Sent, Request
  <2>2. /\ version[p] <= base[p] /\ ~TxnIn(log, TxnOf[p], base[p])
        /\ p \in Empty \/ LayoutIn(log, base[p]) = LayoutIn(log, version[p])
        /\ Pinned(p) => base[p] = version[p]
    BY <1>6 DEF Sent, SendReady
  <2>3. r.at - 1 = base[p]
    BY <1>4, <2>1
  <2>4. log' = log /\ version' = version /\ base' = base /\ pc'[p] \notin Before
    BY <1>6 DEF Sent, Before
  <2> HIDE DEF p
  <2> QED BY <1>4, <2>1, <2>2, <2>3, <2>4 DEF p
<1> QED BY <1>5, <1>6, InflightStep

\* Nothing is under way once a plan is given up: its requests were built on
\* versions the table has left behind.
LEMMA NoneUnderWayStep ==
    ASSUME SafeInv, [Next]_vars
    PROVE  NoneUnderWay'
<1> USE DEF SafeInv
<1>1. /\ LastVersion \in Nat /\ LastVersion' \in Nat /\ LastVersion <= LastVersion'
  BY LogGrows
<1>2. \A p \in Plan : /\ version[p] \in 0..LastVersion /\ base[p] \in 0..LastVersion
                      /\ base[p] <= Latest(tail[p]) /\ Latest(tail[p]) \in 0..LastVersion
                      /\ version[p] <= Latest(tail[p])
  BY <1>1 DEF VersionsBehind, TypeOK, Latest
<1> SUFFICES ASSUME NEW r \in inflight', r.plan \in Plan, r.at \in Nat, GivenUp(r.plan)'
             PROVE  r.at <= LastVersion'
  <2>1. TypeOK'
    BY NextTyped
  <2>2. \A r \in inflight' : r.plan \in Plan /\ r.at \in Nat
    BY <2>1 DEF TypeOK
  <2> QED BY <2>2 DEF NoneUnderWay
<1> DEFINE p == r.plan
<1>3. r \in inflight
  BY InflightStep DEF Sent, GivenUp
<1>4. /\ pc[p] \notin Before /\ version[p] < r.at /\ r.at <= base[p] + 1
      /\ p \in Empty \/ LayoutIn(log, r.at - 1) = LayoutIn(log, version[p])
      /\ Pinned(p) => r.at = version[p] + 1
  BY <1>3 DEF InflightReady
<1>5. CASE Untouched(p)
  BY <1>1, <1>3, <1>5 DEF Untouched, GivenUp, NoneUnderWay
<1>6. CASE SendRefused(p) /\ pc'[p] = "conflict"
  <2>1. LastVersion > base[p]
    BY <1>6 DEF SendRefused, Goto, TypeOK
  <2> QED BY <1>1, <1>2, <1>4, <2>1
<1>7. CASE GivenUp(p)
  BY <1>1, <1>3, <1>7 DEF NoneUnderWay
<1>8. CASE CheckMoved(p) /\ pc'[p] = "certain"
  <2>1. Latest(tail[p]) # version[p]
    BY <1>8 DEF CheckMoved, Goto, TypeOK
  <2>2. Guarded(p)
    BY <1>8 DEF CheckMoved, SendReady
  <2> QED BY <1>1, <1>2, <1>4, <2>1, <2>2 DEF Pinned
<1>9. CASE Snapshot(p) /\ pc'[p] = "certain"
  <2> DEFINE v == IF Guarded(p) THEN version[p] ELSE Latest(tail[p])
  <2>1. ~Fits(p, v)
    BY <1>9 DEF Snapshot, Goto, Finish, TypeOK
  <2>2. p \notin Empty /\ LayoutIn(log, v) # LayoutIn(log, version[p])
    BY <2>1, LogTerms DEF Fits
  <2>3. v = Latest(tail[p]) /\ r.at - 1 # v
    BY <1>4, <2>2
  <2> HIDE DEF v
  <2> QED BY <1>1, <1>2, <1>4, <2>3
<1>10. \/ SendRefused(p) /\ pc'[p] = "conflict"
       \/ GivenUp(p)
       \/ CheckMoved(p) /\ pc'[p] = "certain"
       \/ Snapshot(p) /\ pc'[p] = "certain"
       \/ Untouched(p)
  <2>1. Acts(p) \/ Untouched(p)
    BY Others
  <2>2. ASSUME Acts(p), WriteFiles(p) PROVE FALSE
    BY <1>4, <2>2 DEF WriteFiles, Before
  <2>3. CASE Acts(p)
    <3>1. /\ CertainFailure(p) \/ Conflict(p) \/ AbortCheck(p) \/ Delete(p) => GivenUp(p)
          /\ AbortCall(p) \/ (CannotTell(p) /\ pc[p] = "abort") => GivenUp(p)
      BY DEF CertainFailure, Conflict, AbortCheck, Delete, AbortCall, GivenUp
    <3>2. \/ pc'[p] \in {"conflict", "certain", "abort", "delete"}
          \/ pc'[p] = "idle" /\ result'[p] \in {"none", "failed"}
      BY DEF GivenUp
    <3> QED BY <2>2, <2>3, <3>1, <3>2, Arrivals
  <2> QED BY <2>1, <2>3
<1> QED BY <1>5, <1>6, <1>7, <1>8, <1>9, <1>10

\* A step of a driver keeps what may still be committed, and gives it up for good.
LEMMA NeededStep ==
    ASSUME TypeOK, FilesKept, setting' = setting, NEW q \in Plan, Acts(q)
    PROVE  /\ Needed(q)' => WriteFiles(q) \/ (Needed(q) /\ ~Delete(q))
           /\ pc'[q] \in {"abort", "delete"} => q \notin KeepFiles \/ calls'[q] = MaxCalls
<1>0. /\ KeepFiles' = KeepFiles
      /\ pc[q] \in {"abort", "delete"} => q \notin KeepFiles \/ calls[q] = MaxCalls
  BY DEF KeepFiles, FilesKept
<1> USE <1>0, ConstantsAssumption DEF TypeOK, Goto, Finish, Needed
<1>1. CASE PlanWrite(q)
  BY <1>1 DEF PlanWrite
<1>2. CASE WriteFiles(q)
  BY <1>2 DEF WriteFiles
<1>3. CASE CommitCall(q)
  BY <1>3 DEF CommitCall, Delete
<1>4. CASE Attempt(q)
  BY <1>4 DEF Attempt, Delete
<1>5. CASE CheckMoved(q)
  BY <1>5 DEF CheckMoved, Delete
<1>6. CASE Snapshot(q)
  BY <1>6 DEF Snapshot, Delete
<1>7. CASE SendCommits(q)
  BY <1>7 DEF SendCommits, Delete
<1>8. CASE SendRefused(q)
  BY <1>8 DEF SendRefused, Delete
<1>9. CASE Publish(q)
  BY <1>9 DEF Publish, Delete
<1>10. CASE Reread(q)
  BY <1>10 DEF Reread, Delete
<1>11. CASE Unanswered(q)
  BY <1>11 DEF Unanswered, Delete
<1>12. CASE Conflict(q)
  BY <1>12 DEF Conflict, Delete
<1>13. CASE CertainFailure(q)
  BY <1>13 DEF CertainFailure, Delete
<1>14. CASE AbortCheck(q)
  BY <1>14 DEF AbortCheck
<1>15. CASE Delete(q)
  BY <1>15 DEF Delete
<1>16. CASE CannotTell(q)
  BY <1>16 DEF CannotTell, Delete
<1>17. CASE SendUnanswered(q)
  BY <1>17 DEF SendUnanswered, Delete
<1>18. CASE Crash(q)
  BY <1>18 DEF Crash, Delete
<1>19. CASE AbortCall(q)
  BY <1>19 DEF AbortCall
<1> QED BY <1>1, <1>2, <1>3, <1>4, <1>5, <1>6, <1>7, <1>8, <1>9, <1>10, <1>11, <1>12, <1>13,
           <1>14, <1>15, <1>16, <1>17, <1>18, <1>19 DEF Acts, Step, Fail

\* Files leave the storage by a Delete of their own plan only.
LEMMA StoreStep ==
    ASSUME TypeOK, [Next]_vars, NEW q \in store
    PROVE  q \in store' \/ Delete(q)
<1>1. CASE UNCHANGED vars
  BY <1>1 DEF vars
<1>2. ASSUME NEW p \in Plan, Step(p) PROVE q \in store' \/ Delete(q)
  BY <1>2 DEF Step, PlanWrite, WriteFiles, CommitCall, Attempt, CheckMoved, Snapshot, SendCommits,
              SendRefused, Publish, Reread, Unanswered, Conflict, CertainFailure, AbortCheck,
              Delete, world
<1>3. ASSUME NEW p \in Plan, Fail(p) \/ AbortCall(p) PROVE store' = store
  BY <1>3 DEF Fail, CannotTell, SendUnanswered, Crash, AbortCall, world
<1>4. ASSUME NEW r \in inflight, LandLate(r) PROVE store' = store
  BY <1>4 DEF LandLate
<1>5. ASSUME OtherCommit PROVE store' = store
  BY <1>5 DEF OtherCommit
<1> QED BY <1>1, <1>2, <1>3, <1>4, <1>5 DEF Next

\* What may still be committed stays in storage.
LEMMA FilesKeptStep ==
    ASSUME SafeInv, [Next]_vars
    PROVE  FilesKept'
<1> USE DEF SafeInv
<1>1. setting' = setting
  BY NextTyped
<1>2. Empty' = Empty /\ KeepFiles' = KeepFiles
  BY <1>1, SettingSame
<1>3. ASSUME NEW q \in Plan \ Empty, Needed(q)' PROVE q \in store'
  <2>1. CASE WriteFiles(q)
    BY <2>1 DEF WriteFiles, Files
  <2>2. Needed(q) /\ ~Delete(q) => q \in store'
    BY StoreStep DEF FilesKept
  <2>3. CASE Untouched(q)
    <3>1. Needed(q)
      BY <1>2, <1>3, <2>3 DEF Untouched, Needed
    <3>2. ~Delete(q)
      BY <2>3 DEF Untouched, Delete, Finish, TypeOK
    <3> QED BY <2>2, <3>1, <3>2
  <2>4. CASE Acts(q)
    BY <1>1, <1>3, <2>1, <2>2, <2>4, NeededStep
  <2> QED BY <2>3, <2>4, Others
<1>4. ASSUME NEW q \in Plan, pc'[q] \in {"abort", "delete"}
      PROVE  q \notin KeepFiles \/ calls'[q] = MaxCalls
  <2>1. CASE Untouched(q)
    BY <1>4, <2>1 DEF Untouched, FilesKept
  <2>2. CASE Acts(q)
    BY <1>1, <1>4, <2>2, NeededStep
  <2> QED BY <2>1, <2>2, Others
<1>5. ASSUME NEW r \in inflight', r.at > LastVersion' PROVE r.plan \in store' \cup Empty
  <2>0. TypeOK'
    BY NextTyped
  <2>1. r.plan \in Plan /\ r.at \in Nat
    BY <2>0 DEF TypeOK
  <2>2. LastVersion \in Nat /\ LastVersion' \in Nat /\ LastVersion <= LastVersion'
    BY LogGrows
  <2>3. CASE r \in inflight
    <3>1. r.at > LastVersion
      BY <1>5, <2>1, <2>2
    <3>2. r.plan \in store \cup Empty
      BY <2>3, <3>1 DEF FilesKept
    <3>3. ~Delete(r.plan)
      BY <2>1, <2>2, <2>3, <3>1 DEF NoneUnderWay, GivenUp, Delete
    <3> QED BY <3>2, <3>3, StoreStep
  <2>4. CASE Sent(r)
    BY <2>1, <2>4 DEF Sent, FilesKept, Needed
  <2> QED BY <2>3, <2>4, InflightStep
<1> QED BY <1>2, <1>3, <1>4, <1>5 DEF FilesKept

\* A version is a plan's, with that plan's files, or adds nothing.
LEMMA VersionOf ==
    ASSUME TypeOK, LogShape, NEW v \in 1..LastVersion
    PROVE  \/ log[v].by = Other /\ log[v].adds = {} /\ log[v].txn = NoTxn
           \/ /\ log[v].by \in Plan /\ log[v].adds = Files(log[v].by)
              /\ log[v].txn = TxnOf[log[v].by] /\ version[log[v].by] < v
              /\ pc[log[v].by] \notin Before
<1>1. log[v] \in CommitRecord
  <2> HIDE DEF CommitRecord
  <2> QED BY DEF TypeOK, LastVersion
<1>2. log[v].by \in Plan \cup {Other}
  BY <1>1 DEF CommitRecord
<1> QED BY <1>2 DEF LogShape

\* The version that adds a plan's files is that plan's.
LEMMA LandedBy ==
    ASSUME TypeOK, LogShape, NEW v \in 1..LastVersion, NEW q, q \in log[v].adds
    PROVE  /\ q \in Plan \ Empty /\ log[v].by = q /\ log[v].adds = {q}
           /\ version[q] < v /\ log[v].txn = TxnOf[q]
BY VersionOf DEF Files

\* Files about to be deleted were looked for in every version, and no request can
\* land them any more.
LEMMA DeletesUnlandedStep ==
    ASSUME SafeInv, [Next]_vars
    PROVE  DeletesUnlanded'
<1> USE DEF SafeInv
<1> SUFFICES ASSUME NEW q \in Plan, pc'[q] = "delete" PROVE ~LandedIn(log', q)
  BY DEF DeletesUnlanded
<1>0. log \in Seq(CommitRecord) /\ Len(log) \in Nat
  BY DEF TypeOK
<1>1. CASE Untouched(q)
  <2>1. pc[q] = "delete" /\ ~LandedIn(log, q)
    BY <1>1 DEF Untouched, DeletesUnlanded
  <2>2. ASSUME NEW r \in CommitRecord, log' = Append(log, r), r.adds # {q}
        PROVE  ~LandedIn(log', q)
    <3> HIDE DEF CommitRecord
    <3>1. Extension(log, r, log')
      BY <1>0, <2>2, AppendFacts
    <3> QED BY <2>1, <2>2, <3>1 DEF Extension
  <2>3. ASSUME NEW p \in Plan, p # q PROVE Record(p) \in CommitRecord /\ Record(p).adds # {q}
    BY <2>3, RecordTyped DEF Files
  <2>4. ASSUME NEW p \in Plan, SendCommits(p) PROVE p # q
    BY <2>1, <2>4 DEF SendCommits
  <2>5. ASSUME NEW r \in inflight, LandLate(r) PROVE r.plan \in Plan /\ r.plan # q
    <3>1. r.plan \in Plan /\ LastVersion + 1 = r.at /\ LastVersion \in Nat
      BY <1>0, <2>5 DEF LandLate, TypeOK, LastVersion
    <3> QED BY <2>1, <3>1 DEF NoneUnderWay, GivenUp
  <2>6. ASSUME NEW l \in BOOLEAN PROVE OtherRecord(l) \in CommitRecord /\ OtherRecord(l).adds # {q}
    BY DEF OtherRecord, CommitRecord
  <2>7. LogStep
    BY Frame
  <2> QED BY <2>1, <2>2, <2>3, <2>4, <2>5, <2>6, <2>7 DEF LogStep
<1>2. CASE AbortCheck(q)
  <2>1. log' = log
    BY <1>2 DEF AbortCheck, world
  <2>2. ~Landed(q, Latest(tail'[q])) /\ ~(managed /\ ~Rereads(q)) /\ tail'[q] = FreshTail(q)
    BY <1>2 DEF AbortCheck, Goto, Finish, TypeOK
  <2>3. Latest(tail'[q]) = LastVersion
    BY <2>2 DEF Latest, FreshTail
  <2>4. Landings(q, LastVersion) = {}
    BY <2>2, <2>3 DEF Landed
  <2>5. ASSUME NEW v \in 1..LastVersion, log[v].adds = {q} PROVE FALSE
    <3>1. version[q] < v /\ version[q] \in Nat
      BY <2>5, LandedBy DEF TypeOK
    <3>2. v \in (version[q] + 1)..LastVersion
      BY <1>0, <3>1 DEF LastVersion
    <3> QED BY <2>4, <2>5, <3>2 DEF Landings
  <2> QED BY <2>1, <2>5 DEF LandedIn, LastVersion
<1> QED BY <1>1, <1>2, Others, Arrivals

-----------------------------------------------------------------------------
(* The log is sound *)

\* SafeInv is inductive.
LEMMA SafeInvariant == Spec => []SafeInv
<1>1. Init => SafeInv
  <2> SUFFICES ASSUME Init PROVE SafeInv
    OBVIOUS
  <2>1. TypeOK /\ SettingKept
    BY InitTyped
  <2>2. LastVersion = 0
    BY DEF Init, LastVersion
  <2>3. \A p \in Plan : /\ pc[p] = "new" /\ version[p] = 0 /\ tail[p] = 0 /\ base[p] = 0
                        /\ result[p] = "none"
    BY DEF Init
  <2>4. LogShape /\ VersionsBehind /\ SendReady
    BY <2>2, <2>3 DEF LogShape, VersionsBehind, Latest, SendReady
  <2>5. InflightReady /\ NoneUnderWay /\ FilesKept /\ DeletesUnlanded
    BY <2>3 DEF Init, InflightReady, NoneUnderWay, FilesKept, DeletesUnlanded, Needed
  <2> QED BY <2>1, <2>4, <2>5 DEF SafeInv
<1>2. SafeInv /\ [Next]_vars => SafeInv'
  <2> SUFFICES ASSUME SafeInv, [Next]_vars PROVE SafeInv'
    OBVIOUS
  <2>1. TypeOK' /\ SettingKept'
    BY NextTyped DEF SafeInv
  <2> QED BY <2>1, LogShapeStep, VersionsStep, SendStep, InflightReadyStep, NoneUnderWayStep,
             FilesKeptStep, DeletesUnlandedStep DEF SafeInv
<1> QED BY <1>1, <1>2, PTL DEF Spec

\* A commit the log gets from a plan, now or late: the plan's files exist, its txn
\* is in no version, its layout is the table's, and a pinned plan finds the version
\* it was planned at.
LEMMA CommitReady ==
    ASSUME SafeInv, NEW p \in Plan,
           \/ SendCommits(p)
           \/ \E r \in inflight : LandLate(r) /\ r.plan = p
    PROVE  /\ p \in store \cup Empty
           /\ ~TxnIn(log, TxnOf[p], LastVersion)
           /\ p \in Empty \/ LayoutIn(log, LastVersion) = LayoutIn(log, version[p])
           /\ Pinned(p) => version[p] = LastVersion
<1> USE DEF SafeInv
<1>0. LastVersion \in Nat /\ version[p] \in Nat
  BY DEF TypeOK, LastVersion
<1>1. CASE SendCommits(p)
  <2>1. pc[p] = "send" /\ base[p] = LastVersion
    BY <1>1 DEF SendCommits
  <2> QED BY <2>1 DEF SendReady, FilesKept, Needed
<1>2. ASSUME NEW r \in inflight, LandLate(r), r.plan = p
      PROVE  /\ p \in store \cup Empty
             /\ ~TxnIn(log, TxnOf[p], LastVersion)
             /\ p \in Empty \/ LayoutIn(log, LastVersion) = LayoutIn(log, version[p])
             /\ Pinned(p) => version[p] = LastVersion
  <2>1. r.at = LastVersion + 1 /\ r.at - 1 = LastVersion /\ r.at > LastVersion
    BY <1>0, <1>2 DEF LandLate
  <2>2. /\ ~TxnIn(log, TxnOf[p], r.at - 1)
        /\ p \in Empty \/ LayoutIn(log, r.at - 1) = LayoutIn(log, version[p])
        /\ Pinned(p) => r.at = version[p] + 1
    BY <1>2 DEF InflightReady
  <2>3. p \in store \cup Empty
    BY <1>2, <2>1 DEF FilesKept
  <2> QED BY <1>0, <2>1, <2>2, <2>3
<1> QED BY <1>1, <1>2

\* What an appended version is: a plan's record, ready as above, or a writer's
\* outside the plans.
LEMMA Appended ==
    ASSUME SafeInv, [Next]_vars, log' # log
    PROVE  \/ \E l \in BOOLEAN : OtherRecord(l) \in CommitRecord /\ Extension(log, OtherRecord(l), log')
           \/ \E p \in Plan : /\ Record(p) \in CommitRecord /\ Extension(log, Record(p), log')
                              /\ \/ SendCommits(p)
                                 \/ \E r \in inflight : LandLate(r) /\ r.plan = p
<1> USE DEF SafeInv
<1>0. log \in Seq(CommitRecord)
  BY DEF TypeOK
<1>1. \A p \in Plan : Record(p) \in CommitRecord
  BY RecordTyped
<1>2. \A l \in BOOLEAN : OtherRecord(l) \in CommitRecord
  BY DEF OtherRecord, CommitRecord
<1> HIDE DEF CommitRecord, Record, OtherRecord
<1>3. \A p \in Plan : Extension(log, Record(p), Append(log, Record(p)))
  BY <1>0, <1>1, AppendFacts
<1>4. \A l \in BOOLEAN : Extension(log, OtherRecord(l), Append(log, OtherRecord(l)))
  BY <1>0, <1>2, AppendFacts
<1>5. \A r \in inflight : r.plan \in Plan
  BY DEF TypeOK
<1>6. LogStep
  BY Frame
<1> QED BY <1>1, <1>2, <1>3, <1>4, <1>5, <1>6 DEF LogStep

\* The four parts of CommitsSound beside the types.
LogSound == CommittedFilesExist /\ TxnCommittedOnce /\ OverwriteDiscardsNobody /\ LayoutFits

\* A step that leaves the log alone leaves it sound: only unlanded files are deleted.
LEMMA QuietSound ==
    ASSUME SafeInv, LogSound, [Next]_vars, log' = log
    PROVE  LogSound'
<1> USE DEF SafeInv
<1>1. setting' = setting
  BY NextTyped
<1>2. \A v \in 1..LastVersion : log[v].by \in Plan => version'[log[v].by] = version[log[v].by]
  BY Frame DEF LogShape
<1>3. LastVersion' = LastVersion
  BY DEF LastVersion
<1>4. ASSUME NEW v \in 1..LastVersion, NEW q \in log[v].adds PROVE q \in store'
  <2>1. q \in store
    BY <1>4 DEF LogSound, CommittedFilesExist
  <2>2. log[v].adds = {q}
    BY <1>4, LandedBy
  <2>3. LandedIn(log, q)
    BY <2>2 DEF LandedIn, LastVersion
  <2>4. q \in Plan
    BY <2>1 DEF TypeOK
  <2>5. ~Delete(q)
    BY <2>3, <2>4 DEF Delete, DeletesUnlanded
  <2> QED BY <2>1, <2>5, StoreStep
<1>5. CommittedFilesExist' /\ TxnCommittedOnce'
  BY <1>3, <1>4 DEF LogSound, CommittedFilesExist, TxnCommittedOnce
<1>6. OverwriteDiscardsNobody'
  BY <1>1, <1>2, <1>3, ConstantsAssumption DEF LogSound, OverwriteDiscardsNobody
<1>7. \A v \in 1..LastVersion : log[v].adds # {} => log[v].by \in Plan
  BY VersionOf
<1>8. LayoutFits'
  <2>1. \A v : Layout(v)' = LayoutIn(log, v) /\ Layout(v) = LayoutIn(log, v)
    BY DEF Layout, LayoutIn
  <2> SUFFICES ASSUME NEW v \in 1..LastVersion, log[v].adds # {}
               PROVE  LayoutIn(log, v) = LayoutIn(log, version'[log[v].by])
    BY <1>3 DEF LayoutFits, Layout, LayoutIn
  <2>2. LayoutIn(log, v) = LayoutIn(log, version[log[v].by])
    BY <2>1 DEF LogSound, LayoutFits
  <2> QED BY <1>2, <1>7, <2>2
<1> QED BY <1>5, <1>6, <1>8 DEF LogSound

\* A step that appends a version appends a sound one.
LEMMA AppendSound ==
    ASSUME SafeInv, LogSound, [Next]_vars, log' # log
    PROVE  LogSound'
<1> USE DEF SafeInv
<1>1. setting' = setting
  BY NextTyped
<1>2. /\ LastVersion \in Nat /\ LastVersion' \in Nat
      /\ \A i \in 1..LastVersion : log'[i] = log[i]
      /\ \A v \in 0..LastVersion : LayoutIn(log', v) = LayoutIn(log, v)
  BY LogGrows
<1>3. store \subseteq store'
  <2>1. \A q \in store : ~Delete(q)
    BY DEF Delete
  <2> QED BY <2>1, StoreStep
<1>4. version \in [Plan -> Nat] /\ \A p \in Plan : version[p] <= LastVersion
  BY <1>2 DEF TypeOK, VersionsBehind
<1> DEFINE n == LastVersion + 1
           \* What is to be shown of a version, and of a version and an earlier one.
           Good(v) == /\ log'[v].adds \subseteq store'
                      /\ log'[v].by \in Overwrites \ setting.lastWriterWins =>
                            v = version'[log'[v].by] + 1
                      /\ log'[v].adds # {} =>
                            LayoutIn(log', v) = LayoutIn(log', version'[log'[v].by])
<1>5. \A v \in 1..LastVersion : Good(v)
  <2> SUFFICES ASSUME NEW v \in 1..LastVersion PROVE Good(v)
    OBVIOUS
  <2>1. log'[v] = log[v] /\ LayoutIn(log', v) = LayoutIn(log, v)
    BY <1>2
  <2>2. /\ log[v].adds \subseteq store
        /\ log[v].by \in Overwrites \ setting.lastWriterWins => v = version[log[v].by] + 1
        /\ log[v].adds # {} => Layout(v) = Layout(version[log[v].by])
    BY DEF LogSound, CommittedFilesExist, OverwriteDiscardsNobody, LayoutFits
  <2>3. CASE log[v].by = Other /\ log[v].adds = {}
    BY <2>1, <2>3, ConstantsAssumption
  <2>4. CASE log[v].by \in Plan /\ pc[log[v].by] \notin Before
    <3>1. version'[log[v].by] = version[log[v].by] /\ version[log[v].by] \in 0..LastVersion
      BY <1>2, <1>4, <2>4, Frame
    <3>2. log[v].adds # {} => LayoutIn(log, v) = LayoutIn(log, version[log[v].by])
      BY <2>2, LogTerms
    <3> QED BY <1>2, <1>3, <2>1, <2>2, <3>1, <3>2
  <2> QED BY <2>3, <2>4, VersionOf
<1>6. ASSUME NEW l \in BOOLEAN, Extension(log, OtherRecord(l), log')
      PROVE  LastVersion' = n /\ Good(n) /\ log'[n].txn = NoTxn
  <2>1. LastVersion' = n /\ log'[n] = OtherRecord(l)
    BY <1>6 DEF Extension, LastVersion
  <2> QED BY <2>1, ConstantsAssumption DEF OtherRecord
<1>7. ASSUME NEW p \in Plan, Extension(log, Record(p), log'),
             SendCommits(p) \/ \E r \in inflight : LandLate(r) /\ r.plan = p
      PROVE  /\ LastVersion' = n /\ Good(n)
             /\ log'[n].txn = TxnOf[p] /\ ~TxnIn(log, TxnOf[p], LastVersion)
  <2>1. /\ Record(p).by = p /\ Record(p).txn = TxnOf[p]
        /\ Record(p).adds = Files(p) /\ Record(p).layout = FALSE
    BY RecordTyped
  <2> HIDE DEF Record
  <2>2. LastVersion' = n /\ log'[n] = Record(p) /\ LayoutIn(log', n) = LayoutIn(log, LastVersion)
    BY <1>7, <2>1 DEF Extension, LastVersion
  <2>3. /\ p \in store \cup Empty
        /\ ~TxnIn(log, TxnOf[p], LastVersion)
        /\ p \in Empty \/ LayoutIn(log, LastVersion) = LayoutIn(log, version[p])
        /\ Pinned(p) => version[p] = LastVersion
    BY <1>7, CommitReady
  <2>4. version' = version
    BY <1>7 DEF SendCommits, LandLate
  <2>5. Files(p) \subseteq store /\ (Files(p) # {} => p \notin Empty)
    BY <2>3 DEF Files
  <2>6. p \in Overwrites \ setting.lastWriterWins => version[p] = LastVersion
    BY <2>3 DEF Pinned, Guarded
  <2>7. Files(p) # {} => LayoutIn(log', n) = LayoutIn(log', version[p])
    BY <1>2, <1>4, <2>2, <2>3, <2>5
  <2> QED BY <1>3, <2>1, <2>2, <2>3, <2>4, <2>5, <2>6, <2>7
<1>8. /\ LastVersion' = n /\ Good(n)
      /\ log'[n].txn # NoTxn => ~TxnIn(log, log'[n].txn, LastVersion)
  <2> HIDE DEF n, Good
  <2> QED BY <1>6, <1>7, Appended
<1>9. \A v \in 1..LastVersion' : v \in 1..LastVersion \/ v = n
  BY <1>2, <1>8
<1>10. \A v \in 1..LastVersion' : Good(v)
  <2> HIDE DEF n, Good
  <2> QED BY <1>5, <1>8, <1>9
<1>11. CommittedFilesExist'
  BY <1>10 DEF CommittedFilesExist
<1>12. OverwriteDiscardsNobody'
  BY <1>1, <1>10 DEF OverwriteDiscardsNobody
<1>13. LayoutFits'
  BY <1>10 DEF LayoutFits, Layout, LayoutIn
<1>14. TxnCommittedOnce'
  <2> SUFFICES ASSUME NEW u \in 1..LastVersion', NEW v \in 1..LastVersion',
                      log'[u].txn # NoTxn, log'[u].txn = log'[v].txn
               PROVE  u = v
    BY DEF TxnCommittedOnce
  <2>1. CASE u \in 1..LastVersion /\ v \in 1..LastVersion
    BY <1>2, <2>1 DEF LogSound, TxnCommittedOnce
  <2>2. \A i \in 1..LastVersion : log'[n].txn # NoTxn => log'[i].txn # log'[n].txn
    BY <1>2, <1>8 DEF TxnIn
  <2> HIDE DEF n
  <2> QED BY <1>9, <2>1, <2>2
<1> QED BY <1>11, <1>12, <1>13, <1>14 DEF LogSound

\* For every table, caller and fault: a version names only files that exist and fit
\* its layout, a txn is committed once, and a guarded overwrite lands on the version
\* it was planned at, late requests included.
THEOREM CommitsAlwaysSound == Spec => []CommitsSound
<1>1. Init => LogSound
  BY DEF Init, LogSound, CommittedFilesExist, TxnCommittedOnce, OverwriteDiscardsNobody,
         LayoutFits, LastVersion
<1>2. SafeInv /\ LogSound /\ [Next]_vars => LogSound'
  BY QuietSound, AppendSound
<1>3. SafeInv /\ LogSound => CommitsSound
  BY DEF SafeInv, LogSound, CommitsSound
<1> QED BY <1>1, <1>2, <1>3, SafeInvariant, PTL DEF Spec

-----------------------------------------------------------------------------
(* The caller is told the truth *)

\* A look that reads every version and finds nothing: the files are in none.
LEMMA NotFound ==
    ASSUME TypeOK, LogShape, NEW q \in Plan
    PROVE  Landed(q, LastVersion) <=> LandedIn(log, q)
<1>0. LastVersion \in Nat /\ version[q] \in Nat
  BY DEF TypeOK, LastVersion
<1>1. ASSUME NEW v \in 1..LastVersion, log[v].adds = {q} PROVE Landed(q, LastVersion)
  <2>1. version[q] < v
    BY <1>1, LandedBy
  <2>2. v \in (version[q] + 1)..LastVersion
    BY <1>0, <2>1
  <2> QED BY <1>1, <2>2 DEF Landed, Landings
<1>2. ASSUME NEW v \in (version[q] + 1)..LastVersion, log[v].adds = {q} PROVE LandedIn(log, q)
  <2>1. v \in 1..LastVersion
    BY <1>0
  <2> QED BY <1>2, <2>1 DEF LandedIn, LastVersion
<1> QED BY <1>1, <1>2 DEF Landed, Landings, LandedIn, LastVersion

\* What a driver claims of its files after a step, it claimed before it, or it has
\* just looked, or just committed.
LEMMA ClaimStep ==
    ASSUME TypeOK, NEW q \in Plan \ Empty, Acts(q),
           result[q] \in {"failed", "refused"} => pc[q] \in {"idle", "abort", "delete"}
    PROVE  /\ Looked(q)' => \/ Looked(q) /\ ~SendCommits(q)
                            \/ Attempt(q) /\ ~Landed(q, Latest(FreshTail(q)))
           /\ result'[q] \in {"failed", "refused"} => pc'[q] \in {"idle", "abort", "delete"}
           /\ result'[q] = "committed" => \/ result[q] = "committed" \/ SendCommits(q)
                                          \/ Attempt(q) /\ Landed(q, Latest(FreshTail(q)))
<1> USE DEF TypeOK, Goto, Finish, Looked, Before
<1>1. CASE PlanWrite(q)
  BY <1>1 DEF PlanWrite, SendCommits
<1>2. CASE WriteFiles(q)
  BY <1>2 DEF WriteFiles, SendCommits
<1>3. CASE CommitCall(q)
  BY <1>3 DEF CommitCall, SendCommits
<1>4. CASE Attempt(q)
  <2>1. tail'[q] = FreshTail(q)
    BY <1>4 DEF Attempt
  <2>2. CASE Landed(q, Latest(FreshTail(q)))
    <3>1. Finish(q, "committed") \/ Finish(q, "unreachable")
      BY <1>4, <2>1, <2>2 DEF Attempt
    <3> QED BY <1>4, <2>2, <3>1
  <2>3. CASE ~Landed(q, Latest(FreshTail(q)))
    <3>1. (Goto(q, "moved") \/ Goto(q, "snapshot")) /\ pc[q] = "attempt"
      BY <1>4, <2>1, <2>3 DEF Attempt
    <3> QED BY <1>4, <2>3, <3>1
  <2> QED BY <2>2, <2>3
<1>5. CASE CheckMoved(q)
  BY <1>5 DEF CheckMoved, SendCommits
<1>6. CASE Snapshot(q)
  BY <1>6 DEF Snapshot, SendCommits
<1>7. CASE SendCommits(q)
  BY <1>7 DEF SendCommits
<1>8. CASE SendRefused(q)
  BY <1>8 DEF SendRefused, SendCommits
<1>9. CASE Publish(q)
  BY <1>9 DEF Publish, SendCommits
<1>10. CASE Reread(q)
  BY <1>10 DEF Reread, SendCommits
<1>11. CASE Unanswered(q)
  BY <1>11 DEF Unanswered, SendCommits
<1>12. CASE Conflict(q)
  BY <1>12 DEF Conflict, SendCommits
<1>13. CASE CertainFailure(q)
  BY <1>13 DEF CertainFailure, SendCommits
<1>14. CASE AbortCheck(q)
  BY <1>14 DEF AbortCheck, SendCommits
<1>15. CASE Delete(q)
  BY <1>15 DEF Delete, SendCommits
<1>16. CASE CannotTell(q)
  BY <1>16 DEF CannotTell, SendCommits
<1>17. CASE SendUnanswered(q)
  BY <1>17 DEF SendUnanswered, SendCommits
<1>18. CASE Crash(q)
  BY <1>18 DEF Crash, SendCommits
<1>19. CASE AbortCall(q)
  BY <1>19 DEF AbortCall, SendCommits
<1> QED BY <1>1, <1>2, <1>3, <1>4, <1>5, <1>6, <1>7, <1>8, <1>9, <1>10, <1>11, <1>12, <1>13,
           <1>14, <1>15, <1>16, <1>17, <1>18, <1>19 DEF Acts, Step, Fail

\* LookedInv is preserved.
LEMMA LookedStep ==
    ASSUME SafeInv, LookedInv, [Next]_vars
    PROVE  LookedInv'
<1> USE DEF SafeInv
<1>1. setting' = setting
  BY NextTyped
<1>2. Faults' = Faults /\ Empty' = Empty /\ \A q \in Plan : Sees(q)' <=> Sees(q)
  BY <1>1 DEF Faults, Empty, Sees, managed
<1>3. "late" \notin Faults => inflight' = {}
  BY InflightStep DEF LookedInv, Sent
<1>4. ASSUME NEW q \in Plan \ Empty
      PROVE  /\ Sees(q) /\ Looked(q)' => ~LandedIn(log', q)
             /\ result'[q] \in {"failed", "refused"} => pc'[q] \in {"idle", "abort", "delete"}
             /\ result'[q] = "committed" => LandedIn(log', q)
  <2>1. /\ Sees(q) /\ Looked(q) => ~LandedIn(log, q)
        /\ result[q] \in {"failed", "refused"} => pc[q] \in {"idle", "abort", "delete"}
        /\ result[q] = "committed" => LandedIn(log, q)
    BY DEF LookedInv
  <2>2. LandedIn(log, q) => LandedIn(log', q)
    BY LogGrows
  <2>3. ASSUME Sees(q), ~SendCommits(q) PROVE LandedIn(log', q) => LandedIn(log, q)
    <3>0. inflight = {}
      BY <2>3 DEF Sees, LookedInv
    <3>1. ASSUME NEW l \in BOOLEAN, Extension(log, OtherRecord(l), log')
          PROVE  LandedIn(log', q) => LandedIn(log, q)
      BY <3>1 DEF Extension, OtherRecord
    <3>2. ASSUME NEW p \in Plan, Extension(log, Record(p), log'), p # q
          PROVE  LandedIn(log', q) => LandedIn(log, q)
      <4>1. Record(p).adds = Files(p)
        BY RecordTyped
      <4>2. Files(p) # {q}
        BY <3>2 DEF Files
      <4> QED BY <3>2, <4>1, <4>2 DEF Extension
    <3> QED BY <2>3, <3>0, <3>1, <3>2, Appended
  <2>4. CASE Untouched(q)
    <3>1. ~SendCommits(q)
      BY <2>4 DEF Untouched, SendCommits, Goto, Finish, TypeOK
    <3>2. Looked(q)' <=> Looked(q)
      BY <2>4 DEF Untouched, Looked
    <3> QED BY <2>1, <2>2, <2>3, <2>4, <3>1, <3>2 DEF Untouched
  <2>5. CASE Acts(q)
    <3>1. /\ Looked(q)' => \/ Looked(q) /\ ~SendCommits(q)
                           \/ Attempt(q) /\ ~Landed(q, Latest(FreshTail(q)))
          /\ result'[q] \in {"failed", "refused"} => pc'[q] \in {"idle", "abort", "delete"}
          /\ result'[q] = "committed" => \/ result[q] = "committed" \/ SendCommits(q)
                                         \/ Attempt(q) /\ Landed(q, Latest(FreshTail(q)))
      BY <2>1, <2>5, ClaimStep
    <3>2. Sees(q) => Latest(FreshTail(q)) = LastVersion
      BY DEF Sees, Latest, FreshTail, Rereads
    <3>3. Attempt(q) => log' = log /\ ~SendCommits(q)
      BY DEF Attempt, world, SendCommits
    <3>4. ASSUME Sees(q), Looked(q)' PROVE ~LandedIn(log', q)
      BY <2>1, <2>3, <3>1, <3>2, <3>3, <3>4, NotFound
    <3>5. ASSUME Landed(q, Latest(FreshTail(q))) PROVE LandedIn(log, q)
      <4>1. LastVersion \in Nat /\ FreshTail(q) <= LastVersion /\ FreshTail(q) \in Nat
        BY DEF VersionsBehind, FreshTail, TypeOK, LastVersion
      <4>2. Latest(FreshTail(q)) \in Nat /\ Latest(FreshTail(q)) <= LastVersion
        BY <4>1 DEF Latest
      <4>3. Landed(q, LastVersion)
        <5>1. PICK i \in (version[q] + 1)..Latest(FreshTail(q)) : log[i].adds = {q}
          BY <3>5 DEF Landed, Landings
        <5>2. i \in (version[q] + 1)..LastVersion
          BY <4>1, <4>2 DEF TypeOK
        <5> QED BY <5>1, <5>2 DEF Landed, Landings
      <4> QED BY <4>3, NotFound
    <3>6. ASSUME SendCommits(q) PROVE LandedIn(log', q)
      <4>1. Record(q) \in CommitRecord /\ Record(q).adds = {q}
        BY RecordTyped DEF Files
      <4>2. log' = Append(log, Record(q)) /\ log \in Seq(CommitRecord)
        BY <3>6 DEF SendCommits, TypeOK
      <4> HIDE DEF CommitRecord, Record
      <4>3. Extension(log, Record(q), log')
        BY <4>1, <4>2, AppendFacts
      <4> QED BY <4>1, <4>3 DEF Extension
    <3>7. result'[q] = "committed" => LandedIn(log', q)
      BY <2>1, <2>2, <3>1, <3>5, <3>6
    <3> QED BY <3>1, <3>4, <3>7
  <2> QED BY <2>4, <2>5, Others
<1> QED BY <1>2, <1>3, <1>4 DEF LookedInv

\* LookedInv is an invariant.
LEMMA LookedInvariant == Spec => []LookedInv
<1>1. Init => LookedInv
  BY DEF Init, LookedInv, LandedIn
<1>2. SafeInv /\ LookedInv /\ [Next]_vars => LookedInv'
  BY LookedStep
<1> QED BY <1>1, <1>2, SafeInvariant, PTL DEF Spec

\* The settings in which every plan of a catalog-managed table can read the commit
\* tail again, as a plan that still has its table handle can.
TailAtHand ==
    \A s \in Settings : s.managed /\ "late" \notin s.faults => s.catalog = Plan

\* commit() returns success only for files that are in a version and raises a
\* certain failure only for files that are in none, provided every plan of a
\* catalog-managed table can read the commit tail again.
THEOREM CallersToldTheTruth == TailAtHand => (Spec => []OutcomeTruthful)
<1> SUFFICES ASSUME TailAtHand PROVE Spec => []OutcomeTruthful
  OBVIOUS
<1>1. SafeInv /\ LookedInv => OutcomeTruthful
  <2> SUFFICES ASSUME SafeInv, LookedInv, "late" \notin Faults, NEW p \in Plan \ Empty
               PROVE  /\ result[p] = "committed" => LandedIn(log, p)
                      /\ result[p] \in {"failed", "refused"} => ~LandedIn(log, p)
    BY DEF OutcomeTruthful, LandedIn, LastVersion
  <2>1. Sees(p)
    BY DEF Sees, SafeInv, SettingKept, managed, TailAtHand, Faults
  <2>2. result[p] \in {"failed", "refused"} => Looked(p)
    BY DEF LookedInv, Looked
  <2> QED BY <2>1, <2>2 DEF LookedInv
<1> QED BY <1>1, SafeInvariant, LookedInvariant, PTL

-----------------------------------------------------------------------------
(* The driver implements LandOrDiscard *)

\* A plan that commits has not landed before, or is Repeatable.
LEMMA LandsFresh ==
    ASSUME SafeInv, LookedInv, NEW p \in (Plan \ Empty) \ Repeatable,
           SendCommits(p) \/ \E r \in inflight : LandLate(r) /\ r.plan = p
    PROVE  ~LandedIn(log, p)
<1> USE DEF SafeInv
<1> SUFFICES ASSUME LandedIn(log, p) PROVE FALSE
  OBVIOUS
<1>0. LastVersion \in Nat /\ version[p] \in Nat
  BY DEF TypeOK, LastVersion
<1>1. PICK v \in 1..LastVersion : log[v].adds = {p}
  BY DEF LandedIn, LastVersion
<1>2. version[p] < v /\ log[v].txn = TxnOf[p]
  BY <1>1, LandedBy
<1>3. ~TxnIn(log, TxnOf[p], LastVersion) /\ (Pinned(p) => version[p] = LastVersion)
  BY CommitReady
<1>4. TxnOf[p] = NoTxn /\ ~Pinned(p)
  BY <1>0, <1>2, <1>3 DEF TxnIn
<1>5. "late" \notin Faults
  BY <1>4 DEF Repeatable, Pinned
<1>6. Sees(p) /\ Looked(p)
  BY <1>4, <1>5 DEF Sees, Pinned, LookedInv, Looked, SendCommits
<1> QED BY <1>6 DEF LookedInv

\* The files a version can add, by what was proved of the log.
LEMMA HistoryIsLog ==
    ASSUME TypeOK, LogShape, NEW q \in Plan
    PROVE  q \in Abstract!Landed <=> LandedIn(log, q)
<1>1. q \in Abstract!Landed <=> \E v \in 1..LastVersion : q \in log[v].adds
  BY DEF Abstract!Landed, landed
<1>2. \A v \in 1..LastVersion : q \in log[v].adds <=> log[v].adds = {q}
  BY LandedBy
<1> QED BY <1>1, <1>2 DEF LandedIn, LastVersion

\* A new version is a new element of the history.
LEMMA HistoryGrows ==
    ASSUME TypeOK, NEW r, Extension(log, r, log')
    PROVE  landed' = Append(landed, r.adds)
<1> DEFINE n == Len(log)
<1>1. n \in Nat /\ Len(log') = n + 1 /\ log'[n + 1] = r /\ \A i \in 1..n : log'[i] = log[i]
  BY DEF TypeOK, Extension
<1>2. landed = [v \in 1..n |-> log[v].adds] /\ landed' = [v \in 1..(n + 1) |-> log'[v].adds]
  BY <1>1 DEF landed, LastVersion
<1> HIDE DEF n
<1>3. Append(landed, r.adds) = [v \in 1..(n + 1) |-> IF v = n + 1 THEN r.adds ELSE landed[v]]
  BY <1>1, <1>2
<1>4. \A v \in 1..(n + 1) : log'[v].adds = IF v = n + 1 THEN r.adds ELSE landed[v]
  BY <1>1, <1>2
<1> QED BY <1>2, <1>3, <1>4

\* Files are in storage once they were written, until their plan deletes them.
LEMMA DiscardStep ==
    ASSUME SafeInv, [Next]_vars, NEW q \in Plan
    PROVE  /\ ~Delete(q) => (q \in discarded' <=> q \in discarded)
           /\ Delete(q) => discarded' \in {discarded, discarded \cup ({q} \ Empty)}
<1> USE DEF SafeInv
<1>1. setting' = setting
  BY NextTyped
<1>2. Empty' = Empty
  BY <1>1 DEF Empty
<1>3. ASSUME NEW p \in Plan PROVE p \in store' => p \in store \/ WriteFiles(p)
  <2>1. CASE UNCHANGED vars
    BY <2>1 DEF vars
  <2>2. ASSUME NEW k \in Plan, Step(k) PROVE p \in store' => p \in store \/ WriteFiles(p)
    BY <2>2 DEF Step, PlanWrite, WriteFiles, CommitCall, Attempt, CheckMoved, Snapshot,
                SendCommits, SendRefused, Publish, Reread, Unanswered, Conflict, CertainFailure,
                AbortCheck, Delete, world, Files
  <2>3. ASSUME NEW k \in Plan, Fail(k) \/ AbortCall(k) PROVE store' = store
    BY <2>3 DEF Fail, CannotTell, SendUnanswered, Crash, AbortCall, world
  <2>4. ASSUME NEW r \in inflight, LandLate(r) PROVE store' = store
    BY <2>4 DEF LandLate
  <2>5. ASSUME OtherCommit PROVE store' = store
    BY <2>5 DEF OtherCommit
  <2> QED BY <2>1, <2>2, <2>3, <2>4, <2>5 DEF Next
<1>4. ASSUME NEW p \in Plan, pc[p] \in Before PROVE pc'[p] \in Before \/ WriteFiles(p)
  <2>1. PlanWrite(p) => pc'[p] \in Before
    BY DEF PlanWrite, Goto, Before, TypeOK
  <2> QED BY <1>4, <2>1, Others, Arrivals DEF Untouched, Before
<1>5. ASSUME NEW p \in Plan, ~Delete(p) PROVE p \in discarded' <=> p \in discarded
  <2>1. WriteFiles(p) => (p \in store' \/ p \in Empty) /\ pc[p] \in Before
    BY DEF WriteFiles, Files, Before
  <2>2. pc'[p] \in Before => pc[p] \in Before
    BY Frame
  <2>3. p \in store => p \in store'
    BY <1>5, StoreStep
  <2>4. p \in discarded <=> p \notin Empty /\ pc[p] \notin Before /\ p \notin store
    BY DEF discarded, Before
  <2>5. p \in discarded' <=> p \notin Empty /\ pc'[p] \notin Before /\ p \notin store'
    BY <1>2 DEF discarded, Before
  <2> QED BY <1>3, <1>4, <2>1, <2>2, <2>3, <2>4, <2>5
<1>6. ASSUME Delete(q) PROVE discarded' \in {discarded, discarded \cup ({q} \ Empty)}
  <2>1. \A p \in Plan \ {q} : ~Delete(p)
    BY <1>6 DEF Delete, Finish, TypeOK
  <2>2. \A p \in Plan \ {q} : p \in discarded' <=> p \in discarded
    BY <1>5, <2>1
  <2>3. /\ q \in discarded <=> q \notin Empty /\ q \notin store
        /\ q \in discarded' <=> q \notin Empty /\ q \notin store'
        /\ q \notin store => q \notin store'
    BY <1>2, <1>6 DEF discarded, Delete, Finish, TypeOK
  <2>4. discarded \subseteq Plan /\ discarded' \subseteq Plan
    BY DEF discarded
  <2> QED BY <2>2, <2>3, <2>4
<1> QED BY <1>5, <1>6

\* Every step of the drivers is one of LandOrDiscard, or none.
LEMMA RefinementStep ==
    ASSUME SafeInv, LookedInv, [Next]_vars
    PROVE  [Abstract!Next]_(Abstract!vars)
<1> USE DEF SafeInv
<1>0. Repeatable' = Repeatable
  <2>1. setting' = setting
    BY NextTyped
  <2> QED BY <2>1 DEF Repeatable, TxnOf, Faults, Guarded, managed
<1>1. CASE log' = log
  <2>1. landed' = landed
    BY <1>1 DEF landed, LastVersion
  <2>2. ASSUME NEW q \in Plan, Delete(q) PROVE [Abstract!Next]_(Abstract!vars)
    <3>1. discarded' = discarded \/ (discarded' = discarded \cup {q} /\ q \notin Empty)
      BY <2>2, DiscardStep
    <3>2. CASE discarded' = discarded \/ q \in discarded
      BY <1>0, <2>1, <3>1, <3>2 DEF Abstract!vars
    <3>3. CASE discarded' = discarded \cup {q} /\ q \notin discarded
      <4>1. q \notin Abstract!Landed
        BY <2>2, HistoryIsLog DEF DeletesUnlanded, Delete
      <4>2. Abstract!Discard(q)
        BY <2>1, <3>3, <4>1 DEF Abstract!Discard
      <4> QED BY <1>0, <4>2 DEF Abstract!Next
    <3> QED BY <3>1, <3>2, <3>3
  <2>3. CASE \A q \in Plan : ~Delete(q)
    <3>1. \A q \in Plan : q \in discarded' <=> q \in discarded
      BY <2>3, DiscardStep
    <3>2. discarded \subseteq Plan /\ discarded' \subseteq Plan
      BY DEF discarded
    <3>3. discarded' = discarded
      BY <3>1, <3>2
    <3> QED BY <1>0, <2>1, <3>3 DEF Abstract!vars
  <2> QED BY <2>2, <2>3
<1>2. CASE log' # log
  <2>1. \A q \in Plan : ~Delete(q)
    BY <1>2 DEF Delete
  <2>2. discarded' = discarded
    <3>1. \A q \in Plan : q \in discarded' <=> q \in discarded
      BY <2>1, DiscardStep
    <3>2. discarded \subseteq Plan /\ discarded' \subseteq Plan
      BY DEF discarded
    <3> QED BY <3>1, <3>2
  <2>3. ASSUME NEW r, Extension(log, r, log'), r.adds = {} PROVE Abstract!Pass
    BY <2>2, <2>3, HistoryGrows DEF Abstract!Pass
  <2>4. ASSUME NEW l \in BOOLEAN, Extension(log, OtherRecord(l), log') PROVE Abstract!Next
    <3>1. OtherRecord(l).adds = {}
      BY DEF OtherRecord
    <3> QED BY <1>0, <2>3, <2>4, <3>1 DEF Abstract!Next
  <2>5. ASSUME NEW p \in Plan, Extension(log, Record(p), log'),
               SendCommits(p) \/ \E r \in inflight : LandLate(r) /\ r.plan = p
        PROVE  Abstract!Next
    <3>0. Record(p).adds = Files(p)
      BY RecordTyped
    <3>1. CASE p \in Empty
      BY <1>0, <2>3, <2>5, <3>0, <3>1 DEF Abstract!Next, Files
    <3>2. CASE p \notin Empty
      <4>1. p \notin Repeatable => ~LandedIn(log, p)
        BY <2>5, <3>2, LandsFresh
      <4>2. p \in Abstract!Landed => p \in Repeatable
        BY <4>1, HistoryIsLog
      <4>3. p \notin discarded
        <5>1. p \in store
          BY <2>5, <3>2, CommitReady
        <5> QED BY <5>1 DEF discarded
      <4>4. landed' = Append(landed, {p})
        BY <2>5, <3>0, <3>2, HistoryGrows DEF Files
      <4>5. Abstract!Land(p)
        BY <2>2, <4>2, <4>3, <4>4 DEF Abstract!Land
      <4> QED BY <1>0, <4>5 DEF Abstract!Next
    <3> QED BY <3>1, <3>2
  <2> QED BY <1>2, <2>4, <2>5, Appended
<1> QED BY <1>1, <1>2

\* In every setting, whatever is retried, restarted, lost or late: the files of a plan
\* are committed or deleted, never both, and committed once, unless requests outlive
\* their answer and only the look of an attempt (WritePlan._landed_version) keeps the
\* plan, an append or unguarded overwrite without a txn, from landing again.
THEOREM DriverImplementsLandOrDiscard == Spec => LandsOnceOrDiscarded
<1>1. Init => Abstract!Init
  <2> SUFFICES ASSUME Init PROVE landed = <<>> /\ discarded = {}
    BY DEF Abstract!Init, Repeatable
  <2>1. LastVersion = 0
    BY DEF Init, LastVersion
  <2> QED BY <2>1 DEF Init, landed, discarded
<1>2. SafeInv /\ LookedInv /\ [Next]_vars => [Abstract!Next]_(Abstract!vars)
  BY RefinementStep
<1> QED BY <1>1, <1>2, SafeInvariant, LookedInvariant, PTL DEF Spec, LandsOnceOrDiscarded, Abstract!Spec
=============================================================================
