-------------------------- MODULE TableWriteProofs --------------------------
(***************************************************************************)
(* Proofs about TableWrite, for any number of writers, attempts and        *)
(* versions and any set of faults (one theorem excludes one of them).      *)
(***************************************************************************)
EXTENDS TableWrite, TLAPS

-----------------------------------------------------------------------------
(* Types *)

\* A commit built from well-typed state is a commit record.
LEMMA CommitTyped ==
    ASSUME TypeOK, NEW w \in Writer, base[w] <= LastVersion
    PROVE  Commit(w) \in CommitRecord
<1>1. LiveAt(base[w]) \subseteq File
  <2>1. \A i \in 1..base[w] : log[i] \in CommitRecord
    <3>1. log \in Seq(CommitRecord) /\ base[w] \in Nat
      BY DEF TypeOK
    <3> HIDE DEF CommitRecord
    <3> QED BY <3>1 DEF LastVersion
  <2>2. \A i \in 1..base[w] : log[i].adds \subseteq File
    BY <2>1 DEF CommitRecord
  <2> QED BY <2>2 DEF LiveAt
<1>2. staged[w] \subseteq File
  BY DEF TypeOK
<1> QED BY <1>1, <1>2 DEF Commit, CommitRecord

\* Initially every variable has its type.
LEMMA InitTyped == Init => TypeOK
BY ConstantsAssumption DEF Init, TypeOK, Errors, Classify, File

\* What a handle's tail becomes is a version.
LEMMA TailTyped ==
    ASSUME TypeOK, NEW w \in Writer, NEW S, NEW t \in TailAfter(w, S)
    PROVE  t \in Nat /\ [tail EXCEPT ![w] = t] \in [Writer -> Nat]
<1>1. LastVersion \in Nat /\ tail \in [Writer -> Nat]
  BY DEF TypeOK, LastVersion
<1>2. t = LastVersion \/ t = tail[w]
  BY DEF TailAfter
<1> QED BY <1>1, <1>2

\* No step of any call breaks a type.
LEMMA NextTyped == TypeOK /\ [Next]_vars => TypeOK'
<1> SUFFICES ASSUME TypeOK, [Next]_vars PROVE TypeOK'
  OBVIOUS
<1>t. \A w \in Writer : \A S : \A t \in TailAfter(w, S) :
        [tail EXCEPT ![w] = t] \in [Writer -> Nat]
  BY TailTyped
<1> USE ConstantsAssumption DEF TypeOK
<1>0. LastVersion \in Nat
  BY DEF LastVersion
<1>1. CASE UNCHANGED vars
  BY <1>1 DEF vars
<1>2. ASSUME NEW w \in Writer, Open(w) PROVE TypeOK'
  <2>1. /\ Finish(w, "skipped") \/ Goto(w, "read")
        /\ \E t \in TailAfter(w, {"tail"}) : tail' = [tail EXCEPT ![w] = t]
    BY <1>2 DEF Open
  <2>2. tail' \in [Writer -> Nat]
    BY <1>t, <2>1
  <2>3. /\ pc' = [pc EXCEPT ![w] = "done"] \/ pc' = [pc EXCEPT ![w] = "read"]
        /\ result' = result \/ result' = [result EXCEPT ![w] = "skipped"]
    BY <2>1 DEF Finish, Goto
  <2>4. UNCHANGED <<log, published, store, round, engineVars, writes, staged, reply, error,
                    backfilled>>
    BY <1>2 DEF Open
  <2> QED BY <2>2, <2>3, <2>4 DEF engineVars
<1>3. ASSUME NEW w \in Writer, ReadSnapshot(w) PROVE TypeOK'
  <2> DEFINE seen == IF managed /\ attempt[w] > 0 THEN LastVersion ELSE known[w]
             v    == IF managed THEN Max2(tail[w], seen) ELSE LastVersion
  <2>1. seen \in Nat /\ v \in Nat
    BY <1>0 DEF Max2
  <2>2. known' = [known EXCEPT ![w] = seen] /\ base' = [base EXCEPT ![w] = v]
    BY <1>3 DEF ReadSnapshot
  <2>3. known' \in [Writer -> Nat] /\ base' \in [Writer -> Nat]
    BY <2>1, <2>2
  <2>4. CASE Recorded(TxnOf[w], v)
    <3>1. error' = [error EXCEPT ![w] = "TxnCommitted"] /\ Goto(w, "raised")
      BY <1>3, <2>4 DEF ReadSnapshot
    <3> QED BY <1>3, <2>3, <3>1 DEF ReadSnapshot, Goto, handleVars, Errors
  <2>5. CASE ~Recorded(TxnOf[w], v)
    <3>1. error' = error /\ Goto(w, "stage")
      BY <1>3, <2>5 DEF ReadSnapshot
    <3> QED BY <1>3, <2>3, <3>1 DEF ReadSnapshot, Goto, handleVars
  <2> QED BY <2>4, <2>5
<1>4. ASSUME NEW w \in Writer, Stage(w) PROVE TypeOK'
  <2>1. <<w, writes[w] + 1>> \in File
    BY DEF File
  <2>2. store' \subseteq File /\ staged' \in [Writer -> SUBSET File]
    BY <1>4, <2>1 DEF Stage
  <2>3. writes' \in [Writer -> Nat]
    BY <1>4 DEF Stage
  <2>4. /\ UNCHANGED <<log, published, handleVars, engineVars, reply, error, result>>
        /\ pc' = [pc EXCEPT ![w] = "commit"]
    BY <1>4 DEF Stage, Goto
  <2> QED BY <2>2, <2>3, <2>4 DEF engineVars, handleVars
<1>5. ASSUME NEW w \in Writer, Ratify(w) PROVE TypeOK'
  <2>1. Commit(w) \in CommitRecord
    <3>1. LastVersion = base[w]
      BY <1>5 DEF Ratify
    <3> QED BY <3>1, CommitTyped DEF LastVersion
  <2>2. log' \in Seq(CommitRecord)
    BY <1>5, <2>1 DEF Ratify
  <2>3. PICK r \in {"ok"} \cup DOMAIN Classify : reply' = [reply EXCEPT ![w] = r]
    BY <1>5 DEF Ratify, Classify
  <2>4. UNCHANGED <<published, store, handleVars, engineVars, writes, staged, error, result>>
        /\ pc' = [pc EXCEPT ![w] = "settle"]
    BY <1>5 DEF Ratify, Goto
  <2> QED BY <2>2, <2>3, <2>4 DEF engineVars, handleVars, Classify
<1>6. ASSUME NEW w \in Writer, Refuse(w) PROVE TypeOK'
  <2>1. PICK r \in DOMAIN Classify : reply' = [reply EXCEPT ![w] = r]
    BY <1>6 DEF Refuse, Classify
  <2>2. UNCHANGED <<log, published, store, handleVars, engineVars, writes, staged, error, result>>
        /\ pc' = [pc EXCEPT ![w] = "settle"]
    BY <1>6 DEF Refuse, Goto
  <2> QED BY <2>1, <2>2 DEF engineVars, handleVars, Classify
<1>7. ASSUME NEW w \in Writer, Committed(w) PROVE TypeOK'
  BY <1>7 DEF Committed, Finish, engineVars, handleVars
<1>8. ASSUME NEW w \in Writer, Failed(w) PROVE TypeOK'
  <2>1. error' \in [Writer -> Errors]
    <3>1. Classify[reply[w]] \in Errors
      BY <1>8 DEF Failed, Errors
    <3> QED BY <1>8, <3>1 DEF Failed
  <2>3. \/ store' = store
        \/ \E left \in SUBSET Undeletable(staged[w]) : store' = (store \ staged[w]) \cup left
    BY <1>8 DEF Failed
  <2>4. \A left \in SUBSET Undeletable(staged[w]) : left \subseteq File
    BY DEF Undeletable
  <2>2. store' \subseteq File
    BY <2>3, <2>4
  <2> QED BY <1>8, <2>1, <2>2 DEF Failed, Goto, engineVars, handleVars
<1>9. ASSUME NEW w \in Writer, NextAttempt(w) PROVE TypeOK'
  <2>0. \/ attempt' = attempt
        \/ attempt' = [attempt EXCEPT ![w] = attempt[w] + 1]
    BY <1>9 DEF NextAttempt
  <2>1. attempt' \in [Writer -> Nat]
    BY <2>0, attempt[w] + 1 \in Nat
  <2>3. UNCHANGED result
    BY <1>9 DEF NextAttempt, Goto
  <2>2. \/ pc' = [pc EXCEPT ![w] = "read"]
        \/ pc' = [pc EXCEPT ![w] = "table"]
    BY <1>9 DEF NextAttempt, Goto
  <2> QED BY <1>9, <2>1, <2>2, <2>3 DEF NextAttempt, engineVars, handleVars
<1>10. ASSUME NEW w \in Writer, Backfill(w) PROVE TypeOK'
  <2>1. Max2(published, View(w)) \in Nat
    BY <1>0 DEF Max2, View
  <2>2. published' \in Nat
    BY <1>10, <2>1 DEF Backfill
  <2>3. Finish(w, "backfill") \/ Goto(w, "reread")
    BY <1>10 DEF Backfill
  <2>4. /\ pc' = [pc EXCEPT ![w] = "done"] \/ pc' = [pc EXCEPT ![w] = "reread"]
        /\ result' = result \/ result' = [result EXCEPT ![w] = "backfill"]
    BY <2>3 DEF Finish, Goto
  <2> QED BY <1>10, <2>2, <2>4 DEF Backfill, engineVars, handleVars
<1>17. ASSUME NEW w \in Writer, Reread(w) PROVE TypeOK'
  <2>0. \E t \in TailAfter(w, {"tail", "missing"}) : tail' = [tail EXCEPT ![w] = t]
    BY <1>17 DEF Reread
  <2>5. tail' \in [Writer -> Nat]
    BY <1>t, <2>0
  <2>1. attempt' \in [Writer -> Nat] /\ backfilled' \in [Writer -> BOOLEAN]
    BY <1>17 DEF Reread
  <2>2. Finish(w, "backfill") \/ Goto(w, "read")
    BY <1>17 DEF Reread
  <2>3. /\ pc' = [pc EXCEPT ![w] = "done"] \/ pc' = [pc EXCEPT ![w] = "read"]
        /\ result' = result \/ result' = [result EXCEPT ![w] = "backfill"]
    BY <2>2 DEF Finish, Goto
  <2>4. UNCHANGED <<log, published, store, round, known, base, writes, staged, reply, error>>
    BY <1>17 DEF Reread
  <2> QED BY <2>1, <2>3, <2>4, <2>5
<1>11. ASSUME NEW w \in Writer, SurfaceConflict(w) PROVE TypeOK'
  BY <1>11 DEF SurfaceConflict, Finish, engineVars, handleVars
<1>12. ASSUME NEW w \in Writer, ManagedConflict(w) PROVE TypeOK'
  <2>1. /\ tail' \in [Writer -> Nat] /\ attempt' \in [Writer -> Nat]
        /\ round' \in [Writer -> Nat]
    <3>0. tail' = tail \/ \E t \in TailAfter(w, {"tail"}) : tail' = [tail EXCEPT ![w] = t]
      BY <1>12 DEF ManagedConflict
    <3>1. \/ UNCHANGED <<attempt, round>>
          \/ /\ attempt' = [attempt EXCEPT ![w] = 0]
             /\ round' = [round EXCEPT ![w] = round[w] + 1]
      BY <1>12 DEF ManagedConflict
    <3>2. tail' \in [Writer -> Nat]
      <4>1. CASE tail' = tail
        BY <4>1
      <4>2. CASE \E t \in TailAfter(w, {"tail"}) : tail' = [tail EXCEPT ![w] = t]
        BY <1>t, <4>2
      <4> QED BY <3>0, <4>1, <4>2
    <3>3. attempt' \in [Writer -> Nat]
      <4>1. attempt \in [Writer -> Nat] /\ 0 \in Nat
        OBVIOUS
      <4>2. [attempt EXCEPT ![w] = 0] \in [Writer -> Nat]
        BY <4>1
      <4> QED BY <3>1, <4>1, <4>2
    <3>4. round' \in [Writer -> Nat]
      <4>1. round \in [Writer -> Nat] /\ round[w] + 1 \in Nat
        OBVIOUS
      <4>2. [round EXCEPT ![w] = round[w] + 1] \in [Writer -> Nat]
        BY <4>1
      <4> QED BY <3>1, <4>1, <4>2
    <3> QED BY <3>2, <3>3, <3>4
  <2>2. backfilled' \in [Writer -> BOOLEAN]
    BY <1>12 DEF ManagedConflict
  <2>3. Finish(w, "conflict") \/ Finish(w, "skipped") \/ Goto(w, "read")
    BY <1>12 DEF ManagedConflict
  <2>4. /\ pc' \in [Writer -> {"open", "read", "stage", "commit", "settle", "raised",
                               "table", "reread", "done"}]
        /\ \/ result' = result
           \/ result' = [result EXCEPT ![w] = "conflict"]
           \/ result' = [result EXCEPT ![w] = "skipped"]
    BY <2>3 DEF Finish, Goto
  <2>5. \A x \in Writer : pc'[x] = "settle" => pc[x] = "settle"
    BY <2>3 DEF Finish, Goto
  <2> QED BY <1>12, <2>1, <2>2, <2>4, <2>5 DEF ManagedConflict
<1>13. ASSUME NEW w \in Writer, GiveUp(w) PROVE TypeOK'
  BY <1>13 DEF GiveUp, Finish, engineVars, handleVars
<1>14. ASSUME NEW w \in Writer, TailUnreadable(w) PROVE TypeOK'
  BY <1>14 DEF TailUnreadable, Finish, engineVars, handleVars
<1>15. ASSUME NEW w \in Writer, StageFails(w) PROVE TypeOK'
  <2>1. <<w, writes[w] + 1>> \in File
    BY DEF File
  <2>3. PICK left \in SUBSET Undeletable({<<w, writes[w] + 1>>}) : store' = store \cup left
    BY <1>15 DEF StageFails
  <2>4. left \subseteq {<<w, writes[w] + 1>>}
    BY DEF Undeletable
  <2>2. store' \subseteq File
    BY <2>1, <2>3, <2>4
  <2> QED BY <1>15, <2>2 DEF StageFails, Finish, engineVars, handleVars
<1>16. ASSUME NEW w \in Writer, Crash(w) PROVE TypeOK'
  BY <1>16 DEF Crash, Finish, engineVars, handleVars
<1>18. ASSUME NEW w \in Writer, TailRefused(w) PROVE TypeOK'
  BY <1>18 DEF TailRefused, Finish, engineVars, handleVars
<1> QED
  BY <1>1, <1>2, <1>3, <1>4, <1>5, <1>6, <1>7, <1>8, <1>9, <1>10, <1>11, <1>12, <1>13,
     <1>14, <1>15, <1>16, <1>17, <1>18 DEF Next, Step, Fail, Terminated

\* Type correctness: the variables keep their types in every behaviour of the
\* writers, whatever the log answers.
THEOREM TypeCorrect == Spec => []TypeOK
BY InitTyped, NextTyped, PTL DEF Spec

-----------------------------------------------------------------------------
(* Landing once *)

Landed(w) == \E v \in 1..LastVersion : log[v].by = w

\* A call whose commit is in the log has been told so, or has been told that the
\* outcome is unknown, and will not commit again.
LandedCallsStop ==
    \A w \in Writer : Landed(w) =>
        \/ pc[w] = "done"
        \/ pc[w] = "settle" /\ reply[w] \in {"ok", "io", "server"}
        \/ pc[w] \in {"raised", "table"} /\ error[w] \in {"Kernel", "Retryable"}

OnceInv == LandedCallsStop /\ LandsOnce

\* Only Ratify changes the log.
LEMMA OnlyRatifyCommits ==
    ASSUME NEW w \in Writer, Step(w) \/ Fail(w)
    PROVE  Ratify(w) \/ UNCHANGED log
BY DEF Step, Fail, Open, ReadSnapshot, Stage, Refuse, Committed, Failed, NextAttempt, Backfill, Reread,
       SurfaceConflict, ManagedConflict, GiveUp, TailUnreadable, TailRefused, StageFails, Crash

\* A failure outside the call's control ends it.
LEMMA FailEnds ==
    ASSUME TypeOK, NEW w \in Writer, Fail(w)
    PROVE  pc'[w] = "done" /\ UNCHANGED <<log, error>>
BY DEF Fail, TailUnreadable, TailRefused, StageFails, Crash, Finish, TypeOK

\* A step of one call leaves the control state of the others alone.
LEMMA OthersKeepTheirState ==
    ASSUME TypeOK, NEW w \in Writer, Step(w) \/ Fail(w), NEW x \in Writer, x # w
    PROVE  /\ pc'[x] = pc[x] /\ reply'[x] = reply[x] /\ error'[x] = error[x]
           /\ staged'[x] = staged[x] /\ base'[x] = base[x]
<1> USE DEF TypeOK, handleVars, engineVars, Goto, Finish
<1>1. pc'[x] = pc[x]
  BY DEF Step, Fail, Open, ReadSnapshot, Stage, Ratify, Refuse, Committed, Failed, NextAttempt,
         Backfill, Reread, SurfaceConflict, ManagedConflict, GiveUp, TailUnreadable,
         TailRefused, StageFails, Crash
<1>2. reply'[x] = reply[x]
  BY DEF Step, Fail, Open, ReadSnapshot, Stage, Ratify, Refuse, Committed, Failed, NextAttempt,
         Backfill, Reread, SurfaceConflict, ManagedConflict, GiveUp, TailUnreadable,
         TailRefused, StageFails, Crash
<1>3. error'[x] = error[x]
  BY DEF Step, Fail, Open, ReadSnapshot, Stage, Ratify, Refuse, Committed, Failed, NextAttempt,
         Backfill, Reread, SurfaceConflict, ManagedConflict, GiveUp, TailUnreadable,
         TailRefused, StageFails, Crash
<1>4. staged'[x] = staged[x]
  BY DEF Step, Fail, Open, ReadSnapshot, Stage, Ratify, Refuse, Committed, Failed, NextAttempt,
         Backfill, Reread, SurfaceConflict, ManagedConflict, GiveUp, TailUnreadable,
         TailRefused, StageFails, Crash
<1>5. base'[x] = base[x]
  BY DEF Step, Fail, Open, ReadSnapshot, Stage, Ratify, Refuse, Committed, Failed, NextAttempt,
         Backfill, Reread, SurfaceConflict, ManagedConflict, GiveUp, TailUnreadable,
         TailRefused, StageFails, Crash
<1> QED BY <1>1, <1>2, <1>3, <1>4, <1>5

\* The versions already in the log stay what they are when one is added.
LEMMA RatifyAppends ==
    ASSUME TypeOK, NEW w \in Writer, Ratify(w)
    PROVE  /\ LastVersion' = LastVersion + 1 /\ LastVersion \in Nat
           /\ \A v \in 1..LastVersion : log'[v] = log[v]
           /\ log'[LastVersion + 1] = Commit(w)
<1>1. log \in Seq(CommitRecord) /\ log' = Append(log, Commit(w))
  BY DEF TypeOK, Ratify
<1> QED BY <1>1 DEF LastVersion

\* A call with no commit in the log stays without one until it ratifies.
LEMMA LandedByRatify ==
    ASSUME TypeOK, NEW w \in Writer, Step(w) \/ Fail(w), NEW x \in Writer, Landed(x)'
    PROVE  Landed(x) \/ (x = w /\ Ratify(w))
<1>1. CASE UNCHANGED log
  BY <1>1 DEF Landed, LastVersion
<1>2. CASE Ratify(w)
  <2>1. Commit(w).by = w
    BY DEF Commit
  <2> QED BY <1>2, <2>1, RatifyAppends DEF Landed
<1> QED BY <1>1, <1>2, OnlyRatifyCommits

\* Landing once is inductive: a call commits only from "commit", where it has
\* no commit in the log, and never gets back there once it has one.
LEMMA OnceStep ==
    ASSUME TypeOK, OnceInv, NEW w \in Writer, Step(w) \/ Fail(w)
    PROVE  OnceInv'
<1>1. LandedCallsStop'
  <2> SUFFICES ASSUME NEW x \in Writer, Landed(x)'
               PROVE  \/ pc'[x] = "done"
                      \/ pc'[x] = "settle" /\ reply'[x] \in {"ok", "io", "server"}
                      \/ pc'[x] \in {"raised", "table"} /\ error'[x] \in {"Kernel", "Retryable"}
    BY DEF LandedCallsStop
  <2>1. CASE x = w /\ Ratify(w)
    BY <2>1 DEF Ratify, Goto, TypeOK
  <2>2. CASE Landed(x) /\ x # w
    BY <2>2, OthersKeepTheirState DEF OnceInv, LandedCallsStop
  <2>3. CASE Landed(x) /\ x = w
    <3>1. \/ pc[w] = "done"
          \/ pc[w] = "settle" /\ reply[w] \in {"ok", "io", "server"}
          \/ pc[w] \in {"raised", "table"} /\ error[w] \in {"Kernel", "Retryable"}
      BY <2>3 DEF OnceInv, LandedCallsStop
    <3>2. Committed(w) \/ Failed(w) \/ NextAttempt(w) \/ GiveUp(w) \/ Crash(w)
      BY <3>1 DEF Step, Fail, Open, ReadSnapshot, Stage, Ratify, Refuse, Committed, Failed,
                  NextAttempt, Backfill, Reread, SurfaceConflict, ManagedConflict, GiveUp,
                  TailUnreadable, TailRefused, StageFails, Crash, IsConflict
    <3>3. CASE Committed(w) \/ GiveUp(w) \/ Crash(w)
      BY <2>3, <3>3 DEF Committed, GiveUp, Crash, Finish, TypeOK
    <3>4. CASE Failed(w)
      <4>1. Classify["io"] = "Kernel" /\ Classify["server"] = "Retryable"
        BY DEF Classify
      <4>2. pc[w] = "settle" /\ reply[w] \in {"io", "server"}
        BY <3>1, <3>4 DEF Failed
      <4> QED BY <2>3, <3>4, <4>1, <4>2 DEF Failed, Goto, TypeOK
    <3>5. CASE NextAttempt(w)
      BY <2>3, <3>1, <3>5 DEF NextAttempt, Goto, TypeOK
    <3> QED BY <3>2, <3>3, <3>4, <3>5
  <2> QED BY <2>1, <2>2, <2>3, LandedByRatify
<1>2. LandsOnce'
  <2>1. CASE UNCHANGED log
    BY <2>1 DEF OnceInv, LandsOnce, LastVersion
  <2>2. CASE Ratify(w)
    <3>1. ~Landed(w)
      BY <2>2 DEF Ratify, OnceInv, LandedCallsStop
    <3>2. Commit(w).by = w
      BY DEF Commit
    <3>3. \A v \in 1..LastVersion : log[v].by # w
      BY <3>1 DEF Landed
    <3> QED BY <2>2, <3>2, <3>3, RatifyAppends DEF OnceInv, LandsOnce
  <2> QED BY <2>1, <2>2, OnlyRatifyCommits
<1> QED BY <1>1, <1>2 DEF OnceInv

\* However often an append is re-staged after lost races, publishes and lost
\* answers, at most one commit of it is in the log.
THEOREM AppendLandsOnce == Spec => []LandsOnce
<1>1. Init => OnceInv
  BY DEF Init, OnceInv, LandedCallsStop, LandsOnce, Landed, LastVersion
<1>2. TypeOK /\ OnceInv /\ [Next]_vars => OnceInv'
  <2> SUFFICES ASSUME TypeOK, OnceInv, [Next]_vars PROVE OnceInv'
    OBVIOUS
  <2>1. CASE UNCHANGED vars
    BY <2>1 DEF vars, OnceInv, LandedCallsStop, LandsOnce, Landed, LastVersion
  <2>2. CASE \E w \in Writer : Step(w) \/ Fail(w)
    BY <2>2, OnceStep
  <2> QED BY <2>1, <2>2 DEF Next, Terminated
<1>3. OnceInv => LandsOnce
  BY DEF OnceInv
<1> QED BY <1>1, <1>2, <1>3, TypeCorrect, PTL DEF Spec

-----------------------------------------------------------------------------
(* Exactly-once writes *)

\* No call knows of more versions than there are.
TailsBehind == \A w \in Writer : tail[w] <= LastVersion /\ known[w] <= LastVersion

\* From its snapshot to its commit, a call's txn is not recorded in the
\* versions that snapshot has.
SnapshotWithoutTxn ==
    \A w \in Writer : pc[w] \in {"stage", "commit"} =>
        base[w] <= LastVersion /\ ~Recorded(TxnOf[w], base[w])

TxnInv == TailsBehind /\ SnapshotWithoutTxn /\ TxnCommittedOnce

\* The tails stay behind the log.
LEMMA TailsStep ==
    ASSUME TypeOK, TailsBehind, NEW w \in Writer, Step(w) \/ Fail(w)
    PROVE  TailsBehind'
<1>1. LastVersion \in Nat /\ LastVersion' \in Nat /\ LastVersion <= LastVersion'
  <2>1. LastVersion \in Nat
    BY DEF TypeOK, LastVersion
  <2>2. CASE UNCHANGED log
    BY <2>1, <2>2 DEF LastVersion
  <2>3. CASE Ratify(w)
    BY <2>1, <2>3, RatifyAppends
  <2> QED BY <2>2, <2>3, OnlyRatifyCommits
<1>2. /\ tail' = tail \/ tail' = [tail EXCEPT ![w] = LastVersion]
         \/ tail' = [tail EXCEPT ![w] = tail[w]]
      /\ known' = known \/ known' = [known EXCEPT ![w] = LastVersion]
         \/ known' = [known EXCEPT ![w] = known[w]]
  BY DEF Step, Fail, Open, ReadSnapshot, Stage, Ratify, Refuse, Committed, Failed, NextAttempt,
         Backfill, Reread, SurfaceConflict, ManagedConflict, GiveUp, TailUnreadable,
         TailRefused, StageFails, Crash,
         handleVars, engineVars, TailAfter
<1>3. ASSUME NEW x \in Writer PROVE tail'[x] <= LastVersion' /\ known'[x] <= LastVersion'
  <2>1. tail[x] \in Nat /\ known[x] \in Nat /\ tail[x] <= LastVersion /\ known[x] <= LastVersion
    BY DEF TypeOK, TailsBehind
  <2>2. tail'[x] \in {tail[x], LastVersion} /\ known'[x] \in {known[x], LastVersion}
    BY <1>2 DEF TypeOK
  <2> QED BY <1>1, <2>1, <2>2
<1> QED BY <1>3 DEF TailsBehind

\* What a prefix of the log records does not change when the log grows.
LEMMA RecordedStable ==
    ASSUME TypeOK, NEW w \in Writer, Step(w) \/ Fail(w), NEW t, NEW v \in Nat,
           v <= LastVersion
    PROVE  Recorded(t, v)' <=> Recorded(t, v)
<1>1. CASE UNCHANGED log
  BY <1>1 DEF Recorded
<1>2. CASE Ratify(w)
  <2>1. LastVersion \in Nat /\ \A i \in 1..LastVersion : log'[i] = log[i]
    BY <1>2, RatifyAppends
  <2>2. \A i \in 1..v : log'[i] = log[i]
    BY <2>1
  <2> QED BY <2>2 DEF Recorded
<1> QED BY <1>1, <1>2, OnlyRatifyCommits

\* The snapshot a call commits on was checked for its txn.
LEMMA SnapshotStep ==
    ASSUME TypeOK, TailsBehind, SnapshotWithoutTxn, NEW w \in Writer, Step(w) \/ Fail(w)
    PROVE  SnapshotWithoutTxn'
<1> SUFFICES ASSUME NEW x \in Writer, pc'[x] \in {"stage", "commit"}
             PROVE  base'[x] <= LastVersion' /\ ~Recorded(TxnOf[x], base[x])'
  BY DEF SnapshotWithoutTxn
<1>0. LastVersion \in Nat /\ LastVersion' \in Nat /\ LastVersion <= LastVersion'
  <2>1. LastVersion \in Nat
    BY DEF TypeOK, LastVersion
  <2>2. CASE UNCHANGED log
    BY <2>1, <2>2 DEF LastVersion
  <2>3. CASE Ratify(w)
    BY <2>1, <2>3, RatifyAppends
  <2> QED BY <2>2, <2>3, OnlyRatifyCommits
<1>1. CASE base'[x] = base[x] /\ pc[x] \in {"stage", "commit"}
  <2>1. base[x] \in Nat /\ base[x] <= LastVersion /\ ~Recorded(TxnOf[x], base[x])
    BY <1>1 DEF SnapshotWithoutTxn, TypeOK
  <2>2. ~Recorded(TxnOf[x], base[x])'
    BY <1>1, <2>1, RecordedStable DEF Recorded
  <2> QED BY <1>0, <1>1, <2>1, <2>2
<1>2. CASE x = w /\ ReadSnapshot(w)
  <2> DEFINE seen == IF managed /\ attempt[w] > 0 THEN LastVersion ELSE known[w]
             v    == IF managed THEN Max2(tail[w], seen) ELSE LastVersion
  <2>1. v \in Nat /\ v <= LastVersion
    BY <1>0 DEF TailsBehind, TypeOK, Max2
  <2>2. base'[w] = v
    BY <1>2 DEF ReadSnapshot, TypeOK
  <2>3. log' = log
    BY <1>2 DEF ReadSnapshot
  <2>4. ~Recorded(TxnOf[w], v)
    <3>1. CASE Recorded(TxnOf[w], v)
      <4>1. pc' = [pc EXCEPT ![w] = "raised"]
        BY <1>2, <3>1 DEF ReadSnapshot, Goto
      <4> QED BY <1>2, <4>1 DEF TypeOK
    <3> QED BY <3>1
  <2> QED BY <1>0, <1>2, <2>1, <2>2, <2>3, <2>4 DEF Recorded
<1>3. CASE x = w /\ ~ReadSnapshot(w)
  <2>1. base' = base
    BY <1>3 DEF Step, Fail, Open, Stage, Ratify, Refuse, Committed, Failed,
              NextAttempt, Backfill, Reread, SurfaceConflict, ManagedConflict, GiveUp, TailUnreadable,
              TailRefused, StageFails, Crash, handleVars, engineVars
  <2>2. pc[w] \in {"stage", "commit"}
    BY <1>3 DEF Step, Fail, Open, Stage, Ratify, Refuse, Committed, Failed,
              NextAttempt, Backfill, Reread, SurfaceConflict, ManagedConflict, GiveUp, TailUnreadable,
              TailRefused, StageFails, Crash, Goto, Finish, TypeOK
  <2> QED BY <1>1, <1>3, <2>1, <2>2
<1>4. CASE x # w
  BY <1>1, <1>4, OthersKeepTheirState
<1> QED BY <1>2, <1>3, <1>4

\* A version that records a txn follows a snapshot without it.
LEMMA TxnOnceStep ==
    ASSUME TypeOK, TxnInv, NEW w \in Writer, Step(w) \/ Fail(w)
    PROVE  TxnCommittedOnce'
<1>1. CASE UNCHANGED log
  BY <1>1 DEF TxnInv, TxnCommittedOnce, LastVersion
<1>2. CASE Ratify(w)
  <2>1. base[w] = LastVersion /\ ~Recorded(TxnOf[w], LastVersion)
    BY <1>2 DEF Ratify, TxnInv, SnapshotWithoutTxn
  <2>2. Commit(w).txn = TxnOf[w]
    BY DEF Commit
  <2>3. TxnOf[w] # NoTxn => \A v \in 1..LastVersion : log[v].txn # TxnOf[w]
    BY <2>1 DEF Recorded
  <2> QED BY <1>2, <2>2, <2>3, RatifyAppends DEF TxnInv, TxnCommittedOnce
<1> QED BY <1>1, <1>2, OnlyRatifyCommits

\* txn= is exactly-once for any number of concurrent runs of a job: the table
\* never records the same txn at two versions.
THEOREM TxnExactlyOnce == Spec => []TxnCommittedOnce
<1>1. Init => TxnInv
  BY DEF Init, TxnInv, TailsBehind, SnapshotWithoutTxn, TxnCommittedOnce, LastVersion
<1>2. TypeOK /\ TxnInv /\ [Next]_vars => TxnInv'
  <2> SUFFICES ASSUME TypeOK, TxnInv, [Next]_vars PROVE TxnInv'
    OBVIOUS
  <2>1. CASE UNCHANGED vars
    BY <2>1 DEF vars, TxnInv, TailsBehind, SnapshotWithoutTxn, TxnCommittedOnce, LastVersion,
              Recorded
  <2>2. CASE \E w \in Writer : Step(w) \/ Fail(w)
    BY <2>2, TailsStep, SnapshotStep, TxnOnceStep DEF TxnInv
  <2> QED BY <2>1, <2>2 DEF Next, Terminated
<1>3. TxnInv => TxnCommittedOnce
  BY DEF TxnInv
<1> QED BY <1>1, <1>2, <1>3, TypeCorrect, PTL DEF Spec

-----------------------------------------------------------------------------
(* The files of a commit are never deleted *)

\* A call names its files for itself, in storage and in the log.
FilesNamed ==
    /\ \A w \in Writer : \A f \in staged[w] : f[1] = w
    /\ \A v \in 1..LastVersion : \A f \in log[v].adds : f[1] = log[v].by

\* What a call is about to commit is in storage.
StagedInStore == \A w \in Writer : pc[w] = "commit" => staged[w] \subseteq store

\* Without a lost catalog answer, a landed call is never told of an error after
\* which stage_and_commit deletes.
LandedCallsKeepFiles ==
    \A w \in Writer : Landed(w) /\ pc[w] = "settle" => reply[w] \in {"ok", "io"}

FilesInv == FilesNamed /\ StagedInStore /\ LandedCallsKeepFiles /\ CommittedFilesExist

\* Files are named for the call that writes them.
LEMMA NamesStep ==
    ASSUME TypeOK, FilesNamed, NEW w \in Writer, Step(w) \/ Fail(w)
    PROVE  FilesNamed'
<1>1. \A x \in Writer : \A f \in staged'[x] : f[1] = x
  <2>1. staged' = staged \/ staged' = [staged EXCEPT ![w] = {<<w, writes[w] + 1>>}]
    BY DEF Step, Fail, Open, ReadSnapshot, Stage, Ratify, Refuse, Committed, Failed, NextAttempt,
           Backfill, Reread, SurfaceConflict, ManagedConflict, GiveUp, TailUnreadable,
           TailRefused, StageFails, Crash
  <2>2. CASE staged' = staged
    BY <2>2 DEF FilesNamed
  <2>3. CASE staged' = [staged EXCEPT ![w] = {<<w, writes[w] + 1>>}]
    <3>1. \A x \in Writer : staged'[x] = IF x = w THEN {<<w, writes[w] + 1>>} ELSE staged[x]
      BY <2>3 DEF TypeOK
    <3> QED BY <3>1 DEF FilesNamed
  <2> QED BY <2>1, <2>2, <2>3
<1>2. \A v \in 1..LastVersion' : \A f \in log'[v].adds : f[1] = log'[v].by
  <2>1. CASE UNCHANGED log
    BY <2>1 DEF FilesNamed, LastVersion
  <2>2. CASE Ratify(w)
    <3>1. Commit(w).adds = staged[w] /\ Commit(w).by = w
      BY DEF Commit
    <3>2. \A f \in staged[w] : f[1] = w
      BY DEF FilesNamed
    <3> QED BY <2>2, <3>1, <3>2, RatifyAppends DEF FilesNamed
  <2> QED BY <2>1, <2>2, OnlyRatifyCommits
<1> QED BY <1>1, <1>2 DEF FilesNamed

\* Only a failed call's own staged files leave storage, and only on an error
\* after which its commit certainly did not land.
LEMMA StoreShrinksBy ==
    ASSUME TypeOK, NEW w \in Writer, Step(w) \/ Fail(w), NEW f \in store, f \notin store'
    PROVE  f \in staged[w] /\ Failed(w) /\ never_committed(Classify[reply[w]])
<1>1. Failed(w)
  BY DEF Step, Fail, Open, ReadSnapshot, Stage, Ratify, Refuse, Committed, Failed, NextAttempt,
         Backfill, Reread, SurfaceConflict, ManagedConflict, GiveUp, TailUnreadable,
         TailRefused, StageFails, Crash
<1>2. error'[w] = Classify[reply[w]]
  BY <1>1 DEF Failed, TypeOK
<1> QED BY <1>1, <1>2 DEF Failed

\* The staged files stay in storage until the commit is answered.
LEMMA StagedStep ==
    ASSUME TypeOK, FilesNamed, StagedInStore, NEW w \in Writer, Step(w) \/ Fail(w)
    PROVE  StagedInStore'
<1> SUFFICES ASSUME NEW x \in Writer, pc'[x] = "commit", NEW f \in staged'[x]
             PROVE  f \in store'
  BY DEF StagedInStore
<1>1. CASE x = w
  <2>1. Stage(w)
    BY <1>1, FailEnds, SMTT(30)
    DEF Step, Open, ReadSnapshot, Stage, Ratify, Refuse, Committed, Failed, NextAttempt,
        Backfill, Reread, SurfaceConflict, ManagedConflict, GiveUp, Goto, Finish, TypeOK
  <2> QED BY <1>1, <2>1 DEF Stage, TypeOK
<1>2. CASE x # w
  <2>1. pc[x] = "commit" /\ f \in staged[x]
    BY <1>2, OthersKeepTheirState
  <2>2. f \in store /\ f[1] = x
    BY <2>1 DEF StagedInStore, FilesNamed
  <2>3. f \notin staged[w]
    BY <1>2, <2>2 DEF FilesNamed
  <2> QED BY <2>2, <2>3, StoreShrinksBy
<1> QED BY <1>1, <1>2

\* Without a lost catalog answer a landed call is not told that it failed.
LEMMA KeepsStep ==
    ASSUME TypeOK, OnceInv, LandedCallsKeepFiles, "server_applied" \notin Faults,
           NEW w \in Writer, Step(w) \/ Fail(w)
    PROVE  LandedCallsKeepFiles'
<1> SUFFICES ASSUME NEW x \in Writer, Landed(x)', pc'[x] = "settle"
             PROVE  reply'[x] \in {"ok", "io"}
  BY DEF LandedCallsKeepFiles
<1>1. CASE x = w /\ Ratify(w)
  <2>1. PICK r \in {"ok"} \cup (IF ~managed /\ "io_applied" \in Faults THEN {"io"} ELSE {}) :
           reply' = [reply EXCEPT ![w] = r]
    BY <1>1 DEF Ratify
  <2> QED BY <1>1, <2>1 DEF TypeOK
<1>2. CASE Landed(x) /\ x # w
  BY <1>2, OthersKeepTheirState DEF LandedCallsKeepFiles
<1>3. CASE Landed(x) /\ x = w
  <2>1. pc[w] # "commit"
    BY <1>3 DEF OnceInv, LandedCallsStop
  <2>2. FALSE
    BY <1>3, <2>1
    DEF Step, Fail, Open, ReadSnapshot, Stage, Ratify, Refuse, Committed, Failed,
        NextAttempt, Backfill, Reread, SurfaceConflict, ManagedConflict, GiveUp, TailUnreadable,
        TailRefused, StageFails, Crash, Goto, Finish, TypeOK
  <2> QED BY <2>2
<1> QED BY <1>1, <1>2, <1>3, LandedByRatify

\* A file that leaves storage belongs to a call that has not landed.
LEMMA CommittedStep ==
    ASSUME TypeOK, OnceInv, FilesInv, NEW w \in Writer, Step(w) \/ Fail(w)
    PROVE  CommittedFilesExist'
<1>1. \A v \in 1..LastVersion : log[v].adds \subseteq store'
  <2> SUFFICES ASSUME NEW v \in 1..LastVersion, NEW f \in log[v].adds, f \notin store'
               PROVE  FALSE
    OBVIOUS
  <2>1. f \in store /\ f[1] = log[v].by
    BY DEF FilesInv, CommittedFilesExist, FilesNamed
  <2>2. f \in staged[w] /\ Failed(w) /\ never_committed(Classify[reply[w]])
    BY <2>1, StoreShrinksBy
  <2>3. log[v].by = w
    BY <2>1, <2>2 DEF FilesInv, FilesNamed
  <2>4. Landed(w) /\ pc[w] = "settle" /\ reply[w] # "ok"
    BY <2>2, <2>3 DEF Landed, Failed
  <2>5. reply[w] = "io"
    BY <2>4 DEF FilesInv, LandedCallsKeepFiles
  <2> QED BY <2>2, <2>5 DEF Classify, never_committed
<1>2. CASE UNCHANGED log
  BY <1>1, <1>2 DEF CommittedFilesExist, LastVersion
<1>3. CASE Ratify(w)
  <2>1. Commit(w).adds \subseteq store'
    BY <1>3 DEF Commit, Ratify, FilesInv, StagedInStore
  <2> QED BY <1>1, <1>3, <2>1, RatifyAppends DEF CommittedFilesExist
<1> QED BY <1>2, <1>3, OnlyRatifyCommits

\* No cleanup deletes a committed data file, for any number of writers and any
\* fault except the catalog's lost answer (MCTableWrite_answer_lost.cfg shows that one).
THEOREM CommittedFilesSafe == "server_applied" \notin Faults => (Spec => []CommittedFilesExist)
<1> SUFFICES ASSUME "server_applied" \notin Faults PROVE Spec => []CommittedFilesExist
  OBVIOUS
<1>1. Init => OnceInv /\ FilesInv
  BY DEF Init, OnceInv, LandedCallsStop, LandsOnce, Landed, LastVersion, FilesInv, FilesNamed,
         StagedInStore, LandedCallsKeepFiles, CommittedFilesExist
<1>2. TypeOK /\ OnceInv /\ FilesInv /\ [Next]_vars => OnceInv' /\ FilesInv'
  <2> SUFFICES ASSUME TypeOK, OnceInv, FilesInv, [Next]_vars PROVE OnceInv' /\ FilesInv'
    OBVIOUS
  <2>1. CASE UNCHANGED vars
    BY <2>1 DEF vars, OnceInv, LandedCallsStop, LandsOnce, Landed, LastVersion, FilesInv,
              FilesNamed, StagedInStore, LandedCallsKeepFiles, CommittedFilesExist
  <2>2. ASSUME NEW w \in Writer, Step(w) \/ Fail(w) PROVE OnceInv' /\ FilesInv'
    BY <2>2, OnceStep, NamesStep, StagedStep, KeepsStep, CommittedStep DEF FilesInv
  <2> QED BY <2>1, <2>2 DEF Next, Terminated
<1>3. FilesInv => CommittedFilesExist
  BY DEF FilesInv
<1> QED BY <1>1, <1>2, <1>3, TypeCorrect, PTL DEF Spec

-----------------------------------------------------------------------------
(* What the caller is told *)

\* A call has a result exactly when it is over.
ResultWhenDone == \A w \in Writer : result[w] # "none" => pc[w] = "done"

\* A call whose commit was acknowledged has put its staged files in the log.
AckedLanded ==
    \A w \in Writer : pc[w] = "settle" /\ reply[w] = "ok" =>
        \E v \in 1..LastVersion : log[v].by = w /\ log[v].adds = staged[w]

OutcomeInv == OnceInv /\ TailsBehind /\ ResultWhenDone /\ AckedLanded /\ OutcomeTruthful

\* A finished call takes no step.
LEMMA DoneIsFinal ==
    ASSUME NEW w \in Writer, Step(w) \/ Fail(w)
    PROVE  pc[w] # "done"
BY DEF Step, Fail, Open, ReadSnapshot, Stage, Ratify, Refuse, Committed, Failed, NextAttempt,
       Backfill, Reread, SurfaceConflict, ManagedConflict, GiveUp, TailUnreadable,
       TailRefused, StageFails, Crash

\* A step of one call leaves the result of the others alone, and its own result
\* is set as the call ends.
LEMMA ResultStep ==
    ASSUME TypeOK, NEW w \in Writer, Step(w) \/ Fail(w)
    PROVE  /\ \A x \in Writer : x # w => result'[x] = result[x]
           /\ result'[w] = result[w] \/ pc'[w] = "done"
<1> USE DEF TypeOK, Goto, Finish
<1>1. \A x \in Writer : x # w => result'[x] = result[x]
  BY DEF Step, Fail, Open, ReadSnapshot, Stage, Ratify, Refuse, Committed, Failed, NextAttempt,
         Backfill, Reread, SurfaceConflict, ManagedConflict, GiveUp, TailUnreadable,
         TailRefused, StageFails, Crash
<1>2. result'[w] = result[w] \/ pc'[w] = "done"
  BY DEF Step, Fail, Open, ReadSnapshot, Stage, Ratify, Refuse, Committed, Failed, NextAttempt,
         Backfill, Reread, SurfaceConflict, ManagedConflict, GiveUp, TailUnreadable,
         TailRefused, StageFails, Crash
<1> QED BY <1>1, <1>2

\* A commit in the log stays there.
LEMMA LogGrows ==
    ASSUME TypeOK, NEW w \in Writer, Step(w) \/ Fail(w)
    PROVE  /\ LastVersion \in Nat /\ LastVersion' \in Nat /\ LastVersion <= LastVersion'
           /\ \A v \in 1..LastVersion : log'[v] = log[v]
<1>1. LastVersion \in Nat
  BY DEF TypeOK, LastVersion
<1>2. CASE UNCHANGED log
  BY <1>1, <1>2 DEF LastVersion
<1>3. CASE Ratify(w)
  BY <1>3, RatifyAppends
<1> QED BY <1>2, <1>3, OnlyRatifyCommits

\* An acknowledged commit is in the log.
LEMMA AckedStep ==
    ASSUME TypeOK, AckedLanded, NEW w \in Writer, Step(w) \/ Fail(w)
    PROVE  AckedLanded'
<1> SUFFICES ASSUME NEW x \in Writer, pc'[x] = "settle", reply'[x] = "ok"
             PROVE  \E v \in 1..LastVersion' : log'[v].by = x /\ log'[v].adds = staged'[x]
  BY DEF AckedLanded
<1>1. CASE x # w
  <2>1. pc[x] = "settle" /\ reply[x] = "ok" /\ staged'[x] = staged[x]
    BY <1>1, OthersKeepTheirState
  <2>2. PICK v \in 1..LastVersion : log[v].by = x /\ log[v].adds = staged[x]
    BY <2>1 DEF AckedLanded
  <2>3. v \in 1..LastVersion' /\ log'[v] = log[v]
    BY LogGrows
  <2> QED BY <2>1, <2>2, <2>3
<1>2. CASE x = w
  <2>1. Ratify(w) \/ Refuse(w)
    BY <1>2, FailEnds, SMTT(30)
    DEF Step, Open, ReadSnapshot, Stage, Ratify, Refuse, Committed, Failed, NextAttempt,
        Backfill, Reread, SurfaceConflict, ManagedConflict, GiveUp, Goto, Finish, TypeOK
  <2>2. ~Refuse(w)
    BY <1>2 DEF Refuse, TypeOK
  <2>3. Ratify(w) /\ staged' = staged
    BY <2>1, <2>2 DEF Ratify
  <2>4. Commit(w).by = w /\ Commit(w).adds = staged[w]
    BY DEF Commit
  <2> QED BY <1>2, <2>3, <2>4, RatifyAppends
<1> QED BY <1>1, <1>2

\* What a finished call was told stays right: the log only grows, and a call that
\* is over adds nothing to it.
LEMMA ToldStays ==
    ASSUME TypeOK, OutcomeInv, NEW w \in Writer, Step(w) \/ Fail(w), NEW x \in Writer, x # w
    PROVE  /\ result'[x] = "committed" => Landed(x)'
           /\ result'[x] = "skipped" => ~Landed(x)' /\ Recorded(TxnOf[x], LastVersion)'
           /\ result'[x] \in {"conflict", "backfill", "refused", "failed", "unreachable"}
                 => ~Landed(x)'
<1>1. result'[x] = result[x]
  BY ResultStep
<1>2. Landed(x)' <=> Landed(x)
  BY LandedByRatify, LogGrows DEF Landed
<1>3. Recorded(TxnOf[x], LastVersion) => Recorded(TxnOf[x], LastVersion)'
  BY LogGrows DEF Recorded
<1> QED BY <1>1, <1>2, <1>3 DEF OutcomeInv, OutcomeTruthful, Landed

\* What a call is told as it ends is right.
LEMMA ToldTrue ==
    ASSUME TypeOK, OutcomeInv, NEW w \in Writer, Step(w) \/ Fail(w)
    PROVE  /\ result'[w] = "committed" => Landed(w)'
           /\ result'[w] = "skipped" => ~Landed(w)' /\ Recorded(TxnOf[w], LastVersion)'
           /\ result'[w] \in {"conflict", "backfill", "refused", "failed", "unreachable"}
                 => ~Landed(w)'
<1> USE DEF TypeOK, Finish, Goto
<1>1. result[w] = "none"
  BY DoneIsFinal DEF OutcomeInv, ResultWhenDone
<1>2. CASE result'[w] = "none"
  BY <1>2
<1>3. CASE result'[w] # "none"
  <2>1. ~Ratify(w)
    BY <1>1, <1>3 DEF Ratify
  <2>2. log' = log
    BY <2>1, OnlyRatifyCommits
  <2>3. (Landed(w)' <=> Landed(w)) /\ LastVersion' = LastVersion
    BY <2>2 DEF Landed, LastVersion
  <2>4. Landed(w) => \/ pc[w] = "settle"
                     \/ pc[w] \in {"raised", "table"} /\ error[w] \in {"Kernel", "Retryable"}
    BY DoneIsFinal DEF OutcomeInv, OnceInv, LandedCallsStop
  <2>5. tail[w] <= LastVersion /\ known[w] <= LastVersion /\ LastVersion \in Nat
    BY DEF OutcomeInv, TailsBehind, LastVersion
  <2>6. \A v \in Nat : v <= LastVersion /\ Recorded(TxnOf[w], v)
                           => Recorded(TxnOf[w], LastVersion)
    BY <2>5 DEF Recorded
  <2>7. CASE Open(w)
    <3>1. PICK t \in TailAfter(w, {"tail"}) :
             IF Recorded(TxnOf[w], IF managed THEN Max2(t, known[w]) ELSE LastVersion)
             THEN Finish(w, "skipped") ELSE Goto(w, "read")
      BY <2>7 DEF Open
    <3> DEFINE v == IF managed THEN Max2(t, known[w]) ELSE LastVersion
    <3>2. v \in Nat /\ v <= LastVersion
      BY <2>5 DEF TailAfter, Max2
    <3>3. result'[w] = "skipped" /\ Recorded(TxnOf[w], v)
      <4>1. CASE Recorded(TxnOf[w], v)
        BY <3>1, <4>1
      <4>2. CASE ~Recorded(TxnOf[w], v)
        BY <1>1, <1>3, <3>1, <4>2
      <4> QED BY <4>1, <4>2
    <3>4. Recorded(TxnOf[w], LastVersion)
      BY <2>6, <3>2, <3>3
    <3> QED BY <2>2, <2>3, <2>4, <2>7, <3>3, <3>4 DEF Open, Recorded
  <2>8. CASE Committed(w)
    <3>1. result'[w] = "committed" /\ pc[w] = "settle" /\ reply[w] = "ok"
      BY <2>8 DEF Committed
    <3>2. Landed(w)
      BY <3>1 DEF OutcomeInv, AckedLanded, Landed
    <3> QED BY <2>3, <3>1, <3>2
  <2>9. CASE Backfill(w)
    <3>1. result'[w] = "backfill" /\ pc[w] = "table" /\ error[w] = "BackfillRequired"
      BY <1>1, <1>3, <2>9 DEF Backfill
    <3> QED BY <2>3, <2>4, <3>1
  <2>10. CASE Reread(w)
    <3>1. result'[w] = "backfill" /\ pc[w] = "reread"
      BY <1>1, <1>3, <2>10 DEF Reread
    <3> QED BY <2>3, <2>4, <3>1
  <2>11. CASE SurfaceConflict(w)
    <3>1. pc[w] = "table" /\ IsConflict(error[w])
      BY <2>11 DEF SurfaceConflict
    <3>2. ~Landed(w)
      BY <2>4, <3>1 DEF IsConflict
    <3>3. result'[w] = IF Recorded(TxnOf[w], View(w)) THEN "skipped" ELSE "conflict"
      BY <2>11 DEF SurfaceConflict
    <3>4. View(w) \in Nat /\ View(w) <= LastVersion
      BY <2>5 DEF View, Max2
    <3>5. result'[w] = "skipped" => Recorded(TxnOf[w], LastVersion)
      BY <2>6, <3>3, <3>4
    <3> QED BY <2>2, <2>3, <3>2, <3>3, <3>5 DEF Recorded
  <2>12. CASE ManagedConflict(w)
    <3>1. pc[w] = "table" /\ IsConflict(error[w])
      BY <2>12 DEF ManagedConflict
    <3>2. ~Landed(w)
      BY <2>4, <3>1 DEF IsConflict
    <3>3. \A t \in TailAfter(w, {"tail"}) :
            Max2(t, known[w]) \in Nat /\ Max2(t, known[w]) <= LastVersion
      BY <2>5 DEF TailAfter, Max2
    <3>4. \/ result'[w] = "conflict"
          \/ /\ result'[w] = "skipped"
             /\ \E t \in TailAfter(w, {"tail"}) : Recorded(TxnOf[w], Max2(t, known[w]))
      BY <1>1, <1>3, <2>12 DEF ManagedConflict
    <3>5. result'[w] = "skipped" => Recorded(TxnOf[w], LastVersion)
      BY <2>6, <3>3, <3>4
    <3> QED BY <2>2, <2>3, <3>2, <3>4, <3>5 DEF Recorded
  <2>13. CASE GiveUp(w)
    <3>1. pc[w] = "table"
      BY <2>13 DEF GiveUp
    <3>2. \/ result'[w] \in {"transient", "storage"}
          \/ result'[w] = "refused" /\ error[w] \notin {"Kernel", "Retryable"}
      BY <2>13 DEF GiveUp
    <3> QED BY <2>3, <2>4, <3>1, <3>2
  <2>14. CASE TailUnreadable(w) \/ StageFails(w)
    <3>1. result'[w] \in {"unreachable", "failed"} /\ pc[w] \in {"read", "stage"}
      BY <2>14 DEF TailUnreadable, TailRefused, StageFails
    <3> QED BY <2>3, <2>4, <3>1
  <2>17. CASE TailRefused(w)
    <3>1. /\ result'[w] = "unreachable"
          /\ pc[w] \in {"open", "reread"} \/ (pc[w] = "table" /\ IsConflict(error[w]))
      BY <2>17 DEF TailRefused
    <3> QED BY <2>3, <2>4, <3>1 DEF IsConflict
  <2>15. CASE Crash(w)
    BY <2>15 DEF Crash
  <2>16. CASE ReadSnapshot(w) \/ Stage(w) \/ Refuse(w) \/ Failed(w) \/ NextAttempt(w)
    BY <1>1, <1>3, <2>16 DEF ReadSnapshot, Stage, Refuse, Failed, NextAttempt
  <2> QED BY <2>1, <2>7, <2>8, <2>9, <2>10, <2>11, <2>12, <2>13, <2>14, <2>15, <2>16, <2>17
          DEF Step, Fail
<1> QED BY <1>2, <1>3

\* What Table.append and Table.overwrite return or raise is what happened, for any
\* number of writers and any faults: a version only for a commit that is in the
\* log, "skipped" only for a batch that the log records, and an error that says
\* nothing was committed only when nothing was.
THEOREM CallersToldTheTruth == Spec => []OutcomeTruthful
<1>1. Init => OutcomeInv
  BY DEF Init, OutcomeInv, OnceInv, LandedCallsStop, LandsOnce, Landed, LastVersion, TailsBehind,
         ResultWhenDone, AckedLanded, OutcomeTruthful
<1>2. TypeOK /\ OutcomeInv /\ [Next]_vars => OutcomeInv'
  <2> SUFFICES ASSUME TypeOK, OutcomeInv, [Next]_vars PROVE OutcomeInv'
    OBVIOUS
  <2>1. CASE UNCHANGED vars
    BY <2>1 DEF vars, OutcomeInv, OnceInv, LandedCallsStop, LandsOnce, Landed, LastVersion,
              TailsBehind, ResultWhenDone, AckedLanded, OutcomeTruthful, Recorded
  <2>2. ASSUME NEW w \in Writer, Step(w) \/ Fail(w) PROVE OutcomeInv'
    <3>1. OnceInv' /\ TailsBehind' /\ AckedLanded'
      BY <2>2, OnceStep, TailsStep, AckedStep DEF OutcomeInv
    <3>2. ResultWhenDone'
      BY <2>2, ResultStep, OthersKeepTheirState, DoneIsFinal DEF OutcomeInv, ResultWhenDone
    <3>3. OutcomeTruthful'
      <4> SUFFICES ASSUME NEW x \in Writer
                   PROVE  /\ result'[x] = "committed" => Landed(x)'
                          /\ result'[x] = "skipped" => ~Landed(x)' /\ Recorded(TxnOf[x], LastVersion)'
                          /\ result'[x] \in {"conflict", "backfill", "refused", "failed",
                                             "unreachable"} => ~Landed(x)'
        BY DEF OutcomeTruthful, Landed
      <4> QED BY <2>2, ToldStays, ToldTrue
    <3> QED BY <3>1, <3>2, <3>3 DEF OutcomeInv
  <2> QED BY <2>1, <2>2 DEF Next, Terminated
<1>3. OutcomeInv => OutcomeTruthful
  BY DEF OutcomeInv
<1> QED BY <1>1, <1>2, <1>3, TypeCorrect, PTL DEF Spec

-----------------------------------------------------------------------------
(* Overwrites *)

\* What is live at a version of the log does not change when the log grows.
LEMMA LiveStable ==
    ASSUME TypeOK, NEW w \in Writer, Ratify(w), NEW v \in 1..LastVersion
    PROVE  LiveAt(v)' = LiveAt(v)
<1>1. LastVersion \in Nat /\ \A i \in 1..v : log'[i] = log[i]
  BY RatifyAppends
<1>2. \A i \in 1..v : \A j \in (i+1)..v : log'[j] = log[j]
  BY <1>1
<1>3. UNION {log'[i].adds : i \in 1..v} = UNION {log[i].adds : i \in 1..v}
  BY <1>1
<1> QED BY <1>1, <1>2, <1>3 DEF LiveAt

\* A commit that removes everything live before it leaves what it adds.
LEMMA OverwriteLive ==
    ASSUME TypeOK, NEW w \in Writer, Ratify(w), w \in Overwriter, NEW n \in Nat, n = LastVersion
    PROVE  LiveAt(n + 1)' = Commit(w).adds
<1>1. log'[n + 1] = Commit(w) /\ \A i \in 1..n : log'[i] = log[i]
  BY RatifyAppends
<1>2. Commit(w).removes = LiveAt(n)
  BY DEF Commit, Ratify
<1>3. LiveAt(n + 1)' =
        {f \in UNION {log'[i].adds : i \in 1..(n + 1)} :
            \E i \in 1..(n + 1) :
                f \in log'[i].adds /\ \A j \in (i+1)..(n + 1) : f \notin log'[j].removes}
  BY DEF LiveAt
<1>4. ASSUME NEW f \in LiveAt(n + 1)' PROVE f \in Commit(w).adds
  <2>1. PICK i \in 1..(n + 1) :
           f \in log'[i].adds /\ \A j \in (i+1)..(n + 1) : f \notin log'[j].removes
    BY <1>3, <1>4
  <2>2. CASE i = n + 1
    BY <1>1, <2>1, <2>2
  <2>3. CASE i \in 1..n
    <3>1. f \notin log'[n + 1].removes
      BY <1>1, <2>1, <2>3
    <3>2. f \in log[i].adds /\ \A j \in (i+1)..n : f \notin log[j].removes
      BY <1>1, <2>1, <2>3
    <3>3. f \in LiveAt(n)
      BY <2>3, <3>2 DEF LiveAt
    <3> QED BY <1>1, <1>2, <3>1, <3>3
  <2> QED BY <2>2, <2>3
<1>5. ASSUME NEW f \in Commit(w).adds PROVE f \in LiveAt(n + 1)'
  <2>1. n + 1 \in 1..(n + 1) /\ f \in log'[n + 1].adds /\ ((n + 1)+1)..(n + 1) = {}
    BY <1>1, <1>5
  <2> QED BY <1>3, <2>1
<1> QED BY <1>4, <1>5

\* However many writers race it, an overwrite that lands leaves exactly its own
\* files live: it is built on the version it follows, so it misses no file of a
\* concurrent writer and removes none unseen.
LEMMA OverwritesReplace == Spec => []OverwriteReplacesAll
<1>1. Init => OverwriteReplacesAll
  BY DEF Init, OverwriteReplacesAll, LastVersion
<1>2. TypeOK /\ OverwriteReplacesAll /\ [Next]_vars => OverwriteReplacesAll'
  <2> SUFFICES ASSUME TypeOK, OverwriteReplacesAll, [Next]_vars PROVE OverwriteReplacesAll'
    OBVIOUS
  <2>1. CASE UNCHANGED log
    BY <2>1 DEF OverwriteReplacesAll, LastVersion, LiveAt
  <2>2. ASSUME NEW w \in Writer, Ratify(w) PROVE OverwriteReplacesAll'
    <3> SUFFICES ASSUME NEW v \in 1..LastVersion', log'[v].by \in Overwriter
                 PROVE  LiveAt(v)' = log'[v].adds
      BY DEF OverwriteReplacesAll
    <3>1. LastVersion \in Nat /\ LastVersion' = LastVersion + 1
      BY <2>2, RatifyAppends
    <3>2. CASE v \in 1..LastVersion
      <4>1. log'[v] = log[v]
        BY <2>2, <3>2, RatifyAppends
      <4>2. LiveAt(v) = log[v].adds
        BY <3>2, <4>1 DEF OverwriteReplacesAll
      <4> QED BY <2>2, <3>2, <4>1, <4>2, LiveStable
    <3>3. CASE v = LastVersion + 1
      <4>1. log'[v] = Commit(w)
        BY <2>2, <3>1, <3>3, RatifyAppends
      <4>2. w \in Overwriter
        BY <4>1 DEF Commit
      <4>3. PICK n \in Nat : n = LastVersion
        BY <3>1
      <4>4. LiveAt(n + 1)' = Commit(w).adds
        BY <2>2, <4>2, <4>3, OverwriteLive
      <4>5. v = n + 1
        BY <3>3, <4>3
      <4> QED BY <4>1, <4>4, <4>5
    <3> QED BY <3>1, <3>2, <3>3
  <2> QED BY <2>1, <2>2, OnlyRatifyCommits DEF Next, Terminated, vars
<1> QED BY <1>1, <1>2, TypeCorrect, PTL DEF Spec

\* Every version is a well-formed commit, and that of an overwrite replaces exactly the
\* table before it (KernelEngine.overwrite plans its removes on the base it commits on).
THEOREM VersionsAlwaysSound == Spec => []VersionsSound
BY TypeCorrect, OverwritesReplace, PTL DEF VersionsSound

-----------------------------------------------------------------------------
(* Files left behind *)

\* An error of unknown outcome ends the call: no further attempt follows it.
UnknownErrorsEnd ==
    \A w \in Writer : error[w] \in {"Kernel", "CatalogRejected"} =>
        pc[w] \in {"raised", "table", "done"}

OrphanInv == ResultWhenDone /\ AckedLanded /\ UnknownErrorsEnd /\ NoOrphans

\* Only Failed and ReadSnapshot set the error, and only Failed sets one of
\* unknown outcome.
LEMMA UnknownStep ==
    ASSUME TypeOK, UnknownErrorsEnd, NEW w \in Writer, Step(w) \/ Fail(w)
    PROVE  UnknownErrorsEnd'
<1> SUFFICES ASSUME NEW x \in Writer, error'[x] \in {"Kernel", "CatalogRejected"}
             PROVE  pc'[x] \in {"raised", "table", "done"}
  BY DEF UnknownErrorsEnd
<1>1. CASE x # w
  BY <1>1, OthersKeepTheirState DEF UnknownErrorsEnd
<1>2. CASE x = w /\ Failed(w)
  BY <1>2 DEF Failed, Goto, TypeOK
<1>3. CASE x = w /\ ~Failed(w)
  <2>1. error'[w] = error[w] /\ ~ReadSnapshot(w)
    BY <1>3 DEF Step, Fail, Open, ReadSnapshot, Stage, Ratify, Refuse, Committed,
              NextAttempt, Backfill, Reread, SurfaceConflict, ManagedConflict, GiveUp,
              TailUnreadable, TailRefused, StageFails, Crash, TypeOK, UnknownErrorsEnd
  <2>2. pc[w] \in {"raised", "table"} /\ error[w] \in {"Kernel", "CatalogRejected"}
    BY <1>3, <2>1, DoneIsFinal DEF UnknownErrorsEnd
  <2>3. NextAttempt(w) \/ GiveUp(w) \/ Crash(w)
    BY <1>3, <2>2
    DEF Step, Fail, Open, ReadSnapshot, Stage, Ratify, Refuse, Committed, Failed, Backfill, Reread,
        SurfaceConflict, ManagedConflict, TailUnreadable, TailRefused, StageFails, IsConflict
  <2>4. pc' = [pc EXCEPT ![w] = "table"] \/ pc' = [pc EXCEPT ![w] = "done"]
    BY <2>2, <2>3 DEF NextAttempt, GiveUp, Crash, Goto, Finish
  <2> QED BY <1>3, <2>4 DEF TypeOK
<1> QED BY <1>1, <1>2, <1>3

\* A step leaves no file behind that nothing accounts for.
LEMMA OrphanStep ==
    ASSUME TypeOK, OrphanInv, NEW w \in Writer, Step(w) \/ Fail(w), "delete" \notin Faults,
           NEW f \in store'
    PROVE  \/ \E v \in 1..LastVersion' : f \in log'[v].adds
           \/ /\ f \in staged'[f[1]]
              /\ \/ pc'[f[1]] \in {"commit", "settle"}
                 \/ error'[f[1]] \in {"Kernel", "CatalogRejected"}
                 \/ result'[f[1]] = "crashed"
<1>0. \A S : Undeletable(S) = {}
  BY DEF Undeletable
<1>3. /\ LastVersion \in Nat /\ LastVersion' \in Nat /\ LastVersion <= LastVersion'
      /\ \A v \in 1..LastVersion : log'[v] = log[v]
  BY LogGrows
<1>4. \A x \in Writer : x # w =>
        /\ pc'[x] = pc[x] /\ error'[x] = error[x] /\ staged'[x] = staged[x]
        /\ result'[x] = result[x]
  BY OthersKeepTheirState, ResultStep
<1> USE DEF TypeOK, Goto, Finish
<1>1. CASE f \notin store
  <2>1. ~StageFails(w) /\ ~Failed(w)
    BY <1>0, <1>1 DEF StageFails, Failed
  <2>2. Stage(w)
    BY <1>1, <2>1 DEF Step, Fail, Open, ReadSnapshot, Ratify, Refuse, Committed, NextAttempt,
                  Backfill, Reread, SurfaceConflict, ManagedConflict, GiveUp, TailUnreadable,
                  TailRefused, Crash
  <2>3. f = <<w, writes[w] + 1>> /\ staged'[w] = {f} /\ pc'[w] = "commit"
    BY <1>1, <2>2 DEF Stage
  <2> QED BY <2>3
<1>2. CASE f \in store
  <2>0. f[1] \in Writer
    BY <1>2 DEF File
  <2>1. \/ \E v \in 1..LastVersion : f \in log[v].adds
        \/ /\ f \in staged[f[1]]
           /\ \/ pc[f[1]] \in {"commit", "settle"}
              \/ error[f[1]] \in {"Kernel", "CatalogRejected"}
              \/ result[f[1]] = "crashed"
    BY <1>2 DEF OrphanInv, NoOrphans
  <2>2. CASE \E v \in 1..LastVersion : f \in log[v].adds
    <3>1. PICK v \in 1..LastVersion : f \in log[v].adds
      BY <2>2
    <3>2. v \in 1..LastVersion' /\ log'[v] = log[v]
      BY <1>3
    <3> QED BY <3>1, <3>2
  <2>3. CASE f[1] # w
    BY <1>4, <2>0, <2>1, <2>2, <2>3
  <2>4. CASE f[1] = w /\ f \in staged[w] /\ pc[w] = "commit"
    <3>1. Ratify(w) \/ Refuse(w) \/ Crash(w)
      BY <2>4 DEF Step, Fail, Open, ReadSnapshot, Stage, Committed, Failed, NextAttempt,
                Backfill, Reread, SurfaceConflict, ManagedConflict, GiveUp, TailUnreadable,
                TailRefused, StageFails
    <3>2. staged' = staged
      BY <3>1 DEF Ratify, Refuse, Crash
    <3>3. pc'[w] = "settle" \/ result'[w] = "crashed"
      <4>1. w \in DOMAIN pc /\ w \in DOMAIN result
        OBVIOUS
      <4> QED BY <3>1, <4>1 DEF Ratify, Refuse, Crash, Goto, Finish
    <3> QED BY <2>4, <3>2, <3>3
  <2>5. CASE f[1] = w /\ f \in staged[w] /\ pc[w] = "settle"
    <3>1. Committed(w) \/ Failed(w) \/ Crash(w)
      BY <2>5 DEF Step, Fail, Open, ReadSnapshot, Stage, Ratify, Refuse, NextAttempt,
                Backfill, Reread, SurfaceConflict, ManagedConflict, GiveUp, TailUnreadable,
                TailRefused, StageFails
    <3>2. CASE Committed(w)
      <4>1. \E v \in 1..LastVersion : f \in log[v].adds
        <5>1. reply[w] = "ok"
          BY <3>2 DEF Committed
        <5> HIDE DEF TypeOK, Goto, Finish
        <5>2. \E v \in 1..LastVersion : log[v].by = w /\ log[v].adds = staged[w]
          BY <2>5, <5>1 DEF OrphanInv, AckedLanded
        <5> QED BY <2>5, <5>2
      <4> QED BY <2>2, <4>1
    <3>3. CASE Failed(w)
      <4>1. ~never_committed(error'[w])
        BY <1>0, <2>5, <3>3 DEF Failed
      <4>2. error'[w] = Classify[reply[w]] /\ reply[w] \in DOMAIN Classify
        BY <3>3 DEF Failed
      <4>3. error'[w] \in {"Kernel", "CatalogRejected"}
        BY <4>1, <4>2 DEF Classify, never_committed
      <4> QED BY <2>5, <3>3, <4>3 DEF Failed
    <3>4. CASE Crash(w)
      BY <2>5, <3>4 DEF Crash
    <3> QED BY <3>1, <3>2, <3>3, <3>4
  <2>6. CASE f[1] = w /\ f \in staged[w] /\ error[w] \in {"Kernel", "CatalogRejected"}
    <3>1. pc[w] \in {"raised", "table"}
      BY <2>6, DoneIsFinal DEF OrphanInv, UnknownErrorsEnd
    <3>2. error' = error /\ staged' = staged
      BY <3>1 DEF Step, Fail, Open, ReadSnapshot, Stage, Ratify, Refuse, Committed, Failed,
                NextAttempt, Backfill, Reread, SurfaceConflict, ManagedConflict, GiveUp,
                TailUnreadable, TailRefused, StageFails, Crash
    <3> QED BY <2>6, <3>2
  <2>7. CASE f[1] = w /\ result[w] = "crashed"
    BY <2>7, DoneIsFinal DEF OrphanInv, ResultWhenDone
  <2> QED BY <2>1, <2>2, <2>3, <2>4, <2>5, <2>6, <2>7
<1> QED BY <1>1, <1>2

\* Where deletes work, every data file in storage is accounted for, for any number
\* of writers and attempts: a version names it, or it is of its call's last attempt,
\* which is at its commit, was rejected or not answered, or died.
THEOREM NothingOrphaned == Spec => []NoOrphans
<1>1. Init => OrphanInv
  BY DEF Init, OrphanInv, ResultWhenDone, AckedLanded, UnknownErrorsEnd, NoOrphans
<1>2. TypeOK /\ OrphanInv /\ [Next]_vars => OrphanInv'
  <2> SUFFICES ASSUME TypeOK, OrphanInv, [Next]_vars PROVE OrphanInv'
    OBVIOUS
  <2>1. CASE UNCHANGED vars
    BY <2>1 DEF vars, OrphanInv, ResultWhenDone, AckedLanded, UnknownErrorsEnd, NoOrphans, LastVersion
  <2>2. ASSUME NEW w \in Writer, Step(w) \/ Fail(w) PROVE OrphanInv'
    <3>1. ResultWhenDone' /\ AckedLanded' /\ UnknownErrorsEnd'
      BY <2>2, ResultStep, OthersKeepTheirState, DoneIsFinal, AckedStep, UnknownStep
      DEF OrphanInv, ResultWhenDone
    <3>2. NoOrphans'
      BY <2>2, OrphanStep DEF NoOrphans
    <3> QED BY <3>1, <3>2 DEF OrphanInv
  <2> QED BY <2>1, <2>2 DEF Next, Terminated
<1>3. OrphanInv => NoOrphans
  BY DEF OrphanInv
<1> QED BY <1>1, <1>2, <1>3, TypeCorrect, PTL DEF Spec
=============================================================================
