---------------------------- MODULE WarehouseProofs ----------------------------
(***************************************************************************)
(* Proofs about Warehouse, for any number of callers and statements, any    *)
(* tables and calls, and any number of faults.                              *)
(***************************************************************************)
EXTENDS Warehouse, SequenceTheorems, TLAPS

-----------------------------------------------------------------------------
(* The steps of a call *)

\* What a call may have left to do: the ends of the programs Steps gives.
Plans ==
    {<<>>, <<"unstage">>, <<"main">>, <<"main", "unstage">>, <<"stage", "main", "unstage">>,
     <<"lookup", "stage", "main", "unstage">>, <<"lookup", "lookup", "stage", "main", "unstage">>,
     <<"lookup", "main", "unstage">>, <<"predicate", "lookup", "main", "unstage">>,
     <<"stage", "predicate", "lookup", "main", "unstage">>,
     <<"lookup", "stage", "predicate", "lookup", "main", "unstage">>}

\* The ones of them that remove the staged file and do not stage it.
StagedPlans ==
    {<<"unstage">>, <<"main", "unstage">>, <<"lookup", "main", "unstage">>,
     <<"predicate", "lookup", "main", "unstage">>}

\* A plan t whose first step is followed by the rest u.
Follows(t, u) ==
    /\ u \in Plans /\ (Len(t) = 1 <=> u = <<>>)
    /\ Head(t) \in {"lookup", "stage", "predicate", "main", "unstage"}
    /\ Head(t) = "main" => u \in {<<>>, <<"unstage">>}
    /\ Head(t) \in {"lookup", "stage", "predicate"} => u # <<>> /\ Head(u) # "unstage"
    /\ Head(t) = "unstage" => t = <<"unstage">>
    /\ Head(t) = "stage" => u \in StagedPlans /\ t \notin StagedPlans
    /\ t \in StagedPlans /\ Head(t) # "unstage" => u \in StagedPlans

\* A plan is worked off from the front, and ends with the removal of what it staged.
LEMMA PlanFacts ==
    /\ \A t \in Plans : t # <<>> => Follows(t, Tail(t))
    /\ Head(<<"unstage">>) = "unstage" /\ <<"unstage">> # <<>>
    /\ <<"unstage">> \in StagedPlans /\ <<>> \notin StagedPlans
    /\ StagedPlans \subseteq Plans
<1>1. ASSUME NEW t \in Plans, t # <<>> PROVE Follows(t, Tail(t))
  <2> DEFINE a == <<"unstage">>
             b == <<"main">>
             c == <<"main", "unstage">>
             d == <<"stage", "main", "unstage">>
             e == <<"lookup", "stage", "main", "unstage">>
             f == <<"lookup", "lookup", "stage", "main", "unstage">>
             g == <<"lookup", "main", "unstage">>
             h == <<"predicate", "lookup", "main", "unstage">>
             i == <<"stage", "predicate", "lookup", "main", "unstage">>
             k == <<"lookup", "stage", "predicate", "lookup", "main", "unstage">>
  <2>1. Head(a) = "unstage" /\ Tail(a) = <<>> /\ Len(a) = 1
    OBVIOUS
  <2>2. Head(b) = "main" /\ Tail(b) = <<>> /\ Len(b) = 1
    OBVIOUS
  <2>3. Head(c) = "main" /\ Tail(c) = a /\ Len(c) = 2
    OBVIOUS
  <2>4. Head(d) = "stage" /\ Tail(d) = c /\ Len(d) = 3
    OBVIOUS
  <2>5. Head(e) = "lookup" /\ Tail(e) = d /\ Len(e) = 4
    OBVIOUS
  <2>6. Head(f) = "lookup" /\ Tail(f) = e /\ Len(f) = 5
    OBVIOUS
  <2>7. Head(g) = "lookup" /\ Tail(g) = c /\ Len(g) = 3
    OBVIOUS
  <2>8. Head(h) = "predicate" /\ Tail(h) = g /\ Len(h) = 4
    OBVIOUS
  <2>9. Head(i) = "stage" /\ Tail(i) = h /\ Len(i) = 5
    OBVIOUS
  <2>10. Head(k) = "lookup" /\ Tail(k) = i /\ Len(k) = 6
    OBVIOUS
  <2>11. Plans = {<<>>, a, b, c, d, e, f, g, h, i, k} /\ StagedPlans = {a, c, g, h}
    BY DEF Plans, StagedPlans
  <2>12. /\ b # a /\ b # c /\ b # g /\ b # h
         /\ d # a /\ d # c /\ d # g /\ d # h
         /\ e # a /\ e # c /\ e # g /\ e # h
    OBVIOUS
  <2>13. /\ f # a /\ f # c /\ f # g /\ f # h
         /\ i # a /\ i # c /\ i # g /\ i # h
         /\ k # a /\ k # c /\ k # g /\ k # h
    OBVIOUS
  <2>14. a # <<>> /\ c # <<>> /\ d # <<>> /\ e # <<>> /\ g # <<>> /\ h # <<>> /\ i # <<>>
    OBVIOUS
  <2> HIDE DEF a, b, c, d, e, f, g, h, i, k
  <2>15. t \in {a, b, c, d, e, f, g, h, i, k}
    BY <1>1, <2>11
  <2>16. Follows(t, Tail(t)) <=>
           /\ Tail(t) \in {<<>>, a, b, c, d, e, f, g, h, i, k} /\ (Len(t) = 1 <=> Tail(t) = <<>>)
           /\ Head(t) \in {"lookup", "stage", "predicate", "main", "unstage"}
           /\ Head(t) = "main" => Tail(t) \in {<<>>, a}
           /\ Head(t) \in {"lookup", "stage", "predicate"} => Tail(t) # <<>> /\ Head(Tail(t)) # "unstage"
           /\ Head(t) = "unstage" => t = a
           /\ Head(t) = "stage" => Tail(t) \in {a, c, g, h} /\ t \notin StagedPlans
           /\ t \in {a, c, g, h} /\ Head(t) # "unstage" => Tail(t) \in {a, c, g, h}
    BY <2>11 DEF Follows, a
  <2>20. CASE t = a
    BY <2>1, <2>11, <2>12, <2>13, <2>14, <2>16, <2>20
  <2>21. CASE t = b
    BY <2>2, <2>11, <2>12, <2>13, <2>14, <2>16, <2>21
  <2>22. CASE t = c
    BY <2>3, <2>1, <2>11, <2>12, <2>13, <2>14, <2>16, <2>22
  <2>23. CASE t = d
    BY <2>4, <2>3, <2>11, <2>12, <2>13, <2>14, <2>16, <2>23
  <2>24. CASE t = e
    BY <2>5, <2>4, <2>11, <2>12, <2>13, <2>14, <2>16, <2>24
  <2>25. CASE t = f
    <3>1. Tail(t) = e /\ e \in {<<>>, a, b, c, d, e, f, g, h, i, k} /\ e # <<>>
      BY <2>6, <2>14, <2>25
    <3>2. Len(t) # 1 /\ Head(t) = "lookup" /\ Head(e) # "unstage"
      BY <2>6, <2>5, <2>25
    <3>3. t \in {a, c, g, h} => Tail(t) \in {a, c, g, h}
      BY <2>13, <2>25, <3>1
    <3> QED BY <3>1, <3>2, <3>3, <2>16
  <2>26. CASE t = g
    BY <2>7, <2>3, <2>11, <2>12, <2>13, <2>14, <2>16, <2>26
  <2>27. CASE t = h
    <3>1. Tail(t) = g /\ g \in {<<>>, a, b, c, d, e, f, g, h, i, k} /\ g # <<>>
      BY <2>8, <2>14, <2>27
    <3>2. Len(t) # 1 /\ Head(t) = "predicate" /\ Head(g) # "unstage"
      BY <2>8, <2>7, <2>27
    <3>3. t \in {a, c, g, h} => Tail(t) \in {a, c, g, h}
      BY <2>13, <2>27, <3>1
    <3> QED BY <3>1, <3>2, <3>3, <2>16
  <2>28. CASE t = i
    BY <2>9, <2>8, <2>11, <2>12, <2>13, <2>14, <2>16, <2>28
  <2>29. CASE t = k
    <3>1. Tail(t) = i /\ i \in {<<>>, a, b, c, d, e, f, g, h, i, k} /\ i # <<>>
      BY <2>10, <2>14, <2>29
    <3>2. Len(t) # 1 /\ Head(t) = "lookup" /\ Head(i) # "unstage"
      BY <2>10, <2>9, <2>29
    <3>3. t \in {a, c, g, h} => Tail(t) \in {a, c, g, h}
      BY <2>13, <2>29, <3>1
    <3> QED BY <3>1, <3>2, <3>3, <2>16
  <2> QED BY <2>15, <2>20, <2>21, <2>22, <2>23, <2>24, <2>25, <2>26, <2>27, <2>28, <2>29
<1>2. Head(<<"unstage">>) = "unstage" /\ <<"unstage">> # <<>>
  OBVIOUS
<1>3. <<"unstage">> \in StagedPlans /\ StagedPlans \subseteq Plans
  BY DEF StagedPlans, Plans
<1>4. <<>> \notin StagedPlans
  BY DEF StagedPlans
<1> QED BY <1>1, <1>2, <1>3, <1>4

\* A lookup in front of a program.
LEMMA LookupFirst ==
    /\ <<"lookup">> \o <<"stage", "main", "unstage">> = <<"lookup", "stage", "main", "unstage">>
    /\ <<"lookup">> \o <<"lookup", "stage", "main", "unstage">>
          = <<"lookup", "lookup", "stage", "main", "unstage">>
    /\ <<"lookup">> \o <<"stage", "predicate", "lookup", "main", "unstage">>
          = <<"lookup", "stage", "predicate", "lookup", "main", "unstage">>
<1> DEFINE S == {"lookup", "stage", "predicate", "main", "unstage"}
           s == <<"lookup">>
<1>1. s \o <<"stage", "main", "unstage">> = <<"lookup", "stage", "main", "unstage">>
  <2> DEFINE t == <<"stage", "main", "unstage">>
             u == <<"lookup", "stage", "main", "unstage">>
  <2>1. s \in Seq(S) /\ t \in Seq(S) /\ u \in Seq(S)
    OBVIOUS
  <2>2. Len(s) = 1 /\ Len(t) = 3 /\ Len(u) = 4
    OBVIOUS
  <2>3. s \o t \in Seq(S) /\ Len(s \o t) = 4 /\ \A i \in 1..4 : (s \o t)[i] = u[i]
    BY <2>1, <2>2
  <2> QED BY <2>1, <2>2, <2>3, SeqEqual
<1>2. s \o <<"lookup", "stage", "main", "unstage">> = <<"lookup", "lookup", "stage", "main", "unstage">>
  <2> DEFINE t == <<"lookup", "stage", "main", "unstage">>
             u == <<"lookup", "lookup", "stage", "main", "unstage">>
  <2>1. s \in Seq(S) /\ t \in Seq(S) /\ u \in Seq(S)
    OBVIOUS
  <2>2. Len(s) = 1 /\ Len(t) = 4 /\ Len(u) = 5
    OBVIOUS
  <2>3. s \o t \in Seq(S) /\ Len(s \o t) = 5 /\ \A i \in 1..5 : (s \o t)[i] = u[i]
    BY <2>1, <2>2
  <2> QED BY <2>1, <2>2, <2>3, SeqEqual
<1>3. s \o <<"stage", "predicate", "lookup", "main", "unstage">> = <<"lookup", "stage", "predicate", "lookup", "main", "unstage">>
  <2> DEFINE t == <<"stage", "predicate", "lookup", "main", "unstage">>
             u == <<"lookup", "stage", "predicate", "lookup", "main", "unstage">>
  <2>1. s \in Seq(S) /\ t \in Seq(S) /\ u \in Seq(S)
    OBVIOUS
  <2>2. Len(s) = 1 /\ Len(t) = 5 /\ Len(u) = 6
    OBVIOUS
  <2>3. s \o t \in Seq(S) /\ Len(s \o t) = 6 /\ \A i \in 1..6 : (s \o t)[i] = u[i]
    BY <2>1, <2>2
  <2> QED BY <2>1, <2>2, <2>3, SeqEqual
<1> QED BY <1>1, <1>2, <1>3

\* The program of a call is one of them, and does not begin with a removal.
LEMMA StepsPlan ==
    ASSUME NEW o, NEW holds
    PROVE  /\ Steps(o, holds) \in Plans /\ Steps(o, holds) # <<>>
           /\ Head(Steps(o, holds)) # "unstage"
<1> DEFINE d == <<"stage", "main", "unstage">>
           e == <<"lookup", "stage", "main", "unstage">>
           f == <<"lookup", "lookup", "stage", "main", "unstage">>
           i == <<"stage", "predicate", "lookup", "main", "unstage">>
           k == <<"lookup", "stage", "predicate", "lookup", "main", "unstage">>
           p == Describe(holds)
<1>1. \/ p = <<"lookup">> /\ p \o d = e /\ p \o e = f /\ p \o i = k
      \/ p = <<>> /\ p \o d = d /\ p \o e = e /\ p \o i = i
  <2>1. p = <<"lookup">> \/ p = <<>>
    BY DEF Describe
  <2> DEFINE S == {"lookup", "stage", "predicate", "main", "unstage"}
  <2>2. d \in Seq(S) /\ e \in Seq(S) /\ i \in Seq(S)
    OBVIOUS
  <2> HIDE DEF d, e, i, p, S
  <2>3. <<>> \o d = d /\ <<>> \o e = e /\ <<>> \o i = i
    BY <2>2, ConcatEmptySeq
  <2>4. <<"lookup">> \o d = e /\ <<"lookup">> \o e = f /\ <<"lookup">> \o i = k
    BY LookupFirst DEF d, e, i
  <2> QED BY <2>1, <2>3, <2>4
<1>2. \A t \in {d, e, f, i, k, <<"main">>} : t \in Plans /\ t # <<>> /\ Head(t) # "unstage"
  <2>1. {d, e, f, i, k, <<"main">>} \subseteq Plans
    BY DEF Plans
  <2>2. d # <<>> /\ e # <<>> /\ f # <<>> /\ i # <<>> /\ k # <<>> /\ <<"main">> # <<>>
    OBVIOUS
  <2>3. /\ Head(d) = "stage" /\ Head(e) = "lookup" /\ Head(f) = "lookup"
        /\ Head(i) = "stage" /\ Head(k) = "lookup" /\ Head(<<"main">>) = "main"
    OBVIOUS
  <2> HIDE DEF d, e, f, i, k
  <2> QED BY <2>1, <2>2, <2>3
<1> HIDE DEF p
<1>3. Steps(o, holds) \in {p \o d, p \o e, p \o i, <<"main">>}
  <2>1. CASE o.kind = "append"
    BY <2>1 DEF Steps, p
  <2>2. CASE o.kind = "overwrite" /\ o.mode = "static" /\ o.where = {}
    BY <2>2 DEF Steps, p
  <2>3. CASE o.kind = "overwrite" /\ ~(o.mode = "static" /\ o.where = {})
    BY <2>3 DEF Steps, p
  <2>4. CASE o.kind = "merge"
    BY <2>4 DEF Steps, p
  <2>5. CASE o.kind \notin {"append", "overwrite", "merge"}
    BY <2>5 DEF Steps, p
  <2> QED BY <2>1, <2>2, <2>3, <2>4, <2>5
<1> HIDE DEF d, e, f, i, k, p
<1> QED BY <1>1, <1>2, <1>3

-----------------------------------------------------------------------------
(* The invariant *)

Errors == {"refused", "failed", "closed", "unknown", "cancelled", "unread"}
JobRec ==
    [call : Calls \cup {NoCall}, todo : Plans, at : {"step", "waiting", "fetching"},
     sid : Nat, main : Nat, seen : {"PENDING", "RUNNING"} \cup TERMINAL,
     next : {0, 1, EndOfResult}, got : Seq({0, 1}),
     err : {"none"} \cup Errors, out : {"none", "ok"} \cup Errors,
     undeleted : BOOLEAN]

\* A sequence, of whatever.
IsSequence(l) == \E S : l \in Seq(S)

\* What the warehouse keeps of a statement.
Entry(e) ==
    /\ DOMAIN e = {"st", "state", "cancel", "closed", "manifest", "before", "after"}
    /\ e.state \in {"RUNNING", "SUCCEEDED", "FAILED", "CANCELED"} /\ e.closed \in BOOLEAN
    /\ e.closed => e.state = "SUCCEEDED"
    /\ e.st.by \in Callers

StmtsOK == IsSequence(stmts) /\ \A s \in 1..Len(stmts) : Entry(stmts[s])
JobsOK == job \in [Callers -> JobRec]
TypeOK == StmtsOK /\ JobsOK

\* The chunks a job has of a result whose chunks are numbered.
Fetching(j, manifest) ==
    "numbered" \in manifest =>
        j.got \in {<<>>, <<0>>, <<0, 1>>} /\ (j.got = <<>> => j.next = 0)

\* A job that waits for a statement, or reads its result.
Watching(j, l) ==
    j.at # "step" =>
        /\ j.todo # <<>> /\ Head(j.todo) \in {"lookup", "main"}
        /\ j.out = "none" /\ j.err = "none" /\ j.sid > 0
        /\ j.main = IF Head(j.todo) = "main" THEN j.sid ELSE 0
        /\ j.at = "waiting" /\ j.seen \in TERMINAL =>
                l[j.sid].state = IF j.seen = "CLOSED" THEN "SUCCEEDED" ELSE j.seen
        /\ j.at = "fetching" => l[j.sid].state = "SUCCEEDED" /\ Fetching(j, l[j.sid].manifest)

\* A job that has not submitted the statement of its call.
Ahead(j) ==
    j.at = "step" /\ j.todo # <<>> /\ Head(j.todo) # "unstage" =>
        j.main = 0 /\ j.out = "none" /\ j.err = "none"

\* A job whose statement was seen to succeed has its result, and one that was told it failed is
\* told the truth.
Succeeded(j) ==
    \/ j.out = "ok"
    \/ j.todo # <<>> /\ Head(j.todo) = "unstage" /\ j.out = "none" /\ j.err = "none"
Behind(j, l) ==
    /\ Succeeded(j) => /\ j.main > 0 /\ l[j.main].state = "SUCCEEDED"
                       /\ Fetches(j.call) => Exact(j.got, l[j.main].manifest)
    /\ (j.err \in {"closed", "unread"} \/ j.out \in {"closed", "unread"}) /\ j.main > 0 =>
            l[j.main].state = "SUCCEEDED"
    /\ (j.err \in {"refused", "failed"} \/ j.out \in {"refused", "failed"}) /\ j.main > 0 =>
            l[j.main].state \in {"FAILED", "CANCELED"}
    /\ j.out # "none" => j.todo = <<>>
    /\ j.todo = <<>> /\ j.out = "none" => j = Idle
    /\ j.todo # <<>> => j.call # NoCall

\* A statement that is no longer watched has ended, or was asked to.
Watched(j, l) ==
    j.sid > 0 /\ j.at # "waiting" => l[j.sid].state # "RUNNING" \/ l[j.sid].cancel

\* A staged file is one its call will remove, or told of.
Staged(j, there) ==
    there => (j.out # "none" /\ j.undeleted) \/ (j.todo \in StagedPlans /\ j.out = "none")

JobInv(j, there, l) ==
    /\ j.sid \in 0..Len(l) /\ j.main \in 0..Len(l)
    /\ Watching(j, l) /\ Ahead(j) /\ Behind(j, l) /\ Watched(j, l) /\ Staged(j, there)

CallsInv == \A c \in Callers : JobInv(job[c], c \in volume, stmts)
Inv == TypeOK /\ CallsInv

-----------------------------------------------------------------------------
(* The warehouse's statements *)

\* What may become of the statements: more of them, and those there were go on, what ended
\* stays ended, and what was asked to cancel stays asked.
Goes(e, f) ==
    /\ Entry(f) /\ f.st = e.st
    /\ e.state # "RUNNING" => f.state = e.state /\ f.manifest = e.manifest
    /\ e.cancel => f.cancel
Grows(l, r) ==
    /\ IsSequence(r) /\ Len(l) <= Len(r)
    /\ \A i \in 1..Len(l) : Goes(l[i], r[i])
    /\ \A i \in 1..Len(r) : Entry(r[i])

\* The statements are unchanged, ...
LEMMA SameGrows ==
    ASSUME NEW l, IsSequence(l), \A i \in 1..Len(l) : Entry(l[i])
    PROVE  Grows(l, l) /\ Len(l) \in Nat
<1>1. PICK S : l \in Seq(S)
  BY DEF IsSequence
<1>2. Len(l) \in Nat
  BY <1>1, LenProperties
<1> QED BY <1>2 DEF Grows, Goes

\* ... one is submitted, ...
LEMMA AppendGrows ==
    ASSUME NEW l, NEW e, IsSequence(l), \A i \in 1..Len(l) : Entry(l[i]), Entry(e)
    PROVE  /\ Grows(l, Append(l, e)) /\ Len(Append(l, e)) = Len(l) + 1 /\ Len(l) \in Nat
           /\ Append(l, e)[Len(l) + 1] = e
<1>1. PICK S : l \in Seq(S)
  BY DEF IsSequence
<1> DEFINE T == S \cup {e}
<1>2. l \in Seq(T) /\ e \in T /\ Len(l) \in Nat
  BY <1>1, SeqMonotonic, LenProperties
<1>3. /\ Append(l, e) \in Seq(T) /\ Len(Append(l, e)) = Len(l) + 1
      /\ \A i \in 1..Len(l) : Append(l, e)[i] = l[i]
      /\ Append(l, e)[Len(l) + 1] = e
  BY <1>2, AppendProperties
<1>4. IsSequence(Append(l, e))
  BY <1>3 DEF IsSequence
<1>5. \A i \in 1..Len(l) : Goes(l[i], Append(l, e)[i])
  BY <1>3 DEF Goes
<1>6. \A i \in 1..(Len(l) + 1) : i \in 1..Len(l) \/ i = Len(l) + 1
  BY <1>2
<1>7. \A i \in 1..Len(Append(l, e)) : Entry(Append(l, e)[i])
  BY <1>3, <1>6
<1> QED BY <1>2, <1>3, <1>4, <1>5, <1>7 DEF Grows

\* ... or one goes on.
LEMMA ExceptGrows ==
    ASSUME NEW l, NEW s, NEW e, IsSequence(l), \A i \in 1..Len(l) : Entry(l[i]),
           s \in DOMAIN l, Goes(l[s], e)
    PROVE  /\ Grows(l, [l EXCEPT ![s] = e]) /\ Len(l) \in Nat /\ s \in 1..Len(l)
           /\ Len([l EXCEPT ![s] = e]) = Len(l) /\ [l EXCEPT ![s] = e][s] = e
<1>1. PICK S : l \in Seq(S)
  BY DEF IsSequence
<1> DEFINE T == S \cup {e}
           r == [l EXCEPT ![s] = e]
<1>2. l \in Seq(T) /\ e \in T /\ Len(l) \in Nat /\ s \in 1..Len(l)
  BY <1>1, SeqMonotonic, LenProperties
<1>3. /\ r \in Seq(T) /\ Len(r) = Len(l)
      /\ \A i \in 1..Len(l) : r[i] = IF i = s THEN e ELSE l[i]
  BY <1>2, ExceptSeq
<1> HIDE DEF r
<1>4. \A i \in 1..Len(l) : Goes(l[i], r[i])
  BY <1>3 DEF Goes
<1>5. \A i \in 1..Len(r) : Entry(r[i])
  BY <1>3, <1>4 DEF Goes
<1>6. Grows(l, r)
  BY <1>2, <1>3, <1>4, <1>5 DEF Grows, IsSequence
<1> QED BY <1>2, <1>3, <1>6 DEF r

\* A caller that does nothing keeps its invariant while the statements go on.
LEMMA Kept ==
    ASSUME NEW j \in JobRec, NEW there, NEW l, NEW r, Len(l) \in Nat, Grows(l, r),
           JobInv(j, there, l)
    PROVE  JobInv(j, there, r)
<1>1. j.sid > 0 => Goes(l[j.sid], r[j.sid])
  BY DEF JobInv, JobRec, Grows
<1>2. j.main > 0 => Goes(l[j.main], r[j.main])
  BY DEF JobInv, JobRec, Grows
<1>3. j.sid \in 0..Len(r) /\ j.main \in 0..Len(r)
  <2>1. Len(r) \in Nat
    BY LenProperties DEF Grows, IsSequence
  <2> QED BY <2>1 DEF JobInv, Grows
<1>4. Watching(j, r)
  BY <1>1 DEF JobInv, Watching, Goes, TERMINAL
<1>5. Behind(j, r)
  BY <1>2 DEF JobInv, Behind, Goes
<1>6. Watched(j, r)
  BY <1>1 DEF JobInv, Watched, Goes
<1> QED BY <1>3, <1>4, <1>5, <1>6 DEF JobInv

-----------------------------------------------------------------------------
(* The ends of a step *)

\* What holds of a job that is at a step of its call and fails there, or gets past it.
Underway(j, there, l) ==
    /\ j \in JobRec /\ j.todo # <<>> /\ Head(j.todo) # "unstage"
    /\ j.out = "none" /\ j.err = "none" /\ j.call # NoCall
    /\ Len(l) \in Nat /\ j.sid \in 0..Len(l) /\ j.main \in 0..Len(l)
    /\ Watched([j EXCEPT !.at = "step"], l)
    /\ there => j.todo \in StagedPlans

\* A call that fails keeps the invariant of its job: the staged file is still to be
\* removed.
LEMMA FailedKeeps ==
    ASSUME NEW j, NEW c, NEW l, NEW err \in Errors, Underway(j, c \in volume, l),
           err \in {"refused", "failed"} /\ j.main > 0 => l[j.main].state \in {"FAILED", "CANCELED"},
           err \in {"closed", "unread"} /\ j.main > 0 => l[j.main].state = "SUCCEEDED"
    PROVE  /\ Failed(j, c, err) \in JobRec
           /\ JobInv(Failed(j, c, err), c \in volume, l)
<1> DEFINE f == Failed(j, c, err)
<1>1. /\ <<"unstage">> \in Plans /\ <<>> \in Plans /\ <<"unstage">> # <<>>
      /\ <<"unstage">> \in StagedPlans /\ Head(<<"unstage">>) = "unstage"
  BY PlanFacts DEF Plans
<1>2. j \in JobRec
  BY DEF Underway
<1>3. CASE c \in volume
  <2>1. f = [j EXCEPT !.err = err, !.todo = <<"unstage">>, !.at = "step"]
    BY <1>3 DEF Failed
  <2>2. /\ f \in JobRec /\ f.err = err /\ f.todo = <<"unstage">> /\ f.at = "step" /\ f.out = j.out
        /\ f.sid = j.sid /\ f.main = j.main /\ f.call = j.call
    <3>1. f \in JobRec
      BY <2>1, <1>1, <1>2 DEF JobRec, Errors
    <3> QED BY <2>1, <3>1, <1>2 DEF JobRec
  <2> HIDE DEF f
  <2>3. Watching(f, l) /\ Ahead(f) /\ Staged(f, c \in volume)
    BY <2>2, <1>1 DEF Watching, Ahead, Staged, Underway
  <2>4. Behind(f, l)
    BY <2>2, <1>1 DEF Behind, Succeeded, Underway, Errors
  <2>5. Watched(f, l)
    <3>1. [j EXCEPT !.at = "step"].sid = j.sid /\ [j EXCEPT !.at = "step"].at = "step"
      BY <1>2 DEF JobRec
    <3> QED BY <2>2, <3>1 DEF Watched, Underway
  <2>6. JobInv(f, c \in volume, l)
    BY <2>2, <2>3, <2>4, <2>5 DEF JobInv, Underway
  <2> QED BY <2>2, <2>6 DEF f
<1>4. CASE c \notin volume
  <2>1. f = [j EXCEPT !.out = err, !.todo = <<>>, !.at = "step"]
    BY <1>4 DEF Failed
  <2>2. /\ f \in JobRec /\ f.err = j.err /\ f.todo = <<>> /\ f.at = "step" /\ f.out = err
        /\ f.sid = j.sid /\ f.main = j.main /\ f.call = j.call
    <3>1. f \in JobRec
      BY <2>1, <1>1, <1>2 DEF JobRec, Errors
    <3> QED BY <2>1, <3>1, <1>2 DEF JobRec
  <2> HIDE DEF f
  <2>3. Watching(f, l) /\ Ahead(f) /\ Staged(f, c \in volume)
    BY <2>2, <1>1, <1>4 DEF Watching, Ahead, Staged, Underway
  <2>4. Behind(f, l)
    BY <2>2, <1>1 DEF Behind, Succeeded, Underway, Errors
  <2>5. Watched(f, l)
    <3>1. [j EXCEPT !.at = "step"].sid = j.sid /\ [j EXCEPT !.at = "step"].at = "step"
      BY <1>2 DEF JobRec
    <3> QED BY <2>2, <3>1 DEF Watched, Underway
  <2>6. JobInv(f, c \in volume, l)
    BY <2>2, <2>3, <2>4, <2>5 DEF JobInv, Underway
  <2> QED BY <2>2, <2>6 DEF f
<1> QED BY <1>3, <1>4

\* So does one whose step is done.
LEMMA AdvancedKeeps ==
    ASSUME NEW j, NEW before, NEW there, NEW l, Underway(j, before, l),
           there => j.todo \in StagedPlans \/ Head(j.todo) = "stage",
           Head(j.todo) # "main" => j.main = 0,
           Head(j.todo) = "main" => /\ j.main > 0 /\ l[j.main].state = "SUCCEEDED"
                                    /\ Fetches(j.call) => Exact(j.got, l[j.main].manifest)
    PROVE  Advanced(j) \in JobRec /\ JobInv(Advanced(j), there, l)
<1> DEFINE f == Advanced(j)
           t == j.todo
           u == Tail(j.todo)
<1>1. Follows(t, u) /\ j \in JobRec /\ <<>> \notin StagedPlans
  BY PlanFacts DEF Underway, JobRec
<1>2. /\ f \in JobRec /\ f.err = "none" /\ f.todo = u /\ f.at = "step"
      /\ f.out = IF Len(t) = 1 THEN "ok" ELSE "none"
      /\ f.sid = j.sid /\ f.main = j.main /\ f.call = j.call /\ f.got = j.got
  BY <1>1 DEF Advanced, JobRec, Underway, Follows
<1>3. /\ u = <<>> => Len(t) = 1 /\ Head(t) = "main"
      /\ u # <<>> => Len(t) # 1
      /\ u # <<>> /\ Head(u) = "unstage" => Head(t) = "main"
      /\ u # <<>> /\ Head(u) # "unstage" => Head(t) # "main"
  <2>1. Head(<<"unstage">>) = "unstage"
    BY PlanFacts
  <2> QED BY <1>1, <2>1 DEF Follows, Underway
<1>4. there => u \in StagedPlans /\ u # <<>>
  BY <1>1 DEF Follows, Underway
<1>5. Underway(j, before, l)
  OBVIOUS
<1> HIDE DEF f, u
<1>6. Watching(f, l) /\ Ahead(f) /\ Staged(f, there)
  BY <1>2, <1>3, <1>4 DEF Watching, Ahead, Staged
<1>7. Behind(f, l)
  BY <1>2, <1>3, <1>5 DEF Behind, Succeeded, Underway
<1>8. Watched(f, l)
  <2>1. [j EXCEPT !.at = "step"].sid = j.sid /\ [j EXCEPT !.at = "step"].at = "step"
    BY <1>1 DEF JobRec
  <2> QED BY <1>2, <1>5, <2>1 DEF Watched, Underway
<1>9. JobInv(f, there, l)
  BY <1>2, <1>5, <1>6, <1>7, <1>8 DEF JobInv, Underway
<1> QED BY <1>2, <1>9 DEF f

-----------------------------------------------------------------------------
(* The steps of a call *)

\* What a step of caller c leaves of its own job, and of the others'.
Settled(c) ==
    /\ Grows(stmts, stmts')
    /\ \E j \in JobRec : job' = [job EXCEPT ![c] = j] /\ JobInv(j, c \in volume', stmts')
    /\ \A d \in Callers \ {c} : d \in volume' <=> d \in volume

\* A job at a step before its statement, or watching one, is under way.
LEMMA AtStepUnderway ==
    ASSUME Inv, NEW c \in Callers, NEW steps, AtStep(c, steps), "unstage" \notin steps
    PROVE  /\ Underway(job[c], c \in volume, stmts) /\ job[c].main = 0
           /\ Head(job[c].todo) \in steps
<1>1. /\ job[c] \in JobRec /\ JobInv(job[c], c \in volume, stmts)
      /\ job[c].todo # <<>> /\ job[c].at = "step" /\ Head(job[c].todo) # "unstage"
      /\ Head(job[c].todo) \in steps
  BY DEF Inv, TypeOK, JobsOK, CallsInv, AtStep
<1>2. Len(stmts) \in Nat
  BY SameGrows DEF Inv, TypeOK, StmtsOK
<1>3. [job[c] EXCEPT !.at = "step"].sid = job[c].sid /\ [job[c] EXCEPT !.at = "step"].at = "step"
  BY <1>1 DEF JobRec
<1>4. Watched([job[c] EXCEPT !.at = "step"], stmts)
  BY <1>1, <1>3 DEF JobInv, Watched
<1> QED BY <1>1, <1>2, <1>4 DEF Underway, JobInv, Ahead, Behind, Staged

\* A call that watches a statement watches one that exists, the main one in the
\* main step.
LEMMA WatchingUnderway ==
    ASSUME Inv, NEW c \in Callers, job[c].at # "step"
    PROVE  /\ job[c] \in JobRec /\ Len(stmts) \in Nat /\ job[c].sid \in 1..Len(stmts)
           /\ JobInv(job[c], c \in volume, stmts)
           /\ job[c].main = IF Head(job[c].todo) = "main" THEN job[c].sid ELSE 0
           /\ stmts[job[c].sid].state # "RUNNING" \/ stmts[job[c].sid].cancel =>
                Underway(job[c], c \in volume, stmts)
<1>1. job[c] \in JobRec /\ JobInv(job[c], c \in volume, stmts)
  BY DEF Inv, TypeOK, JobsOK, CallsInv
<1>2. Len(stmts) \in Nat
  BY SameGrows DEF Inv, TypeOK, StmtsOK
<1>3. [job[c] EXCEPT !.at = "step"].sid = job[c].sid
  BY <1>1 DEF JobRec
<1>4. ASSUME stmts[job[c].sid].state # "RUNNING" \/ stmts[job[c].sid].cancel
      PROVE  Underway(job[c], c \in volume, stmts)
  <2>1. Watched([job[c] EXCEPT !.at = "step"], stmts)
    BY <1>3, <1>4 DEF Watched
  <2> QED BY <1>1, <1>2, <2>1 DEF Underway, JobInv, Watching, Behind, Staged
<1>5. job[c].sid \in 1..Len(stmts)
  BY <1>1, <1>2 DEF JobInv, Watching
<1> QED BY <1>1, <1>2, <1>4, <1>5 DEF JobInv, Watching

\* A step that leaves the statements alone.
LEMMA StmtsKept ==
    ASSUME Inv
    PROVE  Grows(stmts, stmts) /\ Len(stmts) \in Nat
BY SameGrows DEF Inv, TypeOK, StmtsOK

\* Steps that fail before anything is submitted.
LEMMA FailsEarly ==
    ASSUME Inv, NEW c \in Callers, NEW steps, AtStep(c, steps), "unstage" \notin steps,
           UNCHANGED <<stmts, volume>>,
           job' = [job EXCEPT ![c] = Failed(job[c], c, "refused")]
    PROVE  Settled(c)
<1>1. Underway(job[c], c \in volume, stmts) /\ job[c].main = 0
  BY AtStepUnderway
<1>2. Failed(job[c], c, "refused") \in JobRec /\ JobInv(Failed(job[c], c, "refused"), c \in volume, stmts)
  BY <1>1, FailedKeeps DEF Errors
<1> QED BY <1>2, StmtsKept DEF Settled

\* A warehouse is resolved, or none is found.
LEMMA ResolveSettles ==
    ASSUME Inv, NEW c \in Callers, Resolve(c)
    PROVE  Settled(c) \/ UNCHANGED <<stmts, volume, job>>
<1>1. AtStep(c, {"lookup", "main"}) /\ UNCHANGED <<stmts, volume>>
  BY DEF Resolve
<1>2. UNCHANGED job \/ job' = [job EXCEPT ![c] = Failed(job[c], c, "refused")]
  BY DEF Resolve
<1> QED BY <1>1, <1>2, FailsEarly

\* A call that has no warehouse fails.
LEMMA NoWarehouseSettles ==
    ASSUME Inv, NEW c \in Callers, NoWarehouse(c)
    PROVE  Settled(c)
BY FailsEarly DEF NoWarehouse

\* A statement is its caller's.
LEMMA StatementBy ==
    ASSUME NEW c
    PROVE  Statement(c).by = c
<1> DEFINE o == job[c].call
<1>1. CASE Head(job[c].todo) = "lookup"
  BY <1>1 DEF Statement
<1>2. CASE Head(job[c].todo) # "lookup" /\ o.kind = "overwrite" /\ (o.mode = "dynamic" \/ o.where # {})
  BY <1>2 DEF Statement
<1>3. CASE Head(job[c].todo) # "lookup" /\ o.kind = "merge"
  BY <1>3 DEF Statement
<1>4. CASE /\ Head(job[c].todo) # "lookup"
           /\ ~(o.kind = "overwrite" /\ (o.mode = "dynamic" \/ o.where # {})) /\ o.kind # "merge"
  BY <1>4 DEF Statement
<1> QED BY <1>1, <1>2, <1>3, <1>4

\* A statement is submitted: its answer may be lost.
LEMMA SubmitSettles ==
    ASSUME Inv, NEW c \in Callers, Submit(c)
    PROVE  Settled(c)
<1> DEFINE j == job[c]
           id == Len(stmts) + 1
           new == [st |-> Statement(c), state |-> "RUNNING", cancel |-> FALSE, closed |-> FALSE,
                   manifest |-> Whole, before |-> {}, after |-> {}]
           main == IF Head(job[c].todo) = "main" THEN id ELSE 0
           waiting == [j EXCEPT !.at = "waiting", !.sid = id, !.main = main, !.seen = "PENDING"]
           lost == [j EXCEPT !.main = main]
<1>1. /\ AtStep(c, {"lookup", "main"}) /\ UNCHANGED volume
      /\ \/ stmts' = Append(stmts, new) /\ job' = [job EXCEPT ![c] = waiting]
         \/ stmts' = Append(stmts, new) /\ job' = [job EXCEPT ![c] = Failed(lost, c, "unknown")]
         \/ UNCHANGED stmts /\ job' = [job EXCEPT ![c] = Failed(j, c, "refused")]
  BY DEF Submit
<1>2. /\ Underway(j, c \in volume, stmts) /\ j.main = 0 /\ Head(j.todo) \in {"lookup", "main"}
      /\ j \in JobRec
  BY <1>1, AtStepUnderway DEF Underway
<1>3. Entry(new)
  <2>1. Statement(c).by = c
    BY StatementBy
  <2> QED BY <2>1 DEF Entry
<1>4. IsSequence(stmts) /\ \A s \in 1..Len(stmts) : Entry(stmts[s])
  BY DEF Inv, TypeOK, StmtsOK
<1> HIDE DEF new
<1> DEFINE l == Append(stmts, new)
<1>5. /\ Grows(stmts, l) /\ Len(l) = Len(stmts) + 1 /\ Len(stmts) \in Nat
  BY <1>3, <1>4, AppendGrows
<1> HIDE DEF l
<1>6. main \in 0..Len(l) /\ id \in 1..Len(l)
  BY <1>5
<1>7. CASE stmts' = l /\ job' = [job EXCEPT ![c] = waiting]
  <2>1. /\ waiting \in JobRec /\ waiting.at = "waiting" /\ waiting.sid = id /\ waiting.main = main
        /\ waiting.seen = "PENDING" /\ waiting.todo = j.todo /\ waiting.out = j.out
        /\ waiting.err = j.err /\ waiting.call = j.call
    <3>1. id \in Nat /\ main \in Nat
      BY <1>5
    <3> HIDE DEF id, main
    <3> QED BY <1>2, <3>1 DEF JobRec
  <2> HIDE DEF waiting
  <2>2. Watching(waiting, l)
    BY <2>1, <1>2, <1>6 DEF Watching, Underway, TERMINAL
  <2>3. Ahead(waiting) /\ Watched(waiting, l)
    BY <2>1 DEF Ahead, Watched
  <2>4. Behind(waiting, l)
    BY <2>1, <1>2 DEF Behind, Succeeded, Underway
  <2>5. Staged(waiting, c \in volume)
    BY <2>1, <1>2 DEF Staged, Underway
  <2>6. JobInv(waiting, c \in volume, l)
    <3>1. id \in 0..Len(l)
      BY <1>5, <1>6
    <3> QED BY <2>1, <2>2, <2>3, <2>4, <2>5, <1>6, <3>1 DEF JobInv
  <2> QED BY <2>1, <2>6, <1>1, <1>5, <1>7 DEF Settled
<1>8. CASE stmts' = l /\ job' = [job EXCEPT ![c] = Failed(lost, c, "unknown")]
  <2>1. /\ lost \in JobRec /\ lost.main = main /\ lost.sid = j.sid /\ lost.todo = j.todo
        /\ lost.out = j.out /\ lost.err = j.err /\ lost.call = j.call
        /\ [lost EXCEPT !.at = "step"].sid = j.sid /\ [lost EXCEPT !.at = "step"].at = "step"
        /\ [j EXCEPT !.at = "step"].sid = j.sid /\ [j EXCEPT !.at = "step"].at = "step"
    BY <1>2, <1>5 DEF JobRec
  <2> HIDE DEF lost
  <2>2. j.sid \in 0..Len(l)
    BY <1>2, <1>5 DEF Underway
  <2>3. Watched([lost EXCEPT !.at = "step"], l)
    <3>1. j.sid > 0 => Goes(stmts[j.sid], l[j.sid])
      BY <1>2, <1>5 DEF Underway, Grows
    <3>2. j.sid > 0 => stmts[j.sid].state # "RUNNING" \/ stmts[j.sid].cancel
      BY <1>2, <2>1 DEF Underway, Watched
    <3> QED BY <2>1, <3>1, <3>2 DEF Watched, Goes
  <2>4. Len(l) \in Nat
    BY <1>5
  <2>5. Underway(lost, c \in volume, l)
    BY <2>1, <2>2, <2>3, <2>4, <1>2, <1>6 DEF Underway
  <2>6. /\ Failed(lost, c, "unknown") \in JobRec
        /\ JobInv(Failed(lost, c, "unknown"), c \in volume, l)
    BY <2>5, FailedKeeps DEF Errors
  <2> QED BY <2>6, <1>1, <1>5, <1>8 DEF Settled
<1>9. CASE UNCHANGED stmts /\ job' = [job EXCEPT ![c] = Failed(j, c, "refused")]
  BY <1>1, <1>9, FailsEarly
<1> QED BY <1>1, <1>7, <1>8, <1>9 DEF l

\* A poll reads the state of the statement.
LEMMA PollSettles ==
    ASSUME Inv, NEW c \in Callers, Poll(c)
    PROVE  Settled(c)
<1> DEFINE j == job[c]
           f == [j EXCEPT !.seen = Reported(stmts[j.sid])]
<1>1. /\ j \in JobRec /\ Len(stmts) \in Nat /\ j.sid \in 1..Len(stmts)
      /\ JobInv(j, c \in volume, stmts)
  BY WatchingUnderway DEF Poll
<1>2. /\ Reported(stmts[j.sid]) \in {"RUNNING"} \cup TERMINAL
      /\ LET seen == Reported(stmts[j.sid])
         IN  seen \in TERMINAL =>
                stmts[j.sid].state = IF seen = "CLOSED" THEN "SUCCEEDED" ELSE seen
  BY <1>1 DEF Inv, TypeOK, StmtsOK, Entry, Reported, TERMINAL
<1>3. /\ f \in JobRec /\ f.seen = Reported(stmts[j.sid])
      /\ f.call = j.call /\ f.todo = j.todo /\ f.at = j.at /\ f.sid = j.sid /\ f.main = j.main
      /\ f.next = j.next /\ f.got = j.got /\ f.err = j.err /\ f.out = j.out
      /\ f.undeleted = j.undeleted
  BY <1>1, <1>2 DEF JobRec
<1>4. job' = [job EXCEPT ![c] = f] /\ UNCHANGED <<stmts, volume>> /\ j.at = "waiting"
  BY DEF Poll
<1>5. j.todo # <<>>
  BY <1>1, <1>4 DEF JobInv, Watching
<1> HIDE DEF f
<1>6. Watching(f, stmts) /\ Ahead(f) /\ Watched(f, stmts) /\ Staged(f, c \in volume)
  BY <1>1, <1>2, <1>3, <1>4 DEF JobInv, Watching, Fetching, Ahead, Watched, Staged
<1>7. Behind(f, stmts)
  BY <1>1, <1>3, <1>5 DEF JobInv, Behind, Succeeded
<1>8. JobInv(f, c \in volume, stmts)
  BY <1>1, <1>3, <1>6, <1>7 DEF JobInv
<1> QED BY <1>3, <1>4, <1>8, StmtsKept DEF Settled

\* A statement that ended ends the step.
LEMMA EndedSettles ==
    ASSUME Inv, NEW c \in Callers, Ended(c)
    PROVE  Settled(c)
<1> DEFINE j == job[c]
           f == [j EXCEPT !.at = "fetching", !.next = 0, !.got = <<>>]
<1>1. /\ j \in JobRec /\ Len(stmts) \in Nat /\ j.sid \in 1..Len(stmts)
      /\ JobInv(j, c \in volume, stmts)
      /\ j.main = IF Head(j.todo) = "main" THEN j.sid ELSE 0
  BY WatchingUnderway DEF Ended
<1>2. /\ j.at = "waiting" /\ j.seen \in TERMINAL /\ UNCHANGED <<stmts, volume>>
      /\ stmts[j.sid].state = IF j.seen = "CLOSED" THEN "SUCCEEDED" ELSE j.seen
  BY <1>1 DEF Ended, JobInv, Watching
<1>3. Underway(j, c \in volume, stmts)
  BY <1>2, WatchingUnderway DEF TERMINAL
<1>4. /\ j.seen # "SUCCEEDED" =>
            job' = [job EXCEPT ![c] = Failed(j, c, IF j.seen = "CLOSED" THEN "closed" ELSE "failed")]
      /\ j.seen = "SUCCEEDED" =>
            \/ job' = [job EXCEPT ![c] = Advanced(j)] /\ Head(j.todo) = "main" /\ ~Fetches(j.call)
            \/ job' = [job EXCEPT ![c] = Failed(j, c, "unread")]
            \/ job' = [job EXCEPT ![c] = f]
  BY DEF Ended
<1>5. CASE j.seen # "SUCCEEDED"
  <2> DEFINE err == IF j.seen = "CLOSED" THEN "closed" ELSE "failed"
  <2>1. j.main > 0 => stmts[j.main].state \in IF err = "closed" THEN {"SUCCEEDED"}
                                              ELSE {"FAILED", "CANCELED"}
    BY <1>1, <1>2, <1>5 DEF TERMINAL
  <2>2. Failed(j, c, err) \in JobRec /\ JobInv(Failed(j, c, err), c \in volume, stmts)
    BY <1>3, <2>1, FailedKeeps DEF Errors
  <2> QED BY <2>2, <1>2, <1>4, <1>5, StmtsKept DEF Settled
<1>6. CASE j.seen = "SUCCEEDED" /\ job' = [job EXCEPT ![c] = Failed(j, c, "unread")]
  <2>1. j.main > 0 => stmts[j.main].state = "SUCCEEDED"
    BY <1>1, <1>2, <1>6
  <2>2. Failed(j, c, "unread") \in JobRec /\ JobInv(Failed(j, c, "unread"), c \in volume, stmts)
    BY <1>3, <2>1, FailedKeeps DEF Errors
  <2> QED BY <2>2, <1>2, <1>6, StmtsKept DEF Settled
<1>7. CASE /\ j.seen = "SUCCEEDED" /\ job' = [job EXCEPT ![c] = Advanced(j)]
           /\ Head(j.todo) = "main" /\ ~Fetches(j.call)
  <2>1. j.main > 0 /\ stmts[j.main].state = "SUCCEEDED"
    BY <1>1, <1>2, <1>7
  <2>2. c \in volume => j.todo \in StagedPlans
    BY <1>3 DEF Underway
  <2>3. Advanced(j) \in JobRec /\ JobInv(Advanced(j), c \in volume, stmts)
    BY <1>3, <1>7, <2>1, <2>2, AdvancedKeeps
  <2> QED BY <2>3, <1>2, <1>7, StmtsKept DEF Settled
<1>8. CASE j.seen = "SUCCEEDED" /\ job' = [job EXCEPT ![c] = f]
  <2>1. /\ f \in JobRec /\ f.at = "fetching" /\ f.next = 0 /\ f.got = <<>> /\ f.seen = j.seen
        /\ f.call = j.call /\ f.todo = j.todo /\ f.sid = j.sid /\ f.main = j.main
        /\ f.err = j.err /\ f.out = j.out /\ f.undeleted = j.undeleted
    <3>1. <<>> \in Seq({0, 1})
      BY EmptySeq
    <3> QED BY <1>1, <3>1 DEF JobRec
  <2> HIDE DEF f
  <2>2. /\ Watching(f, stmts) /\ Ahead(f) /\ Watched(f, stmts) /\ Staged(f, c \in volume)
    BY <1>1, <1>2, <1>8, <2>1 DEF JobInv, Watching, Fetching, Ahead, Watched, Staged
  <2>3. Behind(f, stmts)
    BY <1>1, <1>3, <2>1 DEF JobInv, Behind, Succeeded, Underway
  <2>4. JobInv(f, c \in volume, stmts)
    BY <1>1, <2>1, <2>2, <2>3 DEF JobInv
  <2> QED BY <2>1, <2>4, <1>2, <1>8, StmtsKept DEF Settled
<1> QED BY <1>4, <1>5, <1>6, <1>7, <1>8

\* A call gives up its statement and cancels it.
LEMMA GiveUpSettles ==
    ASSUME Inv, NEW c \in Callers, GiveUp(c)
    PROVE  Settled(c)
<1> DEFINE j == job[c]
           e == [stmts[j.sid] EXCEPT !.cancel = TRUE]
           l == [stmts EXCEPT ![j.sid] = e]
<1>1. /\ j \in JobRec /\ Len(stmts) \in Nat /\ j.sid \in 1..Len(stmts)
      /\ JobInv(j, c \in volume, stmts)
  BY WatchingUnderway DEF GiveUp
<1>2. /\ j.at = "waiting" /\ UNCHANGED volume /\ stmts' = l
      /\ \E err \in {"cancelled", "unknown"} : job' = [job EXCEPT ![c] = Failed(j, c, err)]
  BY DEF GiveUp
<1>3. IsSequence(stmts) /\ \A s \in 1..Len(stmts) : Entry(stmts[s])
  BY DEF Inv, TypeOK, StmtsOK
<1>4. Goes(stmts[j.sid], e) /\ e.cancel
  BY <1>1, <1>3 DEF Goes, Entry
<1>5. j.sid \in DOMAIN stmts
  BY <1>1, <1>3, LenProperties DEF IsSequence
<1> HIDE DEF e
<1>6. Grows(stmts, l) /\ Len(l) = Len(stmts) /\ l[j.sid] = e
  BY <1>3, <1>4, <1>5, ExceptGrows
<1> HIDE DEF l
<1>7. JobInv(j, c \in volume, l)
  BY <1>1, <1>6, Kept
<1>8. Watched([j EXCEPT !.at = "step"], l)
  <2>1. [j EXCEPT !.at = "step"].sid = j.sid
    BY <1>1 DEF JobRec
  <2> QED BY <2>1, <1>4, <1>6 DEF Watched
<1>9. Underway(j, c \in volume, l)
  BY <1>1, <1>2, <1>6, <1>7, <1>8 DEF Underway, JobInv, Watching, Behind, Staged
<1>10. \A err \in {"cancelled", "unknown"} :
          Failed(j, c, err) \in JobRec /\ JobInv(Failed(j, c, err), c \in volume, l)
  BY <1>9, FailedKeeps DEF Errors
<1> QED BY <1>2, <1>6, <1>10 DEF Settled

\* Steps that give up on a result.
LEMMA UnreadSettles ==
    ASSUME Inv, NEW c \in Callers, job[c].at = "fetching", UNCHANGED <<stmts, volume>>,
           job' = [job EXCEPT ![c] = Failed(job[c], c, "unread")]
    PROVE  Settled(c)
<1>1. JobInv(job[c], c \in volume, stmts)
  BY WatchingUnderway
<1>2. Underway(job[c], c \in volume, stmts) /\ stmts[job[c].sid].state = "SUCCEEDED"
  <2>1. stmts[job[c].sid].state = "SUCCEEDED"
    BY <1>1 DEF JobInv, Watching
  <2> QED BY <2>1, WatchingUnderway
<1> DEFINE l == stmts
<1>3. job[c].main > 0 => l[job[c].main].state = "SUCCEEDED"
  BY <1>2, WatchingUnderway
<1>4. Failed(job[c], c, "unread") \in JobRec /\ JobInv(Failed(job[c], c, "unread"), c \in volume, stmts)
  BY <1>2, <1>3, FailedKeeps DEF Errors
<1> QED BY <1>4, StmtsKept DEF Settled

\* A result has two chunks.
LEMMA ChunkFacts ==
    /\ ToSet(<<0>>) = {0} /\ ToSet(<<0, 1>>) = {0, 1}
    /\ Append(<<>>, 0) = <<0>> /\ Append(<<0>>, 1) = <<0, 1>>
    /\ <<0>> # <<>> /\ <<0, 1>> # <<>> /\ Len(<<>>) # 2 /\ Len(<<0>>) # 2
<1>1. ToSet(<<0>>) = {0} /\ ToSet(<<0, 1>>) = {0, 1}
  BY DEF ToSet
<1>2. Append(<<>>, 0) = <<0>>
  <2>1. Append(<<>>, 0) \in Seq(Nat) /\ <<0>> \in Seq(Nat) /\ Len(Append(<<>>, 0)) = 1 /\ Len(<<0>>) = 1
    BY AppendProperties, EmptySeq
  <2>2. \A i \in 1..1 : Append(<<>>, 0)[i] = <<0>>[i]
    BY AppendProperties, EmptySeq
  <2> QED BY <2>1, <2>2, SeqEqual
<1>3. Append(<<0>>, 1) = <<0, 1>>
  <2>1. /\ Append(<<0>>, 1) \in Seq(Nat) /\ <<0, 1>> \in Seq(Nat) /\ Len(Append(<<0>>, 1)) = 2
        /\ Len(<<0, 1>>) = 2
    OBVIOUS
  <2>2. \A i \in 1..2 : Append(<<0>>, 1)[i] = <<0, 1>>[i]
    OBVIOUS
  <2> QED BY <2>1, <2>2, SeqEqual
<1>4. <<0>> # <<>> /\ <<0, 1>> # <<>> /\ Len(<<>>) # 2 /\ Len(<<0>>) # 2
  OBVIOUS
<1> QED BY <1>1, <1>2, <1>3, <1>4

\* A chunk is fetched.
LEMMA FetchSettles ==
    ASSUME Inv, NEW c \in Callers, Fetch(c)
    PROVE  Settled(c)
<1> DEFINE j == job[c]
           F(n) == [j EXCEPT !.got = Append(j.got, j.next), !.next = n]
<1>1. /\ j \in JobRec /\ JobInv(j, c \in volume, stmts)
  BY WatchingUnderway DEF Fetch
<1>2. j.at = "fetching" /\ j.next \in {0, 1} /\ UNCHANGED <<stmts, volume>>
  BY DEF Fetch
<1> DEFINE manifest == stmts[j.sid].manifest
           again == "numbered" \in manifest /\ j.next \in ToSet(j.got)
<1>3. \/ again /\ job' = [job EXCEPT ![c] = Failed(j, c, "unread")]
      \/ ~again /\ \E n \in {0, 1, EndOfResult} : job' = [job EXCEPT ![c] = F(n)]
  <2> DEFINE right == IF j.next = 1 THEN EndOfResult ELSE j.next + 1
  <2>1. right \in {0, 1, EndOfResult}
    BY <1>2
  <2>2. \/ again /\ job' = [job EXCEPT ![c] = Failed(j, c, "unread")]
        \/ ~again /\ job' = [job EXCEPT ![c] = F(right)]
        \/ ~again /\ \E n \in {0, 1, EndOfResult} \ {right} : job' = [job EXCEPT ![c] = F(n)]
    BY DEF Fetch
  <2> HIDE DEF right, F, again
  <2> QED BY <2>1, <2>2
<1>4. CASE job' = [job EXCEPT ![c] = Failed(j, c, "unread")]
  BY <1>2, <1>4, UnreadSettles
<1>5. CASE ~again /\ \E n \in {0, 1, EndOfResult} : job' = [job EXCEPT ![c] = F(n)]
  <2>1. PICK n \in {0, 1, EndOfResult} : job' = [job EXCEPT ![c] = F(n)]
    BY <1>5
  <2>2. j.got \in Seq({0, 1}) /\ Fetching(j, manifest)
    BY <1>1, <1>2 DEF JobRec, JobInv, Watching
  <2> DEFINE g == Append(j.got, j.next)
             f == F(n)
  <2>3. g \in Seq({0, 1})
    BY <1>2, <2>2, AppendProperties
  <2>4. "numbered" \in manifest => g \in {<<0>>, <<0, 1>>}
    BY <1>2, <1>5, <2>2, ChunkFacts DEF Fetching
  <2> HIDE DEF g
  <2>5. /\ f \in JobRec /\ f.at = "fetching" /\ f.got = g /\ f.seen = j.seen
        /\ f.call = j.call /\ f.todo = j.todo /\ f.sid = j.sid /\ f.main = j.main
        /\ f.err = j.err /\ f.out = j.out /\ f.undeleted = j.undeleted
    BY <1>1, <1>2, <2>3 DEF JobRec, g
  <2>6. Fetching(f, manifest)
    BY <2>4, <2>5, ChunkFacts DEF Fetching
  <2>7. job' = [job EXCEPT ![c] = f]
    BY <2>1
  <2> HIDE DEF f, manifest
  <2>8. /\ Watching(f, stmts) /\ Ahead(f) /\ Watched(f, stmts) /\ Staged(f, c \in volume)
    BY <1>1, <1>2, <2>5, <2>6 DEF JobInv, Watching, Ahead, Watched, Staged, manifest
  <2>9. j.todo # <<>> /\ Head(j.todo) # "unstage" /\ j.out = "none" /\ j.err = "none"
    BY <1>1, <1>2 DEF JobInv, Watching
  <2>10. Behind(f, stmts)
    BY <1>1, <2>5, <2>9 DEF JobInv, Behind, Succeeded
  <2>11. JobInv(f, c \in volume, stmts)
    BY <1>1, <2>5, <2>8, <2>10 DEF JobInv
  <2> QED BY <2>5, <2>7, <2>11, <1>2, StmtsKept DEF Settled
<1> QED BY <1>3, <1>4, <1>5

\* A download that fails fails the call.
LEMMA DownloadFailsSettles ==
    ASSUME Inv, NEW c \in Callers, DownloadFails(c)
    PROVE  Settled(c)
BY UnreadSettles DEF DownloadFails

\* The rows of a result are counted once all its chunks came.
LEMMA FetchedSettles ==
    ASSUME Inv, NEW c \in Callers, Fetched(c)
    PROVE  Settled(c)
<1> DEFINE j == job[c]
<1>1. /\ j \in JobRec /\ JobInv(j, c \in volume, stmts) /\ Len(stmts) \in Nat
      /\ j.sid \in 1..Len(stmts) /\ j.main = IF Head(j.todo) = "main" THEN j.sid ELSE 0
  BY WatchingUnderway DEF Fetched
<1>2. j.at = "fetching" /\ UNCHANGED <<stmts, volume>>
  BY DEF Fetched
<1> DEFINE counted == "counted" \in stmts[j.sid].manifest => Len(j.got) = 2
<1>3. \/ counted /\ j.next = EndOfResult /\ job' = [job EXCEPT ![c] = Advanced(j)]
      \/ job' = [job EXCEPT ![c] = Failed(j, c, "unread")]
  BY DEF Fetched
<1>4. CASE job' = [job EXCEPT ![c] = Failed(j, c, "unread")]
  BY <1>2, <1>4, UnreadSettles
<1>5. CASE counted /\ j.next = EndOfResult /\ job' = [job EXCEPT ![c] = Advanced(j)]
  <2>1. stmts[j.sid].state = "SUCCEEDED"
    BY <1>1, <1>2 DEF JobInv, Watching
  <2>2. Underway(j, c \in volume, stmts)
    BY <1>2, <2>1, WatchingUnderway
  <2>3. Exact(j.got, stmts[j.sid].manifest)
    <3>1. Fetching(j, stmts[j.sid].manifest)
      BY <1>1, <1>2 DEF JobInv, Watching
    <3> QED BY <1>5, <3>1, ChunkFacts DEF Exact, Fetching, EndOfResult
  <2>4. c \in volume => j.todo \in StagedPlans
    BY <2>2 DEF Underway
  <2>5. Head(j.todo) = "main" => /\ j.main > 0 /\ stmts[j.main].state = "SUCCEEDED"
                                 /\ Exact(j.got, stmts[j.main].manifest)
    BY <1>1, <2>1, <2>3
  <2>6. Head(j.todo) # "main" => j.main = 0
    BY <1>1
  <2>7. Advanced(j) \in JobRec /\ JobInv(Advanced(j), c \in volume, stmts)
    BY <2>2, <2>4, <2>5, <2>6, AdvancedKeeps
  <2> QED BY <2>7, <1>2, <1>5, StmtsKept DEF Settled
<1> QED BY <1>3, <1>4, <1>5

\* The data of a write is staged, or refused.
LEMMA StageSettles ==
    ASSUME Inv, NEW c \in Callers, Stage(c)
    PROVE  Settled(c)
<1> DEFINE j == job[c]
           f == Failed(j, c, "refused")
           G(left) == [f EXCEPT !.undeleted = (left # {})]
<1>1. AtStep(c, {"stage"}) /\ UNCHANGED stmts
  BY DEF Stage
<1>2. /\ Underway(j, c \in volume, stmts) /\ j.main = 0 /\ Head(j.todo) = "stage"
      /\ j \in JobRec /\ j.todo \in Plans
  BY <1>1, AtStepUnderway DEF Underway, JobRec
<1>3. c \notin volume
  BY <1>2, PlanFacts DEF Follows, Underway
<1>4. \/ volume' = volume \cup {c} /\ job' = [job EXCEPT ![c] = Advanced(j)]
      \/ UNCHANGED volume /\ job' = [job EXCEPT ![c] = f]
      \/ \E left \in SUBSET {c} : volume' = volume \cup left /\ job' = [job EXCEPT ![c] = G(left)]
  BY DEF Stage
<1>5. CASE volume' = volume \cup {c} /\ job' = [job EXCEPT ![c] = Advanced(j)]
  <2>1. Advanced(j) \in JobRec /\ JobInv(Advanced(j), c \in volume', stmts)
    BY <1>2, AdvancedKeeps
  <2> QED BY <2>1, <1>1, <1>5, StmtsKept DEF Settled
<1>6. CASE UNCHANGED volume /\ job' = [job EXCEPT ![c] = f]
  BY <1>1, <1>6, FailsEarly
<1>7. ASSUME NEW left \in SUBSET {c},
             volume' = volume \cup left, job' = [job EXCEPT ![c] = G(left)]
      PROVE  Settled(c)
  <2> DEFINE g == G(left)
  <2>1. f \in JobRec /\ JobInv(f, c \in volume, stmts)
    BY <1>2, FailedKeeps DEF Errors
  <2>2. f.out = "refused" /\ f.todo = <<>> /\ f.at = "step" /\ f.main = 0
    BY <1>2, <1>3 DEF Failed, JobRec
  <2> HIDE DEF f
  <2>3. /\ g \in JobRec /\ g.undeleted = (left # {}) /\ g.seen = f.seen
        /\ g.call = f.call /\ g.todo = f.todo /\ g.at = f.at /\ g.sid = f.sid /\ g.main = f.main
        /\ g.next = f.next /\ g.got = f.got /\ g.err = f.err /\ g.out = f.out
    BY <2>1 DEF JobRec
  <2> HIDE DEF g
  <2>4. Staged(g, c \in volume')
    BY <1>3, <1>7, <2>2, <2>3 DEF Staged
  <2>5. Watching(g, stmts) /\ Ahead(g) /\ Watched(g, stmts)
    BY <2>1, <2>2, <2>3 DEF JobInv, Watching, Ahead, Watched
  <2>6. Behind(g, stmts)
    BY <2>2, <2>3 DEF Behind, Succeeded
  <2>7. JobInv(g, c \in volume', stmts)
    BY <2>1, <2>3, <2>4, <2>5, <2>6 DEF JobInv
  <2>8. \A d \in Callers \ {c} : d \in volume' <=> d \in volume
    BY <1>7
  <2>9. job' = [job EXCEPT ![c] = g]
    BY <1>7 DEF g
  <2> QED BY <2>3, <2>7, <2>8, <2>9, <1>1, StmtsKept DEF Settled
<1> QED BY <1>4, <1>5, <1>6, <1>7

\* The predicate of a dynamic overwrite is made from the data.
LEMMA PredicateSettles ==
    ASSUME Inv, NEW c \in Callers, Predicate(c)
    PROVE  Settled(c)
<1> DEFINE j == job[c]
<1>1. AtStep(c, {"predicate"}) /\ UNCHANGED <<stmts, volume>>
  BY DEF Predicate
<1>2. Underway(j, c \in volume, stmts) /\ j.main = 0 /\ Head(j.todo) = "predicate"
  BY <1>1, AtStepUnderway
<1>3. \/ job' = [job EXCEPT ![c] = Failed(j, c, "refused")]
      \/ job' = [job EXCEPT ![c] = Advanced(j)]
  BY DEF Predicate
<1>4. CASE job' = [job EXCEPT ![c] = Failed(j, c, "refused")]
  BY <1>1, <1>4, FailsEarly
<1>5. CASE job' = [job EXCEPT ![c] = Advanced(j)]
  <2>1. c \in volume => j.todo \in StagedPlans
    BY <1>2 DEF Underway
  <2>2. Advanced(j) \in JobRec /\ JobInv(Advanced(j), c \in volume, stmts)
    BY <1>2, <2>1, AdvancedKeeps
  <2> QED BY <2>2, <1>1, <1>5, StmtsKept DEF Settled
<1> QED BY <1>3, <1>4, <1>5

\* The staged file is removed, or its removal fails.
LEMMA UnstageSettles ==
    ASSUME Inv, NEW c \in Callers, Unstage(c)
    PROVE  Settled(c)
<1> DEFINE j == job[c]
           f == [j EXCEPT !.todo = <<>>, !.undeleted = (volume' = volume),
                          !.out = IF j.err = "none" THEN "ok" ELSE j.err]
<1>1. AtStep(c, {"unstage"}) /\ UNCHANGED stmts /\ job' = [job EXCEPT ![c] = f]
  BY DEF Unstage
<1>2. volume' = volume \ {c} \/ volume' = volume
  BY DEF Unstage
<1>3. j \in JobRec /\ JobInv(j, c \in volume, stmts)
  BY DEF Inv, TypeOK, JobsOK, CallsInv
<1>4. j.todo # <<>> /\ Head(j.todo) = "unstage" /\ j.at = "step" /\ j.out = "none"
  BY <1>1, <1>3 DEF AtStep, JobInv, Behind
<1>5. /\ f \in JobRec /\ f.todo = <<>> /\ f.undeleted = (volume' = volume)
      /\ f.out = (IF j.err = "none" THEN "ok" ELSE j.err)
      /\ f.seen = j.seen /\ f.call = j.call /\ f.at = j.at /\ f.sid = j.sid /\ f.main = j.main
      /\ f.next = j.next /\ f.got = j.got /\ f.err = j.err
  <2>1. <<>> \in Plans
    BY DEF Plans
  <2>2. (volume' = volume) \in BOOLEAN
    OBVIOUS
  <2>3. (IF j.err = "none" THEN "ok" ELSE j.err)
          \in {"none", "ok"} \cup Errors
    BY <1>3 DEF JobRec
  <2> DEFINE end == IF j.err = "none" THEN "ok" ELSE j.err
             kept == volume' = volume
  <2> HIDE DEF end, kept
  <2>4. f = [j EXCEPT !.todo = <<>>, !.undeleted = kept, !.out = end]
    BY DEF end, kept
  <2>5. kept \in BOOLEAN
        /\ end \in {"none", "ok"} \cup Errors
    BY <2>2, <2>3 DEF end, kept
  <2> HIDE DEF f
  <2>6. f \in JobRec
    BY <1>3, <2>1, <2>4, <2>5 DEF JobRec
  <2>7. /\ f.todo = <<>> /\ f.undeleted = kept /\ f.out = end
        /\ f.seen = j.seen /\ f.call = j.call /\ f.at = j.at /\ f.sid = j.sid /\ f.main = j.main
        /\ f.next = j.next /\ f.got = j.got /\ f.err = j.err
    BY <1>3, <2>4 DEF JobRec
  <2> QED BY <2>6, <2>7 DEF end, kept
<1> HIDE DEF f
<1>6. f.out # "none" /\ (f.out = "ok" => f.err = "none")
  BY <1>3, <1>5 DEF JobRec, Errors
<1>7. Watching(f, stmts) /\ Ahead(f) /\ Watched(f, stmts) /\ Staged(f, c \in volume')
  BY <1>2, <1>3, <1>4, <1>5, <1>6 DEF JobInv, Watching, Ahead, Watched, Staged
<1>8. Behind(f, stmts)
  <2>1. j.err = "none" => Succeeded(j)
    BY <1>4 DEF Succeeded
  <2>2. /\ j.err = "none" => /\ j.main > 0 /\ stmts[j.main].state = "SUCCEEDED"
                             /\ Fetches(j.call) => Exact(j.got, stmts[j.main].manifest)
        /\ j.err \in {"closed", "unread"} /\ j.main > 0 => stmts[j.main].state = "SUCCEEDED"
        /\ j.err \in {"refused", "failed"} /\ j.main > 0 => stmts[j.main].state \in {"FAILED", "CANCELED"}
    BY <1>3, <2>1 DEF JobInv, Behind
  <2> QED BY <1>5, <1>6, <2>2 DEF Behind, Succeeded
<1>9. JobInv(f, c \in volume', stmts)
  BY <1>3, <1>5, <1>7, <1>8 DEF JobInv
<1>10. \A d \in Callers \ {c} : d \in volume' <=> d \in volume
  BY <1>2
<1> QED BY <1>1, <1>5, <1>9, <1>10, StmtsKept DEF Settled

\* A call begins with the steps its kind needs.
LEMMA BeginSettles ==
    ASSUME Inv, NEW c \in Callers, NEW o \in Calls, Begin(c, o)
    PROVE  Settled(c)
<1> DEFINE refused == [Idle EXCEPT !.call = o, !.out = "refused"]
           begun == [Idle EXCEPT !.call = o, !.todo = Steps(o, table.holds)]
<1>1. /\ job[c] = Idle /\ UNCHANGED <<stmts, volume>>
      /\ job' = [job EXCEPT ![c] = refused] \/ job' = [job EXCEPT ![c] = begun]
  BY DEF Begin
<1>2. JobInv(Idle, c \in volume, stmts) /\ Idle \in JobRec
  BY <1>1 DEF Inv, TypeOK, JobsOK, CallsInv
<1>3. c \notin volume
  BY <1>2, PlanFacts DEF JobInv, Staged, Idle
<1>4. o # NoCall
  BY CallsAssumption DEF NoCall, WritesData, Reads, Changes, Maintains, Commands, Alters, Governs
<1>5. CASE job' = [job EXCEPT ![c] = refused]
  <2>1. /\ refused \in JobRec /\ refused.out = "refused" /\ refused.todo = <<>> /\ refused.at = "step"
        /\ refused.sid = 0 /\ refused.main = 0 /\ refused.err = "none"
    BY <1>2 DEF Idle, JobRec, Errors
  <2> HIDE DEF refused
  <2>2. JobInv(refused, c \in volume, stmts)
    <3>1. 0 \in 0..Len(stmts)
      BY StmtsKept
    <3> QED BY <2>1, <1>3, <3>1 DEF JobInv, Watching, Ahead, Behind, Succeeded, Watched, Staged
  <2> QED BY <2>1, <2>2, <1>1, <1>5, StmtsKept DEF Settled
<1>6. CASE job' = [job EXCEPT ![c] = begun]
  <2> DEFINE t == Steps(o, table.holds)
  <2>1. t \in Plans /\ t # <<>> /\ Head(t) # "unstage"
    BY StepsPlan
  <2> HIDE DEF t
  <2>2. /\ begun \in JobRec /\ begun.out = "none" /\ begun.todo = t /\ begun.at = "step"
        /\ begun.sid = 0 /\ begun.main = 0 /\ begun.err = "none" /\ begun.call = o
    BY <1>2, <2>1 DEF Idle, JobRec, t
  <2> HIDE DEF begun
  <2>3. JobInv(begun, c \in volume, stmts)
    <3>1. 0 \in 0..Len(stmts)
      BY StmtsKept
    <3> QED BY <2>1, <2>2, <1>3, <1>4, <3>1
            DEF JobInv, Watching, Ahead, Behind, Succeeded, Watched, Staged
  <2> QED BY <2>2, <2>3, <1>1, <1>6, StmtsKept DEF Settled
<1> QED BY <1>1, <1>5, <1>6

-----------------------------------------------------------------------------
(* The theorems *)

\* The warehouse runs or cancels a statement, whatever its caller does.
LEMMA WarehouseSettles ==
    ASSUME Inv, NEW s \in DOMAIN stmts, RunStatement(s) \/ CancelArrives(s) \/ CloseResult(s)
    PROVE  Grows(stmts, stmts') /\ UNCHANGED <<job, volume>>
<1>1. /\ IsSequence(stmts) /\ \A i \in 1..Len(stmts) : Entry(stmts[i])
      /\ DOMAIN stmts = 1..Len(stmts)
  BY LenProperties DEF Inv, TypeOK, StmtsOK, IsSequence
<1> DEFINE e == stmts[s]
<1>2. Entry(e) /\ (~CloseResult(s) => e.state = "RUNNING") /\ UNCHANGED <<job, volume>>
  BY <1>1 DEF RunStatement, CancelArrives, CloseResult
<1>3. CASE ~CloseResult(s) /\ \E x \in {"FAILED", "CANCELED"} : stmts' = [stmts EXCEPT ![s].state = x]
  <2>1. PICK x \in {"FAILED", "CANCELED"} : stmts' = [stmts EXCEPT ![s] = [e EXCEPT !.state = x]]
    BY <1>3
  <2>2. Goes(e, [e EXCEPT !.state = x])
    BY <1>2, <1>3 DEF Goes, Entry, TERMINAL
  <2>3. Grows(stmts, stmts')
    BY <1>1, <2>1, <2>2, ExceptGrows
  <2> QED BY <2>3, <1>2
<1>4. CASE /\ ~CloseResult(s)
           /\ \E a, m : stmts' = [stmts EXCEPT ![s].state = "SUCCEEDED", ![s].before = table.rows,
                                                ![s].after = a, ![s].manifest = m]
  <2>1. PICK a, m : stmts' = [stmts EXCEPT ![s].state = "SUCCEEDED", ![s].before = table.rows,
                                             ![s].after = a, ![s].manifest = m]
    BY <1>4
  <2> DEFINE f == [e EXCEPT !.state = "SUCCEEDED", !.before = table.rows, !.after = a,
                            !.manifest = m]
  <2>2. stmts' = [stmts EXCEPT ![s] = f]
    BY <2>1, <1>1 DEF IsSequence
  <2>3. Goes(e, f)
    BY <1>2, <1>4 DEF Goes, Entry, TERMINAL
  <2> HIDE DEF f
  <2>4. Grows(stmts, stmts')
    BY <1>1, <2>2, <2>3, ExceptGrows
  <2> QED BY <2>4, <1>2
<1>5. CASE ~CloseResult(s) /\ CancelArrives(s)
  BY <1>3, <1>5 DEF CancelArrives
<1>6. CASE ~CloseResult(s) /\ RunStatement(s)
  <2> DEFINE st == stmts[s].st
             data == IF "data" \in DOMAIN st.o THEN {StoredRow(r, table.holds) : r \in st.o.data} ELSE {}
             a == Applied(st, table.rows, data)
  <2>1. \/ stmts' = [stmts EXCEPT ![s].state = "FAILED"]
        \/ \E m : stmts' = [stmts EXCEPT ![s].state = "SUCCEEDED", ![s].before = table.rows,
                                            ![s].after = a, ![s].manifest = m]
    BY <1>6, Zenon DEF RunStatement
  <2> HIDE DEF a
  <2>2. CASE stmts' = [stmts EXCEPT ![s].state = "FAILED"]
    BY <2>2, <1>3, <1>6
  <2>3. CASE \E m : stmts' = [stmts EXCEPT ![s].state = "SUCCEEDED", ![s].before = table.rows,
                                              ![s].after = a, ![s].manifest = m]
    BY <2>3, <1>4, <1>6
  <2> QED BY <2>1, <2>2, <2>3
<1>7. CASE CloseResult(s)
  <2> DEFINE f == [e EXCEPT !.closed = TRUE]
  <2>1. stmts' = [stmts EXCEPT ![s] = f] /\ e.state = "SUCCEEDED"
    BY <1>7 DEF CloseResult
  <2>2. Goes(e, f)
    BY <1>2, <2>1 DEF Goes, Entry
  <2> HIDE DEF f
  <2>3. Grows(stmts, stmts')
    BY <1>1, <2>1, <2>2, ExceptGrows
  <2> QED BY <2>3, <1>2
<1> QED BY <1>5, <1>6, <1>7

\* Every step keeps the invariant: one of a caller settles its own job, and none disturbs another's.
LEMMA InvKept == Inv /\ [Next]_vars => Inv'
<1> SUFFICES ASSUME Inv, [Next]_vars PROVE Inv'
  OBVIOUS
<1>1. ASSUME NEW c \in Callers, Settled(c)
      PROVE  Inv'
  <2>1. PICK j \in JobRec : job' = [job EXCEPT ![c] = j] /\ JobInv(j, c \in volume', stmts')
    BY <1>1 DEF Settled
  <2>2. StmtsOK'
    BY <1>1 DEF Settled, Grows, StmtsOK
  <2>3. JobsOK'
    BY <2>1 DEF Inv, TypeOK, JobsOK
  <2>4. ASSUME NEW d \in Callers
        PROVE  JobInv(job'[d], d \in volume', stmts')
    <3>1. CASE d = c
      BY <2>1, <3>1 DEF Inv, TypeOK, JobsOK
    <3>2. CASE d # c
      <4>1. job'[d] = job[d] /\ job[d] \in JobRec /\ JobInv(job[d], d \in volume, stmts)
        BY <2>1, <3>2 DEF Inv, TypeOK, JobsOK, CallsInv
      <4>2. JobInv(job[d], d \in volume, stmts')
        BY <1>1, <4>1, Kept, StmtsKept DEF Settled
      <4>3. (d \in volume') = (d \in volume)
        BY <1>1, <3>2 DEF Settled
      <4> QED BY <4>1, <4>2, <4>3
    <3> QED BY <3>1, <3>2
  <2>5. CallsInv'
    BY <2>4 DEF CallsInv
  <2> QED BY <2>2, <2>3, <2>5 DEF Inv, TypeOK
<1>2. ASSUME Grows(stmts, stmts'), UNCHANGED <<job, volume>>
      PROVE  Inv'
  <2>1. StmtsOK' /\ JobsOK'
    BY <1>2 DEF Grows, StmtsOK, Inv, TypeOK, JobsOK
  <2>2. ASSUME NEW d \in Callers
        PROVE  JobInv(job'[d], d \in volume', stmts')
    <3>1. job[d] \in JobRec /\ JobInv(job[d], d \in volume, stmts)
      BY DEF Inv, TypeOK, JobsOK, CallsInv
    <3>2. JobInv(job[d], d \in volume, stmts')
      BY <1>2, <3>1, Kept, StmtsKept
    <3> QED BY <1>2, <3>2
  <2>3. CallsInv'
    BY <2>2 DEF CallsInv
  <2> QED BY <2>1, <2>3 DEF Inv, TypeOK
<1>3. CASE \E c \in Callers : CallStep(c)
  <2>1. PICK c \in Callers : CallStep(c)
    BY <1>3
  <2>2. Settled(c) \/ UNCHANGED <<stmts, volume, job>>
    BY <2>1, ResolveSettles, NoWarehouseSettles, SubmitSettles, PollSettles, EndedSettles,
       GiveUpSettles, FetchSettles, DownloadFailsSettles, FetchedSettles, StageSettles,
       PredicateSettles, UnstageSettles DEF CallStep
  <2>3. CASE UNCHANGED <<stmts, volume, job>>
    BY <1>2, <2>3, StmtsKept
  <2> QED BY <1>1, <2>2, <2>3
<1>4. CASE \E c \in Callers, o \in Calls : Begin(c, o)
  BY <1>1, <1>4, BeginSettles
<1>5. CASE \E s \in DOMAIN stmts : RunStatement(s) \/ CancelArrives(s) \/ CloseResult(s)
  BY <1>2, <1>5, WarehouseSettles
<1>6. CASE WorkspaceChanges \/ UNCHANGED vars
  <2>1. UNCHANGED <<stmts, volume, job>>
    BY <1>6 DEF WorkspaceChanges, vars
  <2> QED BY <1>2, <2>1, StmtsKept
<1> QED BY <1>3, <1>4, <1>5, <1>6 DEF Next

\* The invariant holds initially ...
LEMMA InvInit == Init => Inv
<1> SUFFICES ASSUME Init PROVE Inv
  OBVIOUS
<1>1. stmts = <<>> /\ job = [c \in Callers |-> Idle] /\ volume = {}
  BY DEF Init
<1>2. Idle \in JobRec
  <2>1. <<>> \in Plans
    BY DEF Plans
  <2> QED BY <2>1 DEF Idle, JobRec
<1>3. /\ Idle.todo = <<>> /\ Idle.at = "step" /\ Idle.sid = 0 /\ Idle.main = 0
      /\ Idle.err = "none" /\ Idle.out = "none"
  BY DEF Idle
<1>4. StmtsOK /\ Len(stmts) = 0
  <2>1. stmts \in Seq({}) /\ Len(stmts) = 0
    BY <1>1, EmptySeq
  <2> QED BY <2>1 DEF StmtsOK, IsSequence
<1>5. JobInv(Idle, FALSE, stmts)
  BY <1>3, <1>4 DEF JobInv, Watching, Ahead, Behind, Succeeded, Watched, Staged
<1>6. \A c \in Callers : (c \in volume) = FALSE
  BY <1>1
<1> QED BY <1>1, <1>2, <1>4, <1>5, <1>6 DEF Inv, TypeOK, JobsOK, CallsInv

\* ... and always.
LEMMA InvHolds == Spec => []Inv
BY InvInit, InvKept, PTL DEF Spec

\* What a caller of the warehouse is told of its statement is so, and stays so while the warehouse
\* goes on (SqlEngine's calls over SdkStatementBackend).
THEOREM CallersToldTheTruth == Spec => []OutcomeTruthful
<1>1. Inv => OutcomeTruthful
  <2> SUFFICES ASSUME Inv, NEW c \in Callers
               PROVE  LET m == job[c].main IN
                      /\ job[c].out = "ok" => m > 0
                      /\ job[c].out \in {"ok", "unread", "closed"} /\ m > 0 =>
                            stmts[m].state = "SUCCEEDED"
                      /\ job[c].out \in {"refused", "failed"} /\ m > 0 =>
                            stmts[m].state \in {"FAILED", "CANCELED"}
    BY DEF OutcomeTruthful
  <2>1. Behind(job[c], stmts)
    BY DEF Inv, CallsInv, JobInv
  <2> QED BY <2>1 DEF Behind, Succeeded
<1> QED BY <1>1, InvHolds, PTL

\* A result a caller gets has every chunk once, in order, whatever pointers and links did
\* (SdkStatementBackend._arrow).
THEOREM ResultsExact == Spec => []ResultExact
<1>1. Inv => ResultExact
  BY DEF Inv, CallsInv, JobInv, Behind, Succeeded, ResultExact
<1> QED BY <1>1, InvHolds, PTL

\* A call leaves no running statement behind it has not asked to cancel, and no staged file it
\* has not told of (SdkStatementBackend.execute, SqlEngine._staged).
THEOREM CallsLeaveNothing == Spec => []NothingLeftBehind
<1>1. Inv => NothingLeftBehind
  <2> SUFFICES ASSUME Inv PROVE NothingLeftBehind
    OBVIOUS
  <2>1. \A c \in Callers : Over(c) /\ c \in volume => job[c].undeleted
    <3>1. \A c \in Callers : Staged(job[c], c \in volume)
      BY DEF Inv, CallsInv, JobInv
    <3> QED BY <3>1 DEF Staged, Over
  <2>2. ASSUME NEW s \in DOMAIN stmts, stmts[s].state = "RUNNING",
               job[stmts[s].st.by].out # "none", job[stmts[s].st.by].sid = s
        PROVE  stmts[s].cancel
    <3> DEFINE c == stmts[s].st.by
    <3>1. s \in 1..Len(stmts) /\ Entry(stmts[s])
      BY LenProperties DEF Inv, TypeOK, StmtsOK, IsSequence
    <3>2. c \in Callers
      BY <3>1 DEF Entry
    <3>3. JobInv(job[c], c \in volume, stmts)
      BY <3>2 DEF Inv, CallsInv
    <3>4. job[c].at = "step"
      BY <2>2, <3>3 DEF JobInv, Behind, Watching
    <3> QED BY <2>2, <3>1, <3>3, <3>4 DEF JobInv, Watched
  <2> QED BY <2>1, <2>2 DEF NothingLeftBehind
<1> QED BY <1>1, InvHolds, PTL

-----------------------------------------------------------------------------
(* What statements do to the table *)

\* A value that is given of the column's type is stored as it was given, through the staged file
\* and the SELECT list.
LEMMA StoredAsGiven ==
    ASSUME NEW holds, NEW v, v = <<v[1], v[2]>>, v[1] = holds, holds # "micros"
    PROVE  Stored(holds, StagedAs(holds, v), Select(holds, StagedAs(holds, v))) = v
<1> DEFINE n == v[2]
<1>1. CASE holds = "geo"
  <2>1. GeoStaged(v) = <<"ewkt", n>>
    BY <1>1 DEF GeoStaged
  <2>2. StagedAs(holds, v) = <<"ewkt", n>>
    BY <1>1, <2>1 DEF StagedAs, VariantStaged, DurationStaged
  <2>3. Select(holds, <<"ewkt", n>>) = "st_geomfromtext"
    BY <1>1 DEF Select, GeoSelected
  <2>4. Stored(holds, <<"ewkt", n>>, "st_geomfromtext") = <<"geo", n>>
    BY DEF Stored
  <2> QED BY <1>1, <2>2, <2>3, <2>4
<1>2. CASE holds = "variant"
  <2>1. GeoStaged(v) = v /\ VariantStaged(holds, v) = <<"text", n>>
    BY <1>2 DEF GeoStaged, VariantStaged
  <2>2. StagedAs(holds, v) = <<"text", n>>
    BY <2>1 DEF StagedAs, DurationStaged
  <2>3. Select(holds, <<"text", n>>) = "parse_json"
    BY <1>2 DEF Select, VariantSelected
  <2>4. Stored(holds, <<"text", n>>, "parse_json") = <<"variant", n>>
    BY DEF Stored
  <2> QED BY <1>2, <2>2, <2>3, <2>4
<1>3. CASE holds = "duration"
  <2>1. GeoStaged(v) = v /\ VariantStaged(holds, v) = v
    BY <1>3 DEF GeoStaged, VariantStaged
  <2>2. StagedAs(holds, v) = <<"micros", n>>
    BY <1>3, <2>1 DEF StagedAs, DurationStaged
  <2>3. Select(holds, <<"micros", n>>) = "interval"
    BY <1>3 DEF Select
  <2>4. Stored(holds, <<"micros", n>>, "interval") = <<"duration", n>>
    BY DEF Stored
  <2> QED BY <1>3, <2>2, <2>3, <2>4
<1>4. CASE holds \notin {"geo", "variant", "duration"}
  <2>1. StagedAs(holds, v) = v
    BY <1>4 DEF StagedAs, GeoStaged, VariantStaged, DurationStaged
  <2>2. Select(holds, v) = "none"
    BY <1>4 DEF Select, VariantSelected
  <2>3. Stored(holds, v, "none") = v
    BY <1>4 DEF Stored
  <2> QED BY <2>1, <2>2, <2>3
<1> QED BY <1>1, <1>2, <1>3, <1>4

\* What a call may give a table whose values are of type holds.
Gives(o, holds) == "data" \in DOMAIN o => \A r \in o.data : r.v[1] \in {holds, "time"}
Stageable(o) == o.kind \in WritesData => ~Unstageable(o)
AsGiven(r) == [r EXCEPT !.p = IF @ = "empty" THEN "null" ELSE @]
Given(o) == IF "data" \in DOMAIN o THEN {AsGiven(r) : r \in o.data} ELSE {}
Landed(o, holds) == IF "data" \in DOMAIN o THEN {StoredRow(r, holds) : r \in o.data} ELSE {}

\* What a staged write lands is the data it was given.
LEMMA DataStored ==
    ASSUME NEW o \in Calls, NEW holds, holds # "micros", Gives(o, holds),
           o.kind \in WritesData, Stageable(o)
    PROVE  Landed(o, holds) = Given(o)
<1>1. "data" \in DOMAIN o
  BY DataAssumption
<1>2. ASSUME NEW r \in o.data
      PROVE  StoredRow(r, holds) = AsGiven(r)
  <2>1. DOMAIN r = {"k", "p", "v"} /\ r.v = <<r.v[1], r.v[2]>>
    <3>1. \A q \in o.data : DOMAIN q = {"k", "p", "v"} /\ q.v = <<q.v[1], q.v[2]>>
      BY <1>1, DataAssumption, Zenon
    <3> QED BY <3>1, Zenon
  <2>2. r.v[1] = holds
    BY <1>1 DEF Gives, Stageable, Unstageable
  <2> DEFINE v == StagedAs(holds, r.v)
             w == Stored(holds, v, Select(holds, v))
             p == IF r.p = "empty" THEN "null" ELSE r.p
  <2>3. w = r.v
    BY <2>1, <2>2, StoredAsGiven
  <2>4. StoredRow(r, holds) = [r EXCEPT !.p = p, !.v = w]
    BY Zenon DEF StoredRow
  <2> HIDE DEF w, p
  <2>5. [r EXCEPT !.p = p, !.v = w] = [r EXCEPT !.p = p]
    BY <2>1, <2>3
  <2> QED BY <2>4, <2>5 DEF AsGiven, p
<1> QED BY <1>1, <1>2 DEF Landed, Given

\* A merge's clauses decide alike in the order SqlMerger.statement gives them: the clauses of each
\* kind stay in the order they were added.
ClausesDecideAlike ==
    \A o \in Calls : o.kind = "merge" =>
        \A kind, r : Decides(Ordered(o.clauses), kind, r) = Decides(o.clauses, kind, r)

\* The statement that does what a call asks.
Means(st, holds) ==
    LET o == st.o IN
    /\ o \in Calls /\ Gives(o, holds) /\ ~Refused(o) /\ Stageable(o)
    /\ \/ /\ o.kind = "overwrite" /\ (o.mode = "dynamic" \/ o.where # {})
          /\ st.kind = "replace_where"
          /\ st.where = IF o.where = {} THEN DynamicPredicate(o) ELSE o.where
       \/ /\ o.kind = "merge" /\ st.kind = "merge" /\ st.clauses = Ordered(o.clauses)
       \/ /\ ~(o.kind = "overwrite" /\ (o.mode = "dynamic" \/ o.where # {}))
          /\ o.kind # "merge" /\ st.kind = o.kind

\* No call is of a kind that only a step of one has.
LEMMA KindFacts ==
    \A o \in Calls : o.kind \notin {"lookup", "replace_where", "none"}
BY CallsAssumption DEF WritesData, Reads, Changes, Maintains, Commands, Alters, Governs

\* The predicate of a dynamic overwrite names the partitions of the data.
LEMMA PredicateFacts ==
    ASSUME NEW o \in Calls, o.kind = "overwrite"
    PROVE  DynamicPredicate(o) = {d.p : d \in Given(o)}
<1>1. "data" \in DOMAIN o
  BY DataAssumption DEF WritesData
<1>2. \A r \in o.data : AsGiven(r).p = IF r.p = "empty" THEN "null" ELSE r.p
  <2> SUFFICES ASSUME NEW r \in o.data PROVE AsGiven(r).p = IF r.p = "empty" THEN "null" ELSE r.p
    OBVIOUS
  <2>1. \A q \in o.data : DOMAIN q = {"k", "p", "v"} /\ q.v = <<q.v[1], q.v[2]>>
    BY <1>1, DataAssumption, Zenon
  <2> QED BY <2>1 DEF AsGiven
<1>3. Given(o) = {AsGiven(r) : r \in o.data}
  BY <1>1 DEF Given
<1> QED BY <1>2, <1>3 DEF DynamicPredicate

\* Two clause lists that decide alike merge alike.
LEMMA MergedAlike ==
    ASSUME NEW q, NEW u, \A kind, r : Decides(q, kind, r) = Decides(u, kind, r),
           NEW rows, NEW data
    PROVE  Merged(rows, data, q) = Merged(rows, data, u)
<1>1. \A kind, r : Verb(q, kind, r) = Verb(u, kind, r)
  BY DEF Verb
<1> QED BY <1>1 DEF Merged

\* What the rows are after a statement is what its call asked for.
LEMMA AppliedIsIntended ==
    ASSUME ClausesDecideAlike, NEW st, NEW holds, NEW rows, holds # "micros", Means(st, holds)
    PROVE  Applied(st, rows, Landed(st.o, holds)) = Intended(st.o, rows)
<1> DEFINE o == st.o
           data == Landed(o, holds)
           given == Given(o)
<1>1. /\ o \in Calls /\ Gives(o, holds) /\ ~Refused(o) /\ Stageable(o)
      /\ o.kind \notin {"lookup", "replace_where", "none"}
  BY KindFacts DEF Means
<1>2. o.kind \in WritesData => data = given
  BY <1>1, DataStored
<1>3. Given(o) = IF "data" \in DOMAIN o
                 THEN {[r EXCEPT !.p = IF @ = "empty" THEN "null" ELSE @] : r \in o.data} ELSE {}
  BY Zenon DEF Given, AsGiven
<1> HIDE DEF data, given
<1>4. CASE o.kind = "overwrite" /\ o.mode = "dynamic"
  <2>1. st.kind = "replace_where" /\ o.where = {} /\ st.where = DynamicPredicate(o)
    BY <1>1, <1>4 DEF Means, Refused
  <2>2. data = given /\ st.where = {d.p : d \in given}
    BY <1>1, <1>2, <1>4, <2>1, PredicateFacts DEF WritesData, given
  <2>3. Applied(st, rows, data) = {r \in rows : r.p \notin st.where} \cup data
    BY <2>1 DEF Applied
  <2>4. Intended(o, rows) = {r \in rows : \A d \in given : d.p # r.p} \cup given
    BY <1>3, <1>4 DEF Intended, given
  <2> QED BY <2>2, <2>3, <2>4 DEF data
<1>5. CASE o.kind = "overwrite" /\ o.mode # "dynamic" /\ o.where # {}
  <2>1. st.kind = "replace_where" /\ st.where = o.where /\ data = given
    BY <1>2, <1>5 DEF Means, WritesData
  <2>2. Applied(st, rows, data) = {r \in rows : r.p \notin st.where} \cup data
    BY <2>1 DEF Applied
  <2>3. Intended(o, rows) = {r \in rows : r.p \notin o.where} \cup given
    BY <1>3, <1>5 DEF Intended, given
  <2> QED BY <2>1, <2>2, <2>3 DEF data
<1>6. CASE o.kind = "overwrite" /\ o.mode # "dynamic" /\ o.where = {}
  <2>1. st.kind = "overwrite" /\ data = given
    BY <1>2, <1>6 DEF Means, WritesData
  <2>2. Applied(st, rows, data) = data
    BY <2>1 DEF Applied
  <2>3. Intended(o, rows) = given
    BY <1>3, <1>6 DEF Intended, given
  <2> QED BY <2>1, <2>2, <2>3 DEF data
<1>7. CASE o.kind = "append"
  <2>1. st.kind = "append" /\ data = given
    BY <1>2, <1>7 DEF Means, WritesData
  <2>2. Applied(st, rows, data) = rows \cup data
    BY <2>1 DEF Applied
  <2>3. Intended(o, rows) = rows \cup given
    BY <1>3, <1>7 DEF Intended, given
  <2> QED BY <2>1, <2>2, <2>3 DEF data
<1>8. CASE o.kind = "merge"
  <2>1. st.kind = "merge" /\ st.clauses = Ordered(o.clauses) /\ data = given
    BY <1>2, <1>8 DEF Means, WritesData
  <2>2. Applied(st, rows, data) = Merged(rows, data, st.clauses)
    BY <2>1 DEF Applied
  <2>3. Intended(o, rows) = Merged(rows, given, o.clauses)
    BY <1>3, <1>8 DEF Intended, given
  <2>4. Merged(rows, given, Ordered(o.clauses)) = Merged(rows, given, o.clauses)
    <3>1. \A kind, r : Decides(Ordered(o.clauses), kind, r) = Decides(o.clauses, kind, r)
      BY <1>1, <1>8 DEF ClausesDecideAlike
    <3> QED BY <3>1, MergedAlike
  <2> QED BY <2>1, <2>2, <2>3, <2>4 DEF data
<1>9. CASE o.kind = "delete"
  <2>1. st.kind = "delete"
    BY <1>9 DEF Means
  <2>2. Applied(st, rows, data) = {r \in rows : r.k \notin o.keys}
    BY <2>1 DEF Applied
  <2>3. Intended(o, rows) = {r \in rows : r.k \notin o.keys}
    BY <1>9 DEF Intended
  <2> QED BY <2>2, <2>3 DEF data
<1>10. CASE o.kind \notin {"append", "overwrite", "merge", "delete"}
  <2>1. st.kind = o.kind
    BY <1>10 DEF Means
  <2>2. Applied(st, rows, data) = rows
    BY <1>1, <1>10, <2>1 DEF Applied
  <2>3. Intended(o, rows) = rows
    BY <1>10 DEF Intended
  <2> QED BY <2>2, <2>3 DEF data
<1> QED BY <1>4, <1>5, <1>6, <1>7, <1>8, <1>9, <1>10

\* Where the plans stage: a plan that ends in its own statement, and does not stage, has no data;
\* one that has staged got there through the step that stages.
StagesFirst(t, u) ==
    /\ Head(t) = "main" => t = <<"main">> \/ t \in StagedPlans \ {<<"unstage">>}
    /\ u # <<"main">>
    /\ u \in StagedPlans => t \in StagedPlans \ {<<"unstage">>} \/ Head(t) = "stage"

\* Of a plan, the data is staged before the main statement.
LEMMA StagingFacts ==
    ASSUME NEW t \in Plans, t # <<>>
    PROVE  StagesFirst(t, Tail(t))
<1> DEFINE z == <<>>
           a == <<"unstage">>
           b == <<"main">>
           c == <<"main", "unstage">>
           d == <<"stage", "main", "unstage">>
           e == <<"lookup", "stage", "main", "unstage">>
           f == <<"lookup", "lookup", "stage", "main", "unstage">>
           g == <<"lookup", "main", "unstage">>
           h == <<"predicate", "lookup", "main", "unstage">>
           i == <<"stage", "predicate", "lookup", "main", "unstage">>
           k == <<"lookup", "stage", "predicate", "lookup", "main", "unstage">>
<1>1. /\ Head(a) = "unstage" /\ Tail(a) = z /\ Head(b) = "main" /\ Tail(b) = z
      /\ Head(c) = "main" /\ Tail(c) = a /\ Head(d) = "stage" /\ Tail(d) = c
  OBVIOUS
<1>2. /\ Head(e) = "lookup" /\ Tail(e) = d /\ Head(f) = "lookup" /\ Tail(f) = e
      /\ Head(g) = "lookup" /\ Tail(g) = c
  OBVIOUS
<1>3. /\ Head(h) = "predicate" /\ Tail(h) = g /\ Head(i) = "stage" /\ Tail(i) = h
  OBVIOUS
<1>4. Head(k) = "lookup" /\ Tail(k) = i
  OBVIOUS
<1>5. /\ t \in {a, b, c, d, e, f, g, h, i, k}
      /\ StagedPlans = {a, c, g, h}
  BY DEF Plans, StagedPlans
<1>6. /\ a # b /\ c # b /\ d # b /\ e # b /\ g # b /\ h # b /\ i # b /\ z # b
      /\ c # a /\ g # a /\ h # a
  OBVIOUS
<1>7. z \notin {a, c, g, h} /\ d \notin {a, c, g, h} /\ e \notin {a, c, g, h}
  OBVIOUS
<1>8. i \notin {a, c, g, h}
  OBVIOUS
<1>9. StagesFirst(t, Tail(t)) <=>
        /\ Head(t) = "main" => t = b \/ t \in {a, c, g, h} \ {a}
        /\ Tail(t) # b
        /\ Tail(t) \in {a, c, g, h} => t \in {a, c, g, h} \ {a} \/ Head(t) = "stage"
  BY <1>5 DEF StagesFirst
<1> HIDE DEF a, b, c, d, e, f, g, h, i, k, z
<1>10. CASE t \in {a, b, c, d}
  BY <1>1, <1>6, <1>7, <1>9, <1>10
<1>11. CASE t \in {e, f, g}
  BY <1>2, <1>6, <1>7, <1>9, <1>11
<1>12. CASE t \in {h, i}
  BY <1>3, <1>6, <1>7, <1>8, <1>9, <1>12
<1>13. CASE t = k
  BY <1>4, <1>6, <1>8, <1>9, <1>13
<1> QED BY <1>5, <1>10, <1>11, <1>12, <1>13

\* The steps of a call that writes data stage it.
LEMMA StepsStage ==
    ASSUME NEW o, NEW holds
    PROVE  /\ Steps(o, holds) \notin StagedPlans
           /\ Steps(o, holds) = <<"main">> => o.kind \notin WritesData
<1> DEFINE d == <<"stage", "main", "unstage">>
           e == <<"lookup", "stage", "main", "unstage">>
           f == <<"lookup", "lookup", "stage", "main", "unstage">>
           i == <<"stage", "predicate", "lookup", "main", "unstage">>
           k == <<"lookup", "stage", "predicate", "lookup", "main", "unstage">>
           b == <<"main">>
           p == Describe(holds)
           s == Steps(o, holds)
<1>1. s \in {p \o d, p \o e, p \o i} \/ (s = b /\ o.kind \notin WritesData)
  <2>1. CASE o.kind = "append"
    BY <2>1 DEF Steps
  <2>2. CASE o.kind = "overwrite"
    BY <2>2 DEF Steps
  <2>3. CASE o.kind = "merge"
    BY <2>3 DEF Steps
  <2>4. CASE o.kind \notin WritesData
    BY <2>4 DEF Steps, WritesData
  <2> QED BY <2>1, <2>2, <2>3, <2>4 DEF WritesData
<1>2. p \o d \in {d, e} /\ p \o e \in {e, f} /\ p \o i \in {i, k}
  <2>1. p = <<"lookup">> \/ p = <<>>
    BY DEF Describe
  <2> DEFINE S == {"lookup", "stage", "predicate", "main", "unstage"}
  <2>2. d \in Seq(S) /\ e \in Seq(S) /\ i \in Seq(S)
    OBVIOUS
  <2>3. <<"lookup">> \o d = e /\ <<"lookup">> \o e = f /\ <<"lookup">> \o i = k
    BY LookupFirst
  <2> HIDE DEF d, e, i, p, S
  <2>4. <<>> \o d = d /\ <<>> \o e = e /\ <<>> \o i = i
    BY <2>2, ConcatEmptySeq
  <2> QED BY <2>1, <2>3, <2>4
<1>3. d # b /\ e # b /\ f # b /\ i # b /\ k # b
  OBVIOUS
<1>4. d \notin StagedPlans /\ e \notin StagedPlans /\ f \notin StagedPlans
  BY DEF StagedPlans
<1>5. i \notin StagedPlans /\ k \notin StagedPlans /\ b \notin StagedPlans
  BY DEF StagedPlans
<1> HIDE DEF d, e, f, i, k, b, p, s
<1>6. s \in {d, e, f, i, k} \/ (s = b /\ o.kind \notin WritesData)
  BY <1>1, <1>2
<1>7. s \notin StagedPlans /\ (s = b => o.kind \notin WritesData)
  BY <1>3, <1>4, <1>5, <1>6
<1> QED BY <1>7 DEF s, b

\* The invariant: a call that is under way gives the table what its column takes, and it was
\* staged if it had to be; a statement says what its call asked, and did so when it took effect.
Programmed(j, holds) ==
    j.todo # <<>> =>
        /\ j.call \in Calls /\ Gives(j.call, holds) /\ ~Refused(j.call)
        /\ j.todo \in StagedPlans \ {<<"unstage">>} => ~Unstageable(j.call)
        /\ j.todo = <<"main">> => j.call.kind \notin WritesData
Sound(e, holds) ==
    e.st.kind # "lookup" =>
        /\ Means(e.st, holds)
        /\ e.state = "SUCCEEDED" => e.after = Intended(e.st.o, e.before)

TableInv == DOMAIN table = {"rows", "holds"} /\ table.holds # "micros"
ProgramsInv == \A c \in Callers : Programmed(job[c], table.holds)
SoundInv == \A s \in 1..Len(stmts) : Sound(stmts[s], table.holds)
EffectInv == Inv /\ TableInv /\ ProgramsInv /\ SoundInv

\* How a step moves a job on.
Moves(j, f) ==
    /\ f.call = j.call
    /\ \/ f.todo = j.todo
       \/ f.todo = <<>>
       \/ j.todo # <<>> /\ f.todo = <<"unstage">>
       \/ /\ j.todo # <<>> /\ f.todo = Tail(j.todo)
          /\ Head(j.todo) = "stage" => ~Unstageable(j.call)

\* A job that moves on along its plan stays on it.
LEMMA MovesKeep ==
    ASSUME NEW j \in JobRec, NEW f, NEW holds, Moves(j, f), Programmed(j, holds)
    PROVE  Programmed(f, holds)
<1>1. CASE f.todo = j.todo \/ f.todo = <<>>
  BY <1>1 DEF Moves, Programmed
<1>2. CASE j.todo # <<>> /\ f.todo = <<"unstage">>
  <2>1. <<"unstage">> # <<"main">>
    OBVIOUS
  <2> QED BY <1>2, <2>1 DEF Moves, Programmed
<1>3. CASE /\ j.todo # <<>> /\ f.todo = Tail(j.todo)
           /\ Head(j.todo) = "stage" => ~Unstageable(j.call)
  <2>1. StagesFirst(j.todo, f.todo)
    BY <1>3, StagingFacts DEF JobRec
  <2> QED BY <1>3, <2>1 DEF Moves, Programmed, StagesFirst
<1> QED BY <1>1, <1>2, <1>3 DEF Moves

\* Failing moves a job along its plan, ...
LEMMA FailedMoves ==
    ASSUME NEW j \in JobRec, NEW c, NEW err, j.todo # <<>>
    PROVE  Moves(j, Failed(j, c, err))
BY DEF Moves, Failed, JobRec

\* ... and so does a step that is done, ...
LEMMA AdvancedMoves ==
    ASSUME NEW j \in JobRec, j.todo # <<>>, Head(j.todo) = "stage" => ~Unstageable(j.call)
    PROVE  Moves(j, Advanced(j))
BY DEF Moves, Advanced, JobRec

\* ... so that every step of a call does.
LEMMA CallMoves ==
    ASSUME Inv, NEW c \in Callers, CallStep(c), NEW d \in Callers
    PROVE  Moves(job[d], job'[d])
<1> DEFINE j == job[c]
<1>1. j \in JobRec /\ JobInv(j, c \in volume, stmts) /\ job \in [Callers -> JobRec]
  BY DEF Inv, TypeOK, JobsOK, CallsInv
<1>2. Moves(job[d], job[d])
  BY DEF Moves
<1>3. ASSUME NEW f, job' = [job EXCEPT ![c] = f], Moves(j, f)
      PROVE  Moves(job[d], job'[d])
  BY <1>1, <1>2, <1>3
<1>4. ASSUME NEW err, job' = [job EXCEPT ![c] = Failed(j, c, err)], j.todo # <<>>
      PROVE  Moves(job[d], job'[d])
  BY <1>1, <1>3, <1>4, FailedMoves
<1>5. j.at # "step" => j.todo # <<>> /\ Head(j.todo) # "stage"
  BY <1>1 DEF JobInv, Watching
<1>6. CASE Resolve(c)
  <2>1. job' = job \/ (job' = [job EXCEPT ![c] = Failed(j, c, "refused")] /\ j.todo # <<>>)
    BY <1>6 DEF Resolve, AtStep
  <2> QED BY <1>2, <1>4, <2>1
<1>7. CASE NoWarehouse(c)
  BY <1>4, <1>7 DEF NoWarehouse, AtStep
<1>8. CASE Submit(c)
  <2> DEFINE id == Len(stmts) + 1
             main == IF Head(job[c].todo) = "main" THEN id ELSE 0
             waiting == [j EXCEPT !.at = "waiting", !.sid = id, !.main = main, !.seen = "PENDING"]
             lost == [j EXCEPT !.main = main]
  <2>1. /\ j.todo # <<>>
        /\ \/ job' = [job EXCEPT ![c] = waiting]
           \/ job' = [job EXCEPT ![c] = Failed(lost, c, "unknown")]
           \/ job' = [job EXCEPT ![c] = Failed(j, c, "refused")]
    BY <1>8 DEF Submit, AtStep
  <2> HIDE DEF main, id
  <2>2. Moves(j, waiting)
    BY <1>1 DEF Moves, JobRec
  <2>3. Moves(j, Failed(lost, c, "unknown"))
    BY <1>1, <2>1 DEF Moves, JobRec, Failed
  <2> HIDE DEF waiting, lost
  <2> QED BY <1>3, <1>4, <2>1, <2>2, <2>3
<1>9. CASE Poll(c)
  <2>1. PICK f : f = [j EXCEPT !.seen = Reported(stmts[j.sid])]
    OBVIOUS
  <2>2. job' = [job EXCEPT ![c] = f] /\ Moves(j, f)
    BY <1>1, <1>9, <2>1 DEF Poll, Moves, JobRec
  <2> QED BY <1>3, <2>2
<1>10. CASE Ended(c)
  <2> DEFINE f == [j EXCEPT !.at = "fetching", !.next = 0, !.got = <<>>]
  <2>1. /\ j.at # "step"
        /\ \/ \E err : job' = [job EXCEPT ![c] = Failed(j, c, err)]
           \/ job' = [job EXCEPT ![c] = Advanced(j)]
           \/ job' = [job EXCEPT ![c] = f]
    BY <1>10 DEF Ended
  <2>2. Moves(j, f) /\ Moves(j, Advanced(j))
    BY <1>1, <1>5, <2>1, AdvancedMoves DEF Moves, JobRec
  <2> HIDE DEF f
  <2> QED BY <1>3, <1>4, <1>5, <2>1, <2>2
<1>11. CASE GiveUp(c)
  BY <1>4, <1>5, <1>11 DEF GiveUp
<1>12. CASE Fetch(c)
  <2> DEFINE F(n) == [j EXCEPT !.got = Append(j.got, j.next), !.next = n]
  <2>1. /\ j.at # "step"
        /\ \/ job' = [job EXCEPT ![c] = Failed(j, c, "unread")]
           \/ \E n : job' = [job EXCEPT ![c] = F(n)]
    BY <1>12 DEF Fetch
  <2>2. \A n : Moves(j, F(n))
    BY <1>1 DEF Moves, JobRec
  <2> HIDE DEF F
  <2> QED BY <1>3, <1>4, <1>5, <2>1, <2>2
<1>13. CASE DownloadFails(c)
  BY <1>4, <1>5, <1>13 DEF DownloadFails
<1>14. CASE Fetched(c)
  <2>1. /\ j.at # "step"
        /\ \/ job' = [job EXCEPT ![c] = Failed(j, c, "unread")]
           \/ job' = [job EXCEPT ![c] = Advanced(j)]
    BY <1>14 DEF Fetched
  <2> QED BY <1>1, <1>3, <1>4, <1>5, <2>1, AdvancedMoves
<1>15. CASE Stage(c)
  <2> DEFINE G(x) == [Failed(j, c, "refused") EXCEPT !.undeleted = x]
  <2>1. /\ j.todo # <<>>
        /\ \/ ~Unstageable(j.call) /\ job' = [job EXCEPT ![c] = Advanced(j)]
           \/ job' = [job EXCEPT ![c] = Failed(j, c, "refused")]
           \/ \E left \in SUBSET {c} : job' = [job EXCEPT ![c] = G(left # {})]
    BY <1>15 DEF Stage, AtStep
  <2>2. ~Unstageable(j.call) => Moves(j, Advanced(j))
    BY <1>1, <2>1, AdvancedMoves
  <2>3. \A x : Moves(j, G(x))
    BY <1>1, <2>1 DEF Moves, JobRec, Failed
  <2> HIDE DEF G
  <2> QED BY <1>3, <1>4, <2>1, <2>2, <2>3
<1>16. CASE Predicate(c)
  <2>1. /\ j.todo # <<>> /\ Head(j.todo) = "predicate"
        /\ \/ job' = [job EXCEPT ![c] = Failed(j, c, "refused")]
           \/ job' = [job EXCEPT ![c] = Advanced(j)]
    BY <1>16 DEF Predicate, AtStep
  <2> QED BY <1>1, <1>3, <1>4, <2>1, AdvancedMoves
<1>17. CASE Unstage(c)
  <2> DEFINE f == [j EXCEPT !.todo = <<>>, !.undeleted = (volume' = volume),
                            !.out = IF j.err = "none" THEN "ok" ELSE j.err]
  <2>1. job' = [job EXCEPT ![c] = f]
    BY <1>17 DEF Unstage
  <2>2. Moves(j, f)
    BY <1>1 DEF Moves, JobRec
  <2> HIDE DEF f
  <2> QED BY <1>3, <2>1, <2>2
<1> QED BY <1>6, <1>7, <1>8, <1>9, <1>10, <1>11, <1>12, <1>13, <1>14, <1>15, <1>16, <1>17 DEF CallStep

\* A statement that is submitted asks nothing of the table, or what its call asks.
LEMMA SubmittedMeans ==
    ASSUME EffectInv, NEW c \in Callers, AtStep(c, {"lookup", "main"})
    PROVE  Statement(c).kind = "lookup" \/ Means(Statement(c), table.holds)
<1> DEFINE j == job[c]
           o == job[c].call
           h == table.holds
<1>1. j \in JobRec /\ j.todo # <<>> /\ j.todo \in Plans /\ Programmed(j, h)
  BY DEF EffectInv, Inv, TypeOK, JobsOK, ProgramsInv, AtStep, JobRec
<1>2. CASE Head(j.todo) = "lookup"
  BY <1>2 DEF Statement
<1>3. CASE Head(j.todo) # "lookup"
  <2>1. Head(j.todo) = "main"
    BY <1>3 DEF AtStep
  <2>2. j.todo = <<"main">> \/ j.todo \in StagedPlans \ {<<"unstage">>}
    BY <1>1, <2>1, StagingFacts DEF StagesFirst
  <2>3. o \in Calls /\ Gives(o, h) /\ ~Refused(o) /\ Stageable(o)
    BY <1>1, <2>2 DEF Programmed, Stageable
  <2> DEFINE st == Statement(c)
  <2>4. CASE o.kind = "overwrite" /\ (o.mode = "dynamic" \/ o.where # {})
    <3>1. /\ st.o = o /\ st.kind = "replace_where"
          /\ st.where = IF o.where = {} THEN DynamicPredicate(o) ELSE o.where
      BY <1>3, <2>4 DEF Statement
    <3> HIDE DEF st
    <3> QED BY <2>3, <2>4, <3>1 DEF Means, st
  <2>5. CASE o.kind = "merge"
    <3>1. st.o = o /\ st.kind = "merge" /\ st.clauses = Ordered(o.clauses)
      BY <1>3, <2>5 DEF Statement
    <3> HIDE DEF st
    <3> QED BY <2>3, <2>5, <3>1 DEF Means, st
  <2>6. CASE ~(o.kind = "overwrite" /\ (o.mode = "dynamic" \/ o.where # {})) /\ o.kind # "merge"
    <3>1. st.o = o /\ st.kind = o.kind
      BY <1>3, <2>6 DEF Statement
    <3> HIDE DEF st
    <3> QED BY <2>3, <2>6, <3>1 DEF Means, st
  <2> QED BY <2>4, <2>5, <2>6
<1> QED BY <1>2, <1>3

\* What a call did to the table is what it was asked to, step by step.
LEMMA EffectKept ==
    ASSUME ClausesDecideAlike, EffectInv, [Next]_vars
    PROVE  EffectInv'
<1> DEFINE h == table.holds
<1>1. Inv' /\ Inv
  BY InvKept DEF EffectInv
<1>2. IsSequence(stmts) /\ DOMAIN stmts = 1..Len(stmts) /\ Len(stmts) \in Nat
  BY <1>1, LenProperties DEF Inv, TypeOK, StmtsOK, IsSequence
<1>3. ASSUME UNCHANGED table, \A d \in Callers : Moves(job[d], job'[d])
      PROVE  TableInv' /\ ProgramsInv'
  <2>1. \A d \in Callers : job[d] \in JobRec /\ Programmed(job[d], h)
    BY <1>1 DEF EffectInv, ProgramsInv, Inv, TypeOK, JobsOK
  <2>2. \A d \in Callers : Programmed(job'[d], h)
    BY <1>3, <2>1, MovesKeep
  <2> QED BY <1>3, <2>2 DEF EffectInv, TableInv, ProgramsInv
<1>4. ASSUME UNCHANGED <<table, stmts>>
      PROVE  SoundInv'
  BY <1>4 DEF EffectInv, SoundInv
<1>5. ASSUME NEW c \in Callers, CallStep(c)
      PROVE  EffectInv'
  <2>1. UNCHANGED table
    BY <1>5 DEF CallStep, Resolve, NoWarehouse, Submit, Poll, Ended, GiveUp, Fetch, DownloadFails,
                Fetched, Stage, Predicate, Unstage
  <2>2. TableInv' /\ ProgramsInv'
    BY <1>1, <1>3, <1>5, <2>1, CallMoves
  <2>3. CASE UNCHANGED stmts
    BY <1>1, <1>4, <2>1, <2>2, <2>3 DEF EffectInv
  <2>4. CASE Submit(c) /\ stmts' # stmts
    <3> DEFINE new == [st |-> Statement(c), state |-> "RUNNING", cancel |-> FALSE,
                       closed |-> FALSE, manifest |-> Whole, before |-> {}, after |-> {}]
    <3>1. stmts' = Append(stmts, new) /\ AtStep(c, {"lookup", "main"})
      BY <2>4 DEF Submit
    <3>2. Sound(new, h)
      BY <3>1, SubmittedMeans DEF Sound
    <3> HIDE DEF new
    <3>3. PICK S : stmts \in Seq(S)
      BY <1>2 DEF IsSequence
    <3>4. stmts \in Seq(S \cup {new}) /\ new \in S \cup {new}
      BY <3>3, SeqMonotonic
    <3>5. /\ Len(stmts') = Len(stmts) + 1 /\ stmts'[Len(stmts) + 1] = new
          /\ \A i \in 1..Len(stmts) : stmts'[i] = stmts[i]
      BY <3>1, <3>4, AppendProperties
    <3>6. \A i \in 1..Len(stmts') : i \in 1..Len(stmts) \/ i = Len(stmts) + 1
      BY <1>2, <3>5
    <3>7. \A i \in 1..Len(stmts) : Sound(stmts[i], h)
      BY DEF EffectInv, SoundInv
    <3>8. \A i \in 1..Len(stmts') : Sound(stmts'[i], h)
      BY <3>2, <3>5, <3>6, <3>7
    <3> QED BY <1>1, <2>1, <2>2, <3>8 DEF EffectInv, SoundInv
  <2>5. CASE GiveUp(c)
    <3> DEFINE sid == job[c].sid
               e == [stmts[sid] EXCEPT !.cancel = TRUE]
    <3>1. stmts' = [stmts EXCEPT ![sid] = e]
      BY <2>5 DEF GiveUp
    <3>2. sid \in 1..Len(stmts)
      BY <1>1, <2>5, WatchingUnderway DEF GiveUp
    <3>3. e.st = stmts[sid].st /\ e.state = stmts[sid].state
          /\ e.before = stmts[sid].before /\ e.after = stmts[sid].after
      BY <1>1, <3>2 DEF Inv, TypeOK, StmtsOK, Entry
    <3>4. \A i \in 1..Len(stmts) : Sound(stmts[i], h)
      BY DEF EffectInv, SoundInv
    <3> HIDE DEF e
    <3>5. Sound(e, h)
      BY <3>2, <3>3, <3>4 DEF Sound
    <3>6. PICK S : stmts \in Seq(S)
      BY <1>2 DEF IsSequence
    <3>7. stmts \in Seq(S \cup {e}) /\ e \in S \cup {e}
      BY <3>6, SeqMonotonic
    <3>8. Len(stmts') = Len(stmts) /\ \A i \in 1..Len(stmts) : stmts'[i] = IF i = sid THEN e ELSE stmts[i]
      BY <3>1, <3>2, <3>7, ExceptSeq
    <3>9. \A i \in 1..Len(stmts') : Sound(stmts'[i], h)
      BY <3>4, <3>5, <3>8
    <3> QED BY <1>1, <2>1, <2>2, <3>9 DEF EffectInv, SoundInv
  <2>6. UNCHANGED stmts \/ Submit(c) \/ GiveUp(c)
    BY <1>5 DEF CallStep, Resolve, NoWarehouse, Poll, Ended, Fetch, DownloadFails,
                Fetched, Stage, Predicate, Unstage
  <2> QED BY <2>3, <2>4, <2>5, <2>6
<1>6. ASSUME NEW c \in Callers, NEW o \in Calls, Begin(c, o)
      PROVE  EffectInv'
  <2> DEFINE refused == [Idle EXCEPT !.call = o, !.out = "refused"]
             begun == [Idle EXCEPT !.call = o, !.todo = Steps(o, h)]
  <2>1. /\ UNCHANGED <<table, stmts>> /\ GivesType(o)
        /\ \/ Refused(o) /\ job' = [job EXCEPT ![c] = refused]
           \/ ~Refused(o) /\ job' = [job EXCEPT ![c] = begun]
    BY <1>6 DEF Begin
  <2>2. Programmed(refused, h)
    BY DEF Programmed, Idle
  <2>3. ~Refused(o) => Programmed(begun, h)
    <3> DEFINE t == Steps(o, h)
    <3>1. begun.call = o /\ begun.todo = t
      BY DEF Idle
    <3>2. t \notin StagedPlans /\ (t = <<"main">> => o.kind \notin WritesData)
      BY StepsStage
    <3>3. Gives(o, h)
      BY <2>1 DEF Gives, GivesType
    <3> HIDE DEF t, begun
    <3> QED BY <3>1, <3>2, <3>3 DEF Programmed
  <2> HIDE DEF refused, begun
  <2>4. \A d \in Callers : Programmed(job'[d], h)
    BY <1>1, <2>1, <2>2, <2>3 DEF EffectInv, ProgramsInv, Inv, TypeOK, JobsOK
  <2>5. TableInv' /\ ProgramsInv' /\ SoundInv'
    BY <1>4, <2>1, <2>4 DEF EffectInv, TableInv, ProgramsInv
  <2> QED BY <1>1, <2>5 DEF EffectInv
<1>7. ASSUME NEW s \in DOMAIN stmts, RunStatement(s) \/ CancelArrives(s)
      PROVE  EffectInv'
  <2> DEFINE e == stmts[s]
             a == Applied(e.st, table.rows, Landed(e.st.o, h))
  <2>1. /\ Entry(e) /\ Sound(e, h) /\ s \in 1..Len(stmts) /\ e.state = "RUNNING"
        /\ UNCHANGED job
    BY <1>1, <1>2, <1>7 DEF Inv, TypeOK, StmtsOK, EffectInv, SoundInv, RunStatement, CancelArrives
  <2>2. \/ UNCHANGED table /\ \E x \in {"FAILED", "CANCELED"} :
                                  stmts' = [stmts EXCEPT ![s] = [e EXCEPT !.state = x]]
        \/ /\ table' = [table EXCEPT !.rows = a]
           /\ \E m : stmts' = [stmts EXCEPT ![s].state = "SUCCEEDED", ![s].before = table.rows,
                                              ![s].after = a, ![s].manifest = m]
    <3>1. CASE CancelArrives(s)
      BY <3>1 DEF CancelArrives
    <3>2. CASE RunStatement(s)
      <4>1. \/ UNCHANGED table /\ stmts' = [stmts EXCEPT ![s].state = "FAILED"]
            \/ /\ table' = [table EXCEPT !.rows = a]
               /\ \E m : stmts' = [stmts EXCEPT ![s].state = "SUCCEEDED", ![s].before = table.rows,
                                                  ![s].after = a, ![s].manifest = m]
        BY <3>2, Zenon DEF RunStatement, Landed
      <4> HIDE DEF a
      <4> QED BY <4>1
    <3> QED BY <1>7, <3>1, <3>2
  <2> HIDE DEF a
  <2>3. table'.holds = h /\ TableInv'
    BY <2>2 DEF EffectInv, TableInv
  <2>4. ProgramsInv'
    BY <2>1, <2>3 DEF EffectInv, ProgramsInv
  <2>5. \E f : stmts' = [stmts EXCEPT ![s] = f] /\ Sound(f, h)
    <3>1. ASSUME NEW x \in {"FAILED", "CANCELED"}
          PROVE  Sound([e EXCEPT !.state = x], h)
      BY <2>1 DEF Sound, Entry
    <3>2. ASSUME NEW m
          PROVE  Sound([e EXCEPT !.state = "SUCCEEDED", !.before = table.rows, !.after = a,
                                 !.manifest = m], h)
      <4> DEFINE f == [e EXCEPT !.state = "SUCCEEDED", !.before = table.rows, !.after = a,
                                !.manifest = m]
      <4>1. f.st = e.st /\ f.before = table.rows /\ f.after = a
        BY <2>1 DEF Entry
      <4>2. Means(e.st, h) => a = Intended(e.st.o, table.rows)
        BY AppliedIsIntended DEF a, EffectInv, TableInv
      <4> HIDE DEF f
      <4> QED BY <2>1, <4>1, <4>2 DEF Sound, f
    <3>3. ASSUME NEW m
          PROVE  [stmts EXCEPT ![s].state = "SUCCEEDED", ![s].before = table.rows,
                               ![s].after = a, ![s].manifest = m]
                 = [stmts EXCEPT ![s] = [e EXCEPT !.state = "SUCCEEDED", !.before = table.rows,
                                                  !.after = a, !.manifest = m]]
      BY <1>2 DEF IsSequence
    <3>4. CASE \E x \in {"FAILED", "CANCELED"} : stmts' = [stmts EXCEPT ![s] = [e EXCEPT !.state = x]]
      <4>1. PICK x \in {"FAILED", "CANCELED"} : stmts' = [stmts EXCEPT ![s] = [e EXCEPT !.state = x]]
        BY <3>4
      <4> WITNESS [e EXCEPT !.state = x]
      <4> QED BY <3>1, <4>1
    <3>5. CASE \E m : stmts' = [stmts EXCEPT ![s].state = "SUCCEEDED", ![s].before = table.rows,
                                               ![s].after = a, ![s].manifest = m]
      <4>1. PICK m : stmts' = [stmts EXCEPT ![s].state = "SUCCEEDED", ![s].before = table.rows,
                                              ![s].after = a, ![s].manifest = m]
        BY <3>5
      <4> DEFINE f == [e EXCEPT !.state = "SUCCEEDED", !.before = table.rows, !.after = a,
                                !.manifest = m]
      <4>2. stmts' = [stmts EXCEPT ![s] = f] /\ Sound(f, h)
        BY <3>2, <3>3, <4>1
      <4> QED BY <4>2
    <3> QED BY <2>2, <3>4, <3>5
  <2>6. PICK f : stmts' = [stmts EXCEPT ![s] = f] /\ Sound(f, h)
    BY <2>5
  <2>7. PICK S : stmts \in Seq(S)
    BY <1>2 DEF IsSequence
  <2>8. stmts \in Seq(S \cup {f}) /\ f \in S \cup {f}
    BY <2>7, SeqMonotonic
  <2>9. Len(stmts') = Len(stmts) /\ \A i \in 1..Len(stmts) : stmts'[i] = IF i = s THEN f ELSE stmts[i]
    BY <2>1, <2>6, <2>8, ExceptSeq
  <2>10. \A i \in 1..Len(stmts') : Sound(stmts'[i], h)
    BY <2>6, <2>9 DEF EffectInv, SoundInv
  <2> QED BY <1>1, <2>3, <2>4, <2>10 DEF EffectInv, SoundInv
<1>8. ASSUME NEW s \in DOMAIN stmts, CloseResult(s)
      PROVE  EffectInv'
  <2> DEFINE f == [stmts[s] EXCEPT !.closed = TRUE]
  <2>1. stmts' = [stmts EXCEPT ![s] = f] /\ UNCHANGED <<table, job>>
    BY <1>8 DEF CloseResult
  <2>2. Entry(stmts[s]) /\ Sound(stmts[s], h) /\ s \in 1..Len(stmts)
    BY <1>1, <1>2, <1>8 DEF Inv, TypeOK, StmtsOK, EffectInv, SoundInv
  <2>3. Sound(f, h)
    BY <2>2 DEF Sound, Entry
  <2> HIDE DEF f
  <2>4. PICK S : stmts \in Seq(S)
    BY <1>2 DEF IsSequence
  <2>5. stmts \in Seq(S \cup {f}) /\ f \in S \cup {f}
    BY <2>4, SeqMonotonic
  <2>6. Len(stmts') = Len(stmts) /\ \A i \in 1..Len(stmts) : stmts'[i] = IF i = s THEN f ELSE stmts[i]
    BY <2>1, <2>2, <2>5, ExceptSeq
  <2>7. \A i \in 1..Len(stmts') : Sound(stmts'[i], h)
    BY <2>3, <2>6 DEF EffectInv, SoundInv
  <2>8. TableInv' /\ ProgramsInv'
    BY <2>1 DEF EffectInv, TableInv, ProgramsInv
  <2> QED BY <1>1, <2>1, <2>7, <2>8 DEF EffectInv, SoundInv
<1>9. CASE WorkspaceChanges \/ UNCHANGED vars
  <2>1. UNCHANGED <<table, stmts, job>>
    BY <1>9 DEF WorkspaceChanges, vars
  <2>2. TableInv' /\ ProgramsInv'
    BY <2>1 DEF EffectInv, TableInv, ProgramsInv
  <2> QED BY <1>1, <1>4, <2>1, <2>2 DEF EffectInv
<1> QED BY <1>5, <1>6, <1>7, <1>8, <1>9 DEF Next

\* A statement that took effect did to the table what its call asked, through the types of the
\* staged file, the predicate generated and the clauses sorted (SqlEngine._staged_select,
\* _dynamic_predicate, SqlMerger.statement), for any data and any interleaving of calls. That the
\* sorted clauses decide alike is a fact about sequences the theorem assumes.
THEOREM EffectsExact == ClausesDecideAlike => (Spec => []EffectExact)
<1> SUFFICES ASSUME ClausesDecideAlike PROVE Spec => []EffectExact
  OBVIOUS
<1>1. Init => EffectInv
  <2> SUFFICES ASSUME Init PROVE EffectInv
    OBVIOUS
  <2>1. Inv
    BY InvInit
  <2>2. TableInv
    BY TablesAssumption DEF Init, TableInv
  <2>3. ProgramsInv
    BY DEF Init, ProgramsInv, Programmed, Idle
  <2>4. SoundInv
    <3>1. Len(stmts) = 0
      BY EmptySeq DEF Init
    <3> QED BY <3>1 DEF SoundInv
  <2> QED BY <2>1, <2>2, <2>3, <2>4 DEF EffectInv
<1>2. EffectInv /\ [Next]_vars => EffectInv'
  BY EffectKept
<1>3. EffectInv => EffectExact
  <2>1. Inv => DOMAIN stmts = 1..Len(stmts)
    BY LenProperties DEF Inv, TypeOK, StmtsOK, IsSequence
  <2> QED BY <2>1 DEF EffectInv, SoundInv, Sound, EffectExact
<1> QED BY <1>1, <1>2, <1>3, PTL DEF Spec
===============================================================================
