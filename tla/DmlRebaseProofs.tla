--------------------------- MODULE DmlRebaseProofs ---------------------------
(***************************************************************************)
(* Proofs about DmlRebase, for any operations, jobs, table, retry limit    *)
(* and faults: every version is the one before it with one operation       *)
(* applied (VersionsExact), each operation changed the rows it would have  *)
(* found at its place in the log (ReadsHold), and a deletion vector is     *)
(* missing only where a commit landed and lost its answer, and left over   *)
(* only while a commit is under way (VectorsAccounted).                    *)
(***************************************************************************)
EXTENDS DmlRebase, TLAPS

-----------------------------------------------------------------------------
(* The inductive invariant. *)

Kind(o) == job[o].kind

\* An operation has planned a commit.
Planned(o) == pc[o] \in {"stage", "commit", "rebase"}

FileRecord(f) == f = [name |-> f.name, rows |-> f.rows, dead |-> f.dead, vector |-> f.vector]
RowRecord(r) == r = [key |-> r.key, from |-> r.from, by |-> r.by]

\* The log is a sequence, of whatever.
IsLog == \E S : log \in Seq(S)

\* The types, but for the rows.
Typed ==
    /\ job \in Jobs /\ serial \in BOOLEAN
    /\ pc \in [Op -> {"read", "stage", "commit", "rebase", "done"}]
    /\ read \in [Op -> 0..LastVersion] /\ base \in [Op -> 0..LastVersion]
    /\ DOMAIN matched = Op /\ DOMAIN touched = Op
    /\ writes \in [Op -> Nat]
    /\ tries \in [Op -> 0..(Retries + 1)]
    /\ \A o \in Op : pc[o] # "done" => tries[o] <= Retries
    /\ result \in [Op -> {"none", "nothing", "committed", "done", "conflict", "metadata", "unknown"}]

\* No file or vector of the table has a name that an operation has yet to give.
Given(n) == \A o \in Op, i \in Nat : n = <<o, i>> => i <= writes[o] /\ (pc[o] = "commit" => i # writes[o])

FilesTyped ==
    \A v \in 0..LastVersion : \A f \in Live(v) :
        /\ FileRecord(f)
        /\ Given(f.name) /\ Given(f.vector)
        /\ \A r \in f.rows : RowRecord(r)

\* A name stands for one file in a version, and for the same rows in all; the vector
\* tells which of them are hidden, and they only get more.
NameOnce == \A v \in 0..LastVersion : \A f, g \in Live(v) : f.name = g.name => f = g

NamesStand ==
    \A u, v \in 0..LastVersion : \A f \in Live(u), g \in Live(v) : f.name = g.name =>
        /\ f.rows = g.rows
        /\ f.vector = g.vector => f.dead = g.dead

\* A row of an operation was inserted by it when it committed, and last written by a
\* commit in the log.
RowsTyped == \A v \in 0..LastVersion : Visible(Live(v)) \subseteq Row

RowsInserted ==
    \A v \in 0..LastVersion : \A r \in Visible(Live(v)) :
        /\ r.from \in Op => pc[r.from] = "done"
        /\ r.by \in Op => \E x \in 1..v : log[x].by = r.by

\* RowsOnce, and of the first version too.
EachOnce ==
    \A v \in 0..LastVersion : \A f, g \in Live(v) : \A r \in f.rows \ f.dead, s \in g.rows \ g.dead :
        r.from = s.from => f = g /\ r = s

\* Only OPTIMIZE commits more than once.
CommitsInv ==
    /\ \A x \in 1..LastVersion :
          /\ log[x].by \in Op /\ log[x].read \in 0..x-1
          /\ log[x].blind = (Kind(log[x].by) = "append")
          /\ Kind(log[x].by) # "optimize" => pc[log[x].by] = "done"
    /\ \A x, w \in 1..LastVersion :
          log[x].by = log[w].by /\ Kind(log[x].by) # "optimize" => x = w

WroteIn(w) == NewRows(log[w].by, log[w].changed)

\* A row came with a commit after a version, or was there.
Origin ==
    \A a, b \in 0..LastVersion : a <= b =>
        \A r \in Visible(Live(b)) : r \in Visible(Live(a)) \/ \E w \in a+1..b : r \in WroteIn(w)

\* The rows a commit wrote are in a file it added, which no earlier version has.
Written ==
    \A w \in 1..LastVersion : \A r \in WroteIn(w) :
        \E h \in Live(w) : /\ h.name \in log[w].added /\ r \in h.rows
                           /\ \A a \in 0..w-1 : h.name \notin Names(Live(a))

\* What an operation is about to change: visible rows of live files.
PlanOf(o) ==
    /\ Kind(o) \notin RowKinds => matched[o] = {}
    /\ Kind(o) \in {"append", "alter"} => touched[o] = {}
    /\ Planned(o) => matched[o] \subseteq Visible(Named(Live(base[o]), touched[o]))
    /\ matched[o] \subseteq Row

PlanInv == \A o \in Op : PlanOf(o)

\* The operations whose blind appends landed after version u and up to v.
Late(u, v) == {log[w].by : w \in {x \in u+1..v : log[x].blind}}

\* What an operation would match at version v, but for the blind appends since its read.
Match(o, v) ==
    {r \in Visible(Live(v)) : Matches(o, r) /\ (serial \/ r.by \notin Late(read[o], v))}

ReadOf(o) ==
    Planned(o) /\ Kind(o) \in RowKinds => read[o] <= base[o] /\ matched[o] = Match(o, base[o])

ReadInv == \A o \in Op : ReadOf(o)

\* A version refers to the vector n.
Referred(n) == n # None /\ \E v \in 0..LastVersion : \E f \in Live(v) : f.vector = n

\* A commit that may still write the vector n is under way.
UnderWay(n) == \E o \in Op : pc[o] = "commit" /\ n = <<o, writes[o]>>

\* A vector a version refers to is there, or its commit landed and lost its answer; one
\* that no version refers to is of a commit under way, which wrote one if it uses one.
VectorsInv ==
    /\ \A v \in 0..LastVersion : \A f \in Live(v) :
          f.vector # None => f.vector \in vectors \/ DeletedThoughLanded(f.vector)
    /\ \A n \in vectors : Referred(n) \/ UnderWay(n)
    /\ \A o \in Op : pc[o] = "commit" => (<<o, writes[o]>> \in vectors <=> UsesVector(o))
    /\ \A o \in Op : result[o] = "unknown" => pc[o] = "done"

\* What holds of the versions, and of the operations.
LogInv ==
    /\ IsLog /\ FilesTyped /\ NameOnce /\ NamesStand
    /\ RowsTyped /\ RowsInserted /\ EachOnce /\ CommitsInv /\ Origin /\ Written
    /\ EffectExact /\ ReadsHold

IInv == Typed /\ LogInv /\ PlanInv /\ ReadInv /\ VectorsInv

-----------------------------------------------------------------------------
(* The sets of files and rows. *)

\* A row is visible in a set of files when a file of it shows the row.
LEMMA InVisible ==
    ASSUME NEW S, NEW r
    PROVE  r \in Visible(S) <=> \E f \in S : r \in f.rows /\ r \notin f.dead
BY DEF Visible

\* The names of a set of files.
LEMMA InNames ==
    ASSUME NEW S, NEW n
    PROVE  n \in Names(S) <=> \E f \in S : f.name = n
BY DEF Names

\* The files of a set that have given names.
LEMMA InNamed ==
    ASSUME NEW S, NEW ns, NEW f
    PROVE  f \in Named(S, ns) <=> f \in S /\ f.name \in ns
BY DEF Named

\* What an operation writes for the rows it matched: those rows, last written by it,
\* or one row of its own.
LEMMA NewRowsAre ==
    ASSUME NEW o, NEW rows, \A m \in rows : RowRecord(m)
    PROVE  /\ \A r \in NewRows(o, rows) :
                 /\ RowRecord(r) /\ r.by = o
                 /\ r = Inserted(o)
                    \/ \E m \in rows : r = [m EXCEPT !.by = o] /\ r.from = m.from /\ r.key = m.key
           /\ \A r, s \in NewRows(o, rows) : \A m, n \in rows :
                 r = Inserted(o) /\ s = [m EXCEPT !.by = o] => r.from = o
<1>1. \A m \in rows : /\ RowRecord([m EXCEPT !.by = o]) /\ [m EXCEPT !.by = o].by = o
                      /\ [m EXCEPT !.by = o].from = m.from /\ [m EXCEPT !.by = o].key = m.key
  BY DEF RowRecord
<1>2. RowRecord(Inserted(o)) /\ Inserted(o).by = o /\ Inserted(o).from = o
  BY DEF Inserted, RowRecord
<1>3. \A r \in NewRows(o, rows) : r = Inserted(o) \/ \E m \in rows : r = [m EXCEPT !.by = o]
  BY DEF NewRows
<1>4. \A r \in NewRows(o, rows) :
         /\ RowRecord(r) /\ r.by = o
         /\ r = Inserted(o)
            \/ \E m \in rows : r = [m EXCEPT !.by = o] /\ r.from = m.from /\ r.key = m.key
  <2> TAKE r \in NewRows(o, rows)
  <2>1. CASE r = Inserted(o)
    BY <1>2, <2>1
  <2>2. ASSUME NEW m \in rows, r = [m EXCEPT !.by = o]
        PROVE  RowRecord(r) /\ r.by = o /\ r.from = m.from /\ r.key = m.key
    BY <1>1, <2>2
  <2> QED  BY <1>3, <2>1, <2>2
<1> QED  BY <1>2, <1>4

-----------------------------------------------------------------------------
(* What a commit makes of the version it is built on. *)

\* The touched files and the others.
Hit(o) == Named(Live(base[o]), touched[o])
Rest(o) == {f \in Live(base[o]) : f.name \notin touched[o]}

\* The commit writes vectors.
Vectors(o) == Kind(o) \in RowKinds /\ mode = "dv"

\* The rows of its new file, that file, and a touched file with a larger vector.
Content(o) == NewRows(o, matched[o]) \cup (IF Vectors(o) THEN {} ELSE Kept(o))
Fresh(o) == [name |-> <<o, writes[o]>>, rows |-> Content(o), dead |-> {}, vector |-> None]
Hides(o, h) == [name |-> h.name, rows |-> h.rows, dead |-> h.dead \cup (h.rows \cap matched[o]),
                vector |-> <<o, writes[o]>>]

\* A file with another vector.
LEMMA FileExcept ==
    ASSUME NEW h, FileRecord(h), NEW x, NEW y
    PROVE  [h EXCEPT !.dead = x, !.vector = y] = [name |-> h.name, rows |-> h.rows, dead |-> x, vector |-> y]
<1>1. [h EXCEPT !.dead = x, !.vector = y] = [[h EXCEPT !.dead = x] EXCEPT !.vector = y]
  BY DEF FileRecord
<1>2. [h EXCEPT !.dead = x] = [name |-> h.name, rows |-> h.rows, dead |-> x, vector |-> h.vector]
  BY DEF FileRecord
<1>3. PICK k : k = [h EXCEPT !.dead = x]
  OBVIOUS
<1>4. /\ k = [name |-> k.name, rows |-> k.rows, dead |-> k.dead, vector |-> k.vector]
      /\ k.name = h.name /\ k.rows = h.rows /\ k.dead = x
  BY <1>2, <1>3
<1>5. [k EXCEPT !.vector = y] = [name |-> k.name, rows |-> k.rows, dead |-> k.dead, vector |-> y]
  BY ONLY <1>4
<1> QED  BY <1>1, <1>3, <1>4, <1>5

\* A commit adds the file of its new and kept rows, and the touched files it hides
\* rows of and leaves rows in.
LEMMA AddsAre ==
    ASSUME NEW o, FilesTyped, PlanInv, o \in Op, base[o] \in 0..LastVersion,
           Kind(o) \in JobKinds, NEW g
    PROVE  g \in Adds(o) <=>
             \/ g = Fresh(o) /\ Content(o) # {}
             \/ Vectors(o) /\ \E h \in Hit(o) : g = Hides(o, h) /\ ~(h.rows \subseteq h.dead \cup matched[o])
<1>1. g \in NewFile(o, Content(o)) <=> g = Fresh(o) /\ Content(o) # {}
  BY DEF NewFile, Fresh
<1>2. CASE Vectors(o)
  <2>1. ASSUME NEW h \in Hit(o)
        PROVE  [h EXCEPT !.dead = @ \cup (h.rows \cap matched[o]), !.vector = <<o, writes[o]>>] = Hides(o, h)
    <3>1. FileRecord(h)
      BY InNamed DEF Hit, FilesTyped
    <3> QED  BY <3>1, FileExcept DEF Hides
  <2>2. g \in Vectored(o) <=>
          \E h \in Hit(o) : g = Hides(o, h) /\ ~(h.rows \subseteq h.dead \cup matched[o])
    BY <2>1 DEF Vectored, Hit
  <2>3. Adds(o) = Vectored(o) \cup NewFile(o, NewRows(o, matched[o]))
    BY <1>2 DEF Adds, Vectors, Kind, RowKinds
  <2>4. Content(o) = NewRows(o, matched[o])
    BY <1>2 DEF Content
  <2> QED  BY <1>1, <1>2, <2>2, <2>3, <2>4
<1>3. CASE ~Vectors(o)
  <2>1. Content(o) = NewRows(o, matched[o]) \cup Kept(o)
    BY <1>3 DEF Content
  <2>2. CASE Kind(o) = "optimize"
    <3>1. matched[o] = {}
      BY <2>2 DEF PlanInv, PlanOf, RowKinds
    <3>2. NewRows(o, matched[o]) = {} /\ Kept(o) = Visible(Hit(o))
      BY <2>2, <3>1 DEF NewRows, Kept, Kind, Hit
    <3>3. Adds(o) = NewFile(o, Visible(Hit(o)))
      BY <2>2 DEF Adds, Kind, RowKinds, Hit
    <3> QED  BY <1>1, <1>3, <2>1, <3>2, <3>3
  <2>3. CASE Kind(o) # "optimize"
    <3>1. Adds(o) = NewFile(o, NewRows(o, matched[o]) \cup Kept(o))
      BY <1>3, <2>3 DEF Adds, Kind, Vectors
    <3> QED  BY <1>1, <1>3, <2>1, <3>1
  <2> QED  BY <2>2, <2>3
<1> QED  BY <1>2, <1>3

\* Where a row that is visible after the commit is, and where it was before.
Stays(o, f, r) == f \in Rest(o) /\ r \in f.rows /\ r \notin f.dead
Hidden(o, f, r) ==
    Vectors(o) /\ \E h \in Hit(o) : f = Hides(o, h) /\ r \in h.rows /\ r \notin h.dead /\ r \notin matched[o]
Rewritten(o, f, r) ==
    f = Fresh(o) /\ (r \in NewRows(o, matched[o]) \/ (~Vectors(o) /\ r \in Visible(Hit(o)) /\ r \notin matched[o]))

\* A row is visible after the commit in a file it left alone, in one with a larger
\* vector that it was visible in, or in the new file.
LEMMA ShownAfter ==
    ASSUME NEW o, FilesTyped, PlanInv, o \in Op, base[o] \in 0..LastVersion,
           Kind(o) \in JobKinds, NEW f, NEW r
    PROVE  f \in Record(o).live /\ r \in f.rows /\ r \notin f.dead
             <=> Stays(o, f, r) \/ Hidden(o, f, r) \/ Rewritten(o, f, r)
<1>1. f \in Record(o).live <=> f \in Rest(o) \/ f \in Adds(o)
  BY DEF Record, Rest
<1>2. r \in Kept(o) <=> r \in Visible(Hit(o)) /\ r \notin matched[o]
  BY DEF Kept, Hit
<1>3. Fresh(o).rows = Content(o) /\ Fresh(o).dead = {}
  BY DEF Fresh
<1>4. \A h : Hides(o, h).rows = h.rows /\ Hides(o, h).dead = h.dead \cup (h.rows \cap matched[o])
  BY DEF Hides
<1>5. f \in Adds(o) <=>
        \/ f = Fresh(o) /\ Content(o) # {}
        \/ Vectors(o) /\ \E h \in Hit(o) : f = Hides(o, h) /\ ~(h.rows \subseteq h.dead \cup matched[o])
  BY AddsAre
<1>6. r \in Content(o) <=> r \in NewRows(o, matched[o]) \/ (~Vectors(o) /\ r \in Visible(Hit(o)) /\ r \notin matched[o])
  BY <1>2 DEF Content
<1>7. ASSUME f \in Adds(o), r \in f.rows, r \notin f.dead PROVE Hidden(o, f, r) \/ Rewritten(o, f, r)
  <2>1. CASE f = Fresh(o)
    BY <2>1, <1>7, <1>3, <1>6 DEF Rewritten
  <2>2. CASE Vectors(o) /\ \E h \in Hit(o) : f = Hides(o, h)
    BY <2>2, <1>7, <1>4 DEF Hidden
  <2> QED  BY <1>5, <1>7, <2>1, <2>2
<1>8. ASSUME Hidden(o, f, r) PROVE f \in Adds(o) /\ r \in f.rows /\ r \notin f.dead
  <2>1. PICK h \in Hit(o) : f = Hides(o, h) /\ r \in h.rows /\ r \notin h.dead /\ r \notin matched[o]
    BY <1>8 DEF Hidden
  <2>2. r \in f.rows /\ r \notin f.dead
    BY <2>1, <1>4
  <2>3. ~(h.rows \subseteq h.dead \cup matched[o]) /\ Vectors(o)
    BY <2>1, <1>8 DEF Hidden
  <2> QED  BY <2>1, <2>2, <2>3, <1>5
<1>9. ASSUME Rewritten(o, f, r) PROVE f \in Adds(o) /\ r \in f.rows /\ r \notin f.dead
  <2>1. f = Fresh(o) /\ r \in Content(o)
    BY <1>9, <1>6 DEF Rewritten
  <2> QED  BY <2>1, <1>3, <1>5
<1> QED  BY <1>1, <1>7, <1>8, <1>9 DEF Stays

\* Rows visible in the version a commit is built on are rows, and none comes from the
\* operation itself.
LEMMA RowsBefore ==
    ASSUME NEW o, FilesTyped, RowsInserted, PlanInv, o \in Op, base[o] \in 0..LastVersion,
           pc[o] = "commit"
    PROVE  /\ \A r \in Visible(Live(base[o])) : RowRecord(r) /\ r.from # o
           /\ \A r \in matched[o] : r \in Visible(Hit(o))
           /\ \A r \in Visible(Hit(o)) : r \in Visible(Live(base[o]))
<1>1. ASSUME NEW r \in Visible(Live(base[o])) PROVE RowRecord(r) /\ r.from # o
  <2>1. RowRecord(r)
    BY InVisible DEF FilesTyped
  <2>2. r.from # o
    BY DEF RowsInserted
  <2> QED  BY <2>1, <2>2
<1>2. \A r \in matched[o] : r \in Visible(Hit(o))
  BY DEF PlanInv, PlanOf, Planned, Hit
<1>3. \A r \in Visible(Hit(o)) : r \in Visible(Live(base[o]))
  BY InVisible, InNamed DEF Hit
<1> QED  BY <1>1, <1>2, <1>3

\* The rows after a commit are those before it without the ones it changes, and the
\* ones it writes.
LEMMA RowsAfter ==
    ASSUME NEW o, FilesTyped, RowsInserted, EachOnce, PlanInv, o \in Op, base[o] \in 0..LastVersion,
           pc[o] = "commit", Kind(o) \in JobKinds, NEW r
    PROVE  r \in Visible(Record(o).live)
             <=> (r \in Visible(Live(base[o])) /\ r \notin matched[o]) \/ r \in NewRows(o, matched[o])
<1>1. r \in Visible(Record(o).live) <=> \E f : Stays(o, f, r) \/ Hidden(o, f, r) \/ Rewritten(o, f, r)
  BY InVisible, ShownAfter
<1>2. ASSUME NEW f, Stays(o, f, r) PROVE r \in Visible(Live(base[o])) /\ r \notin matched[o]
  <2>1. f \in Live(base[o]) /\ f.name \notin touched[o] /\ r \in f.rows \ f.dead
    BY <1>2 DEF Stays, Rest
  <2>2. r \in Visible(Live(base[o]))
    BY <2>1, InVisible
  <2>3. ASSUME r \in matched[o] PROVE FALSE
    <3>1. PICK g \in Hit(o) : r \in g.rows \ g.dead
      BY <2>3, RowsBefore, InVisible
    <3>2. g \in Live(base[o]) /\ g.name \in touched[o]
      BY <3>1, InNamed DEF Hit
    <3>3. f = g
      BY <2>1, <3>1, <3>2 DEF EachOnce
    <3> QED  BY <2>1, <3>2, <3>3
  <2> QED  BY <2>2, <2>3
<1>3. ASSUME NEW f, Hidden(o, f, r) PROVE r \in Visible(Live(base[o])) /\ r \notin matched[o]
  <2>1. r \in Visible(Hit(o)) /\ r \notin matched[o]
    BY <1>3, InVisible DEF Hidden
  <2> QED  BY <2>1, RowsBefore
<1>4. ASSUME NEW f, Rewritten(o, f, r)
      PROVE  (r \in Visible(Live(base[o])) /\ r \notin matched[o]) \/ r \in NewRows(o, matched[o])
  BY <1>4, RowsBefore DEF Rewritten
<1>5. ASSUME r \in NewRows(o, matched[o]) PROVE Rewritten(o, Fresh(o), r)
  BY <1>5 DEF Rewritten
<1>6. ASSUME r \in Visible(Live(base[o])), r \notin matched[o]
      PROVE  \E f : Stays(o, f, r) \/ Hidden(o, f, r) \/ Rewritten(o, f, r)
  <2>1. PICK g \in Live(base[o]) : r \in g.rows /\ r \notin g.dead
    BY <1>6, InVisible
  <2>2. CASE g.name \notin touched[o]
    BY <2>1, <2>2 DEF Stays, Rest
  <2>3. CASE g.name \in touched[o]
    <3>1. g \in Hit(o) /\ r \in Visible(Hit(o))
      BY <2>1, <2>3, InNamed, InVisible DEF Hit
    <3>2. CASE Vectors(o)
      BY <3>1, <3>2, <2>1, <1>6 DEF Hidden
    <3>3. CASE ~Vectors(o)
      BY <3>1, <3>3, <1>6 DEF Rewritten
    <3> QED  BY <3>2, <3>3
  <2> QED  BY <2>2, <2>3
<1> QED  BY <1>1, <1>2, <1>3, <1>4, <1>5, <1>6

\* The row before a commit that a row after it comes from, with the file that showed it.
Comes(o, r, g, m) == g \in Live(base[o]) /\ m \in g.rows /\ m \notin g.dead /\ m.from = r.from

\* A row after a commit is as it was in a file the commit left alone, or it is in a
\* touched file or the new one.
LEMMA RowCases ==
    ASSUME NEW o, FilesTyped, RowsInserted, PlanInv, o \in Op, base[o] \in 0..LastVersion,
           pc[o] = "commit", Kind(o) \in JobKinds,
           NEW f \in Record(o).live, NEW r \in f.rows, r \notin f.dead
    PROVE  \/ f.name \notin touched[o] /\ Comes(o, r, f, r)
           \/ Vectors(o) /\ r \notin matched[o]
              /\ \E h : f = Hides(o, h) /\ h.name \in touched[o] /\ Comes(o, r, h, r)
           \/ f = Fresh(o)
              /\ \/ r = Inserted(o) /\ r.from = o
                 \/ \E h, m : m \in matched[o] /\ r = [m EXCEPT !.by = o]
                              /\ h.name \in touched[o] /\ Comes(o, r, h, m)
                 \/ ~Vectors(o) /\ r \notin matched[o] /\ \E h : h.name \in touched[o] /\ Comes(o, r, h, r)
<1>1. CASE Stays(o, f, r)
  BY <1>1 DEF Stays, Rest, Comes
<1>2. CASE Hidden(o, f, r)
  BY <1>2, InNamed DEF Hidden, Comes, Hit
<1>3. CASE Rewritten(o, f, r)
  <2>1. ASSUME NEW m \in Visible(Hit(o))
        PROVE  \E h : h.name \in touched[o] /\ h \in Live(base[o]) /\ m \in h.rows /\ m \notin h.dead
    BY InVisible, InNamed DEF Hit
  <2>2. CASE ~Vectors(o) /\ r \in Visible(Hit(o)) /\ r \notin matched[o]
    BY <1>3, <2>1, <2>2 DEF Rewritten, Comes
  <2>3. CASE r \in NewRows(o, matched[o])
    <3>1. \A m \in matched[o] : RowRecord(m) /\ m \in Visible(Hit(o))
      BY RowsBefore
    <3>2. r = Inserted(o) \/ \E m \in matched[o] : r = [m EXCEPT !.by = o] /\ r.from = m.from
      BY <3>1, <2>3, NewRowsAre
    <3>3. CASE r = Inserted(o)
      BY <3>3, <1>3 DEF Rewritten, Inserted
    <3>4. CASE \E m \in matched[o] : r = [m EXCEPT !.by = o] /\ r.from = m.from
      BY <3>4, <3>1, <2>1, <1>3 DEF Rewritten, Comes
    <3> QED  BY <3>2, <3>3, <3>4
  <2> QED  BY <1>3, <2>2, <2>3 DEF Rewritten
<1> QED  BY <1>1, <1>2, <1>3, ShownAfter

\* Each row is in one file after a commit as it was before.
LEMMA EachOnceAfter ==
    ASSUME NEW o, FilesTyped, RowsInserted, EachOnce, PlanInv, o \in Op, base[o] \in 0..LastVersion,
           pc[o] = "commit", Kind(o) \in JobKinds,
           NEW f \in Record(o).live, NEW r \in f.rows, r \notin f.dead,
           NEW g \in Record(o).live, NEW s \in g.rows, s \notin g.dead,
           r.from = s.from
    PROVE  f = g /\ r = s
<1>1. \A h, m, k, n : Comes(o, r, h, m) /\ Comes(o, s, k, n) => h = k /\ m = n
  BY DEF Comes, EachOnce
<1>2. \A h, m : Comes(o, r, h, m) \/ Comes(o, s, h, m) => r.from # o /\ s.from # o
  <2>1. ASSUME NEW h, NEW m, NEW x, Comes(o, x, h, m) PROVE x.from # o
    <3>1. m \in Visible(Live(base[o])) /\ m.from = x.from
      BY <2>1, InVisible DEF Comes
    <3> QED  BY <3>1, RowsBefore
  <2> QED  BY <2>1
<1>3. CASE f.name \notin touched[o] /\ Comes(o, r, f, r)
  <2>1. s.from # o
    BY <1>2, <1>3
  <2>2. \A k, n : Comes(o, s, k, n) => k = f /\ n = r
    BY <1>1, <1>3
  <2>3. \/ Comes(o, s, g, s)
        \/ \E k, n : k.name \in touched[o] /\ Comes(o, s, k, n)
    BY <2>1, RowCases
  <2> QED  BY <1>3, <2>2, <2>3
<1>4. CASE Vectors(o) /\ r \notin matched[o]
           /\ \E h : f = Hides(o, h) /\ h.name \in touched[o] /\ Comes(o, r, h, r)
  <2>1. PICK h : f = Hides(o, h) /\ h.name \in touched[o] /\ Comes(o, r, h, r)
    BY <1>4
  <2>2. \A k, n : Comes(o, s, k, n) => k = h /\ n = r
    BY <1>1, <2>1
  <2>3. s.from # o
    BY <1>2, <2>1
  <2>4. \/ g.name \notin touched[o] /\ Comes(o, s, g, s)
        \/ \E k : g = Hides(o, k) /\ Comes(o, s, k, s)
        \/ \E k, n : n \in matched[o] /\ Comes(o, s, k, n)
    BY <2>3, <1>4, RowCases
  <2> QED  BY <2>1, <2>2, <2>4, <1>4
<1>5. CASE f = Fresh(o) /\ r = Inserted(o) /\ r.from = o
  <2>1. g = Fresh(o) /\ s = Inserted(o)
    BY <1>5, <1>2, RowCases
  <2> QED  BY <1>5, <2>1
<1>6. CASE f = Fresh(o) /\ \E h, m : m \in matched[o] /\ r = [m EXCEPT !.by = o]
                                     /\ h.name \in touched[o] /\ Comes(o, r, h, m)
  <2>1. PICK h, m : m \in matched[o] /\ r = [m EXCEPT !.by = o] /\ h.name \in touched[o] /\ Comes(o, r, h, m)
    BY <1>6
  <2>2. \A k, n : Comes(o, s, k, n) => k = h /\ n = m
    BY <1>1, <2>1
  <2>3. s.from # o
    BY <1>2, <2>1
  <2>4. \/ g.name \notin touched[o] /\ Comes(o, s, g, s)
        \/ s \notin matched[o] /\ \E k : Comes(o, s, k, s)
        \/ g = Fresh(o) /\ \E k, n : s = [n EXCEPT !.by = o] /\ Comes(o, s, k, n)
    BY <2>3, RowCases
  <2>5. CASE g = Fresh(o) /\ \E k, n : s = [n EXCEPT !.by = o] /\ Comes(o, s, k, n)
    BY <1>6, <2>1, <2>2, <2>5
  <2> QED  BY <2>1, <2>2, <2>4, <2>5
<1>7. CASE f = Fresh(o) /\ ~Vectors(o) /\ r \notin matched[o] /\ \E h : h.name \in touched[o] /\ Comes(o, r, h, r)
  <2>1. PICK h : h.name \in touched[o] /\ Comes(o, r, h, r)
    BY <1>7
  <2>2. \A k, n : Comes(o, s, k, n) => k = h /\ n = r
    BY <1>1, <2>1
  <2>3. s.from # o
    BY <1>2, <2>1
  <2>4. \/ g.name \notin touched[o] /\ Comes(o, s, g, s)
        \/ \E k, n : n \in matched[o] /\ Comes(o, s, k, n)
        \/ g = Fresh(o) /\ \E k : Comes(o, s, k, s)
    BY <2>3, <1>7, RowCases
  <2> QED  BY <1>7, <2>1, <2>2, <2>4
<1> QED  BY <1>3, <1>4, <1>5, <1>6, <1>7, RowCases

\* The files after a commit: those it left alone, the touched ones with larger
\* vectors, and a new one.
LEMMA FilesAfter ==
    ASSUME NEW o, FilesTyped, RowsInserted, PlanInv, o \in Op, base[o] \in 0..LastVersion,
           pc[o] = "commit", Kind(o) \in JobKinds, NEW f \in Record(o).live
    PROVE  /\ FileRecord(f) /\ \A r \in f.rows : RowRecord(r)
           /\ \/ f \in Live(base[o]) /\ f.name \notin touched[o]
              \/ Vectors(o) /\ f.vector = <<o, writes[o]>>
                 /\ \E h \in Live(base[o]) : /\ f = Hides(o, h) /\ h.name \in touched[o]
                                             /\ f.name = h.name /\ f.rows = h.rows
              \/ f = Fresh(o) /\ f.name = <<o, writes[o]>> /\ f.vector = None
<1>1. f \in Rest(o) \/ f \in Adds(o)
  BY DEF Record, Rest
<1>2. CASE f \in Rest(o)
  BY <1>2 DEF Rest, FilesTyped
<1>3. CASE f = Fresh(o)
  <2>1. FileRecord(f) /\ f.rows = Content(o) /\ f.name = <<o, writes[o]>> /\ f.vector = None
    BY <1>3 DEF Fresh, FileRecord
  <2>2. \A r \in Kept(o) : r \in Visible(Hit(o))
    BY DEF Kept, Hit
  <2>3. \A m \in matched[o] : RowRecord(m)
    BY RowsBefore
  <2>4. \A r \in NewRows(o, matched[o]) : RowRecord(r)
    BY <2>3, NewRowsAre
  <2>5. \A r \in Content(o) : RowRecord(r)
    BY <2>2, <2>4, RowsBefore DEF Content
  <2> QED  BY <1>3, <2>1, <2>5
<1>4. CASE Vectors(o) /\ \E h \in Hit(o) : f = Hides(o, h)
  <2>1. PICK h \in Hit(o) : f = Hides(o, h)
    BY <1>4
  <2>2. h \in Live(base[o]) /\ h.name \in touched[o]
    BY <2>1, InNamed DEF Hit
  <2>3. FileRecord(f) /\ f.name = h.name /\ f.rows = h.rows /\ f.vector = <<o, writes[o]>>
    BY <2>1 DEF Hides, FileRecord
  <2>4. \A r \in h.rows : RowRecord(r)
    BY <2>2 DEF FilesTyped
  <2> QED  BY <1>4, <2>1, <2>2, <2>3, <2>4
<1> QED  BY <1>1, <1>2, <1>3, <1>4, AddsAre

-----------------------------------------------------------------------------
(* A commit. *)

\* A commit adds one version and leaves the plans alone.
LEMMA CommitIs ==
    ASSUME NEW o \in Op, Typed, IsLog, Commit(o)
    PROVE  /\ LastVersion \in Nat /\ base[o] = LastVersion /\ base[o] \in 0..LastVersion
           /\ pc[o] = "commit" /\ Kind(o) \in JobKinds
           /\ IsLog' /\ LastVersion' = LastVersion + 1
           /\ \A v \in 1..LastVersion : log'[v] = log[v]
           /\ \A v \in 0..LastVersion : Live(v)' = Live(v)
           /\ \A n : n = LastVersion + 1 => log'[n] = Record(o) /\ Live(n)' = Record(o).live
           /\ UNCHANGED <<job, mode, serial, writes, read, base, matched, touched, tries>>
           /\ pc'[o] = "done" \/ (pc'[o] = "read" /\ Kind(o) = "optimize")
           /\ \A p \in Op \ {o} : pc'[p] = pc[p]
<1>1. pc[o] = "commit" /\ LastVersion = base[o] /\ log' = Append(log, Record(o))
  BY DEF Commit
<1>2. UNCHANGED <<job, mode, serial, writes, read, base, matched, touched, tries>>
  BY DEF Commit, choice, plan
<1>3. PICK S : log \in Seq(S)
  BY DEF IsLog
<1>4. Record(o) = Record(o) /\ log' \in Seq(S \cup {Record(o)})
  BY <1>1, <1>3
<1>5. IsLog'
  BY <1>4 DEF IsLog
<1>6. /\ Len(log') = Len(log) + 1 /\ Len(log) \in Nat
      /\ \A v \in 1..Len(log) : log'[v] = log[v]
      /\ log'[Len(log) + 1] = Record(o)
  BY <1>1, <1>3
<1>7. \A v \in 0..LastVersion : Live(v)' = Live(v)
  BY <1>6 DEF Live, LastVersion
<1>8. \A n : n = LastVersion + 1 => log'[n] = Record(o) /\ Live(n)' = Record(o).live
  BY <1>6 DEF Live, LastVersion
<1>9. Kind(o) \in JobKinds
  BY ConstantsAssumption DEF Typed, Kind
<1>10. /\ pc'[o] = "done" \/ (pc'[o] = "read" /\ Kind(o) = "optimize")
       /\ \A p \in Op \ {o} : pc'[p] = pc[p]
  BY DEF Commit, Goto, Finish, Typed, Kind
<1> QED  BY <1>1, <1>2, <1>5, <1>6, <1>7, <1>8, <1>9, <1>10 DEF LastVersion

\* After a commit the files have their types, and names that are given.
LEMMA CommitFilesTyped ==
    ASSUME NEW o \in Op, Typed, LogInv, PlanInv, Commit(o)
    PROVE  FilesTyped'
<1>1. ASSUME NEW n, Given(n) PROVE Given(n)'
  BY <1>1, CommitIs DEF Given, LogInv
<1>2. ASSUME NEW n, n = <<o, writes[o]>> PROVE Given(n)'
  BY <1>2, CommitIs DEF Given, LogInv, Typed
<1>3. Given(None)'
  BY TableAssumption DEF Given
<1>4. ASSUME NEW f \in Record(o).live
      PROVE  FileRecord(f) /\ Given(f.name)' /\ Given(f.vector)' /\ \A r \in f.rows : RowRecord(r)
  <2>1. FilesTyped /\ RowsInserted /\ base[o] \in 0..LastVersion /\ pc[o] = "commit" /\ Kind(o) \in JobKinds
    BY CommitIs DEF LogInv
  <2>2. FileRecord(f) /\ \A r \in f.rows : RowRecord(r)
    BY <2>1, FilesAfter
  <2>3. CASE f \in Live(base[o])
    BY <2>1, <2>2, <2>3, <1>1 DEF FilesTyped
  <2>4. CASE f.vector = <<o, writes[o]>> /\ \E h \in Live(base[o]) : f.name = h.name
    BY <2>1, <2>2, <2>4, <1>1, <1>2 DEF FilesTyped
  <2>5. CASE f.name = <<o, writes[o]>> /\ f.vector = None
    BY <2>2, <2>5, <1>2, <1>3
  <2> QED  BY <2>1, <2>3, <2>4, <2>5, FilesAfter
<1>5. ASSUME NEW v \in 0..LastVersion, NEW f \in Live(v)
      PROVE  FileRecord(f) /\ Given(f.name)' /\ Given(f.vector)' /\ \A r \in f.rows : RowRecord(r)
  BY <1>1 DEF LogInv, FilesTyped
<1>6. ASSUME NEW v \in 0..LastVersion + 1, NEW f \in Live(v)'
      PROVE  FileRecord(f) /\ Given(f.name)' /\ Given(f.vector)' /\ \A r \in f.rows : RowRecord(r)
  BY <1>4, <1>5, CommitIs DEF LogInv
<1> QED  BY <1>6, CommitIs DEF LogInv, FilesTyped, FileRecord, RowRecord

\* What an operation writes depends on its job only.
LEMMA NewRowsStay ==
    ASSUME job' = job, NEW p, NEW rows
    PROVE  NewRows(p, rows)' = NewRows(p, rows)
BY DEF NewRows, Inserted

\* The name an operation gives at a commit is new.
LEMMA NameIsNew ==
    ASSUME NEW o \in Op, Typed, FilesTyped, pc[o] = "commit", NEW v \in 0..LastVersion, NEW f \in Live(v)
    PROVE  f.name # <<o, writes[o]>> /\ f.vector # <<o, writes[o]>>
BY DEF Typed, FilesTyped, Given

\* A name stands for one file of the version a commit makes.
LEMMA CommitNameOnce ==
    ASSUME NEW o \in Op, Typed, LogInv, PlanInv, Commit(o)
    PROVE  NameOnce'
<1>1. /\ FilesTyped /\ RowsInserted /\ base[o] \in 0..LastVersion /\ pc[o] = "commit"
      /\ Kind(o) \in JobKinds /\ NameOnce
  BY CommitIs DEF LogInv
<1>2. ASSUME NEW f \in Record(o).live, NEW g \in Record(o).live, f.name = g.name PROVE f = g
  <2>1. CASE f.name = <<o, writes[o]>>
    <3>1. ASSUME NEW x \in Record(o).live, x.name = <<o, writes[o]>> PROVE x = Fresh(o)
      BY <1>1, <3>1, FilesAfter, NameIsNew
    <3> QED  BY <1>2, <2>1, <3>1
  <2>2. CASE f.name # <<o, writes[o]>>
    <3>1. ASSUME NEW x \in Record(o).live, x.name # <<o, writes[o]>>
          PROVE  \E h \in Live(base[o]) :
                    /\ h.name = x.name
                    /\ x = IF x.name \in touched[o] THEN Hides(o, h) ELSE h
      BY <1>1, <3>1, FilesAfter
    <3>2. PICK h \in Live(base[o]) :
             h.name = f.name /\ f = IF f.name \in touched[o] THEN Hides(o, h) ELSE h
      BY <2>2, <3>1
    <3>3. PICK k \in Live(base[o]) :
             k.name = g.name /\ g = IF g.name \in touched[o] THEN Hides(o, k) ELSE k
      BY <1>2, <2>2, <3>1
    <3>4. h = k
      BY <1>1, <1>2, <3>2, <3>3 DEF NameOnce
    <3> QED  BY <1>2, <3>2, <3>3, <3>4
  <2> QED  BY <2>1, <2>2
<1>3. ASSUME NEW v \in 0..LastVersion + 1, NEW f \in Live(v)', NEW g \in Live(v)', f.name = g.name PROVE f = g
  <2>1. CASE v = LastVersion + 1
    BY <2>1, <1>2, <1>3, CommitIs DEF LogInv
  <2>2. CASE v \in 0..LastVersion
    BY <2>2, <1>1, <1>3, CommitIs DEF LogInv, NameOnce
  <2> QED  BY <2>1, <2>2, CommitIs DEF LogInv
<1> QED  BY <1>3, CommitIs DEF LogInv, NameOnce

\* A file keeps its rows under its name, and its hidden rows with its vector.
LEMMA CommitNamesStand ==
    ASSUME NEW o \in Op, Typed, LogInv, PlanInv, Commit(o)
    PROVE  NamesStand'
<1>1. /\ FilesTyped /\ RowsInserted /\ base[o] \in 0..LastVersion /\ pc[o] = "commit"
      /\ Kind(o) \in JobKinds /\ NamesStand
  BY CommitIs DEF LogInv
<1>2. ASSUME NEW u \in 0..LastVersion, NEW f \in Live(u), NEW g \in Record(o).live, f.name = g.name
      PROVE  f.rows = g.rows /\ (f.vector = g.vector => f.dead = g.dead)
  <2>1. f.name # <<o, writes[o]>> /\ f.vector # <<o, writes[o]>>
    BY <1>1, NameIsNew
  <2>2. CASE g \in Live(base[o])
    BY <1>1, <1>2, <2>2 DEF NamesStand
  <2>3. CASE g.vector = <<o, writes[o]>> /\ \E h \in Live(base[o]) : g.name = h.name /\ g.rows = h.rows
    BY <1>1, <1>2, <2>1, <2>3 DEF NamesStand
  <2> QED  BY <1>1, <1>2, <2>1, <2>2, <2>3, FilesAfter
<1>3. \A f, g \in Record(o).live : f.name = g.name => f = g
  <2>1. NameOnce'
    BY CommitNameOnce
  <2>2. \A n : n = LastVersion + 1 => n \in 0..LastVersion' /\ Live(n)' = Record(o).live
    BY CommitIs DEF LogInv
  <2> QED  BY <2>1, <2>2 DEF NameOnce
<1>4. ASSUME NEW u \in 0..LastVersion + 1, NEW v \in 0..LastVersion + 1,
             NEW f \in Live(u)', NEW g \in Live(v)', f.name = g.name
      PROVE  f.rows = g.rows /\ (f.vector = g.vector => f.dead = g.dead)
  <2>1. \A w \in 0..LastVersion + 1 : w = LastVersion + 1 \/ w \in 0..LastVersion
    BY CommitIs DEF LogInv
  <2>2. CASE u = LastVersion + 1 /\ v = LastVersion + 1
    BY <2>2, <1>3, <1>4, CommitIs DEF LogInv
  <2>3. CASE u = LastVersion + 1 /\ v \in 0..LastVersion
    BY <2>3, <1>2, <1>4, CommitIs DEF LogInv
  <2>4. CASE u \in 0..LastVersion /\ v = LastVersion + 1
    BY <2>4, <1>2, <1>4, CommitIs DEF LogInv
  <2>5. CASE u \in 0..LastVersion /\ v \in 0..LastVersion
    BY <2>5, <1>1, <1>4, CommitIs DEF LogInv, NamesStand
  <2> QED  BY <2>1, <2>2, <2>3, <2>4, <2>5
<1> QED  BY <1>4, CommitIs DEF LogInv, NamesStand

\* Each row is in one file of the version a commit makes.
LEMMA CommitEachOnce ==
    ASSUME NEW o \in Op, Typed, LogInv, PlanInv, Commit(o)
    PROVE  EachOnce'
<1>1. /\ FilesTyped /\ RowsInserted /\ EachOnce /\ base[o] \in 0..LastVersion /\ pc[o] = "commit"
      /\ Kind(o) \in JobKinds
  BY CommitIs DEF LogInv
<1>2. ASSUME NEW v \in 0..LastVersion + 1, NEW f \in Live(v)', NEW g \in Live(v)',
             NEW r \in f.rows \ f.dead, NEW s \in g.rows \ g.dead, r.from = s.from
      PROVE  f = g /\ r = s
  <2>1. CASE v = LastVersion + 1
    <3>1. f \in Record(o).live /\ g \in Record(o).live
      BY <2>1, CommitIs DEF LogInv
    <3> QED  BY <1>1, <1>2, <3>1, EachOnceAfter
  <2>2. CASE v \in 0..LastVersion
    BY <2>2, <1>1, <1>2, CommitIs DEF LogInv, EachOnce
  <2> QED  BY <2>1, <2>2, CommitIs DEF LogInv
<1> QED  BY <1>2, CommitIs DEF LogInv, EachOnce

\* The rows of the version a commit makes are rows, inserted by operations that are
\* done and last written by commits.
LEMMA CommitRows ==
    ASSUME NEW o \in Op, Typed, LogInv, PlanInv, Commit(o)
    PROVE  RowsTyped' /\ RowsInserted'
<1>1. /\ FilesTyped /\ RowsInserted /\ EachOnce /\ base[o] \in 0..LastVersion /\ pc[o] = "commit"
      /\ Kind(o) \in JobKinds /\ RowsTyped /\ base[o] = LastVersion /\ LastVersion \in Nat
  BY CommitIs DEF LogInv
<1>2. \A m \in matched[o] : RowRecord(m) /\ m \in Visible(Live(base[o]))
  BY <1>1, RowsBefore
<1>3. ASSUME NEW r \in NewRows(o, matched[o])
      PROVE  /\ r \in Row /\ r.by = o
             /\ r.from \in Op => r.from = o \/ pc[r.from] = "done"
             /\ r = Inserted(o) => Kind(o) # "optimize"
  <2>1. /\ RowRecord(r) /\ r.by = o
        /\ r = Inserted(o)
           \/ \E m \in matched[o] : r = [m EXCEPT !.by = o] /\ r.from = m.from /\ r.key = m.key
    BY <1>2, NewRowsAre
  <2>2. CASE r = Inserted(o)
    <3>1. r \in Row /\ r.from = o
      BY <2>2 DEF Row, Inserted
    <3>2. Kind(o) # "optimize"
      BY <1>1 DEF NewRows, Kind, PlanInv, PlanOf, RowKinds
    <3> QED  BY <2>1, <3>1, <3>2
  <2>3. CASE r # Inserted(o)
    <3>1. PICK m \in matched[o] : r.from = m.from /\ r.key = m.key
      BY <2>1, <2>3
    <3>2. m \in Row /\ m \in Visible(Live(base[o]))
      BY <1>1, <1>2 DEF RowsTyped
    <3>3. r \in Row
      BY <2>1, <3>1, <3>2 DEF Row, RowRecord
    <3>4. r.from \in Op => pc[r.from] = "done"
      BY <1>1, <3>1, <3>2 DEF RowsInserted
    <3> QED  BY <2>1, <2>3, <3>3, <3>4
  <2> QED  BY <2>2, <2>3
<1>4. \A p \in Op : pc[p] = "done" => pc'[p] = "done"
  BY CommitIs DEF LogInv
<1>5. \A r \in NewRows(o, matched[o]) : r.from = o => pc'[o] = "done"
  <2>1. Kind(o) = "optimize" => NewRows(o, matched[o]) = {}
    BY DEF NewRows, Kind
  <2> QED  BY <2>1, CommitIs DEF LogInv
<1>6. ASSUME NEW v \in 0..LastVersion + 1, NEW r \in Visible(Live(v)')
      PROVE  /\ r \in Row
             /\ r.from \in Op => pc'[r.from] = "done"
             /\ r.by \in Op => \E x \in 1..v : log'[x].by = r.by
  <2>1. v = LastVersion + 1 \/ v \in 0..LastVersion
    BY <1>1
  <2>2. ASSUME NEW w \in 0..LastVersion, NEW s \in Visible(Live(w))
        PROVE  /\ s \in Row
               /\ s.from \in Op => pc'[s.from] = "done"
               /\ s.by \in Op => \E x \in 1..w : log'[x].by = s.by
    <3>1. s \in Row /\ (s.from \in Op => pc'[s.from] = "done")
      BY <1>1, <1>4 DEF RowsTyped, RowsInserted
    <3>2. s.by \in Op => \E x \in 1..w : log[x].by = s.by
      BY <1>1 DEF RowsInserted
    <3>3. \A x \in 1..w : log'[x] = log[x]
      BY <1>1, CommitIs DEF LogInv
    <3> QED  BY <3>1, <3>2, <3>3
  <2>3. CASE v \in 0..LastVersion
    BY <2>2, <2>3, CommitIs DEF LogInv
  <2>4. CASE v = LastVersion + 1
    <3>1. r \in Visible(Record(o).live)
      BY <2>4, CommitIs DEF LogInv
    <3>2. r \in Visible(Live(LastVersion)) \/ r \in NewRows(o, matched[o])
      BY <1>1, <3>1, RowsAfter
    <3>3. CASE r \in Visible(Live(LastVersion))
      <4>1. /\ r \in Row
            /\ r.from \in Op => pc'[r.from] = "done"
            /\ r.by \in Op => \E x \in 1..LastVersion : log'[x].by = r.by
        BY <1>1, <2>2, <3>3
      <4>2. 1..LastVersion \subseteq 1..v
        BY <1>1, <2>4
      <4> QED  BY <4>1, <4>2
    <3>4. CASE r \in NewRows(o, matched[o])
      <4>1. log'[v].by = o /\ v \in 1..v
        <5>1. log'[v] = Record(o)
          BY <2>4, CommitIs DEF LogInv
        <5> QED  BY <1>1, <2>4, <5>1 DEF Record
      <4> QED  BY <1>3, <1>4, <1>5, <3>4, <4>1
    <3> QED  BY <3>2, <3>3, <3>4
  <2> QED  BY <2>1, <2>3, <2>4
<1>7. Row' = Row
  <2>1. job' = job
    BY CommitIs DEF LogInv
  <2> QED  BY <2>1 DEF Row
<1>8. LastVersion' = LastVersion + 1
  BY CommitIs DEF LogInv
<1>9. RowsTyped'
  BY <1>6, <1>7, <1>8 DEF RowsTyped
<1>10. RowsInserted'
  BY <1>6, <1>8 DEF RowsInserted
<1> QED  BY <1>9, <1>10

\* Only OPTIMIZE commits more than once.
LEMMA CommitCommits ==
    ASSUME NEW o \in Op, Typed, LogInv, PlanInv, Commit(o)
    PROVE  CommitsInv'
<1>1. CommitsInv /\ IsLog /\ LastVersion \in Nat /\ LastVersion' = LastVersion + 1 /\ pc[o] = "commit"
  BY CommitIs DEF LogInv
<1>2. \A p : Kind(p)' = Kind(p)
  BY <1>1, CommitIs DEF Kind
<1>3. \A p \in Op : pc[p] = "done" => pc'[p] = "done"
  BY <1>1, CommitIs
<1>4. \A x \in 1..LastVersion : log'[x] = log[x] /\ (Kind(log[x].by) # "optimize" => log[x].by # o)
  BY <1>1, CommitIs DEF CommitsInv
<1>5. \A x : x = LastVersion + 1 => /\ log'[x].by = o /\ log'[x].read \in 0..x-1
                                    /\ log'[x].blind = (Kind(o) = "append")
                                    /\ Kind(o) # "optimize" => pc'[o] = "done"
  <2>1. \A x : x = LastVersion + 1 => log'[x] = Record(o)
    BY <1>1, CommitIs
  <2>2. Record(o).by = o /\ Record(o).read = read[o] /\ Record(o).blind = (Kind(o) = "append")
    BY DEF Record, Kind
  <2>3. Kind(o) # "optimize" => pc'[o] = "done"
    BY <1>1, CommitIs
  <2>4. read[o] \in 0..LastVersion
    BY DEF Typed
  <2> QED  BY <1>1, <2>1, <2>2, <2>3, <2>4
<1>6. \A x \in 1..LastVersion + 1 : x = LastVersion + 1 \/ x \in 1..LastVersion
  BY <1>1
<1>7. ASSUME NEW x \in 1..LastVersion + 1
      PROVE  /\ log'[x].by \in Op /\ log'[x].read \in 0..x-1
             /\ log'[x].blind = (Kind(log'[x].by) = "append")
             /\ Kind(log'[x].by) # "optimize" => pc'[log'[x].by] = "done"
  BY <1>1, <1>3, <1>4, <1>5, <1>6 DEF CommitsInv
<1>8. ASSUME NEW x \in 1..LastVersion + 1, NEW w \in 1..LastVersion + 1,
             log'[x].by = log'[w].by, Kind(log'[x].by) # "optimize"
      PROVE  x = w
  BY <1>1, <1>4, <1>5, <1>6, <1>8 DEF CommitsInv
<1> QED  BY <1>1, <1>2, <1>7, <1>8, Zenon DEF CommitsInv

\* The record of a commit.
LEMMA RecordIs ==
    ASSUME NEW o
    PROVE  /\ Record(o).by = o /\ Record(o).read = read[o] /\ Record(o).changed = matched[o]
           /\ Kind(o) # "optimize" => Record(o).added = Names(Adds(o))
           /\ \A f \in Adds(o) : f \in Record(o).live
BY DEF Record, Kind

\* A commit writes what its operation writes for the rows it matched, and the earlier
\* ones what they wrote.
LEMMA CommitWroteIn ==
    ASSUME NEW o \in Op, Typed, IsLog, Commit(o)
    PROVE  /\ \A w \in 1..LastVersion : WroteIn(w)' = WroteIn(w)
           /\ \A n : n = LastVersion + 1 => WroteIn(n)' = NewRows(o, matched[o])
<1>1. ASSUME NEW p, NEW rows PROVE NewRows(p, rows)' = NewRows(p, rows)
  BY CommitIs, NewRowsStay
<1>2. ASSUME NEW w \in 1..LastVersion PROVE WroteIn(w)' = WroteIn(w)
  <2>1. PICK c : c = log[w]
    OBVIOUS
  <2>2. log'[w] = c
    BY <2>1, CommitIs
  <2>3. WroteIn(w)' = NewRows(c.by, c.changed)'
    BY <2>2 DEF WroteIn
  <2> QED  BY <1>1, <2>1, <2>3 DEF WroteIn
<1>3. ASSUME NEW n, n = LastVersion + 1 PROVE WroteIn(n)' = NewRows(o, matched[o])
  <2>1. PICK c : c = log'[n]
    OBVIOUS
  <2>2. c.by = o /\ c.changed = matched[o]
    BY <1>3, <2>1, CommitIs, RecordIs
  <2>3. WroteIn(n)' = NewRows(c.by, c.changed)'
    BY <2>1 DEF WroteIn
  <2> QED  BY <1>1, <2>2, <2>3
<1> QED  BY <1>2, <1>3

\* Each row of the version a commit makes was there or came with a commit.
LEMMA CommitOrigin ==
    ASSUME NEW o \in Op, Typed, LogInv, PlanInv, Commit(o)
    PROVE  Origin'
<1>1. /\ FilesTyped /\ RowsInserted /\ EachOnce /\ base[o] \in 0..LastVersion /\ pc[o] = "commit"
      /\ Kind(o) \in JobKinds /\ base[o] = LastVersion /\ LastVersion \in Nat /\ IsLog /\ Origin
      /\ LastVersion' = LastVersion + 1
  BY CommitIs DEF LogInv
<1>2. ASSUME NEW a \in 0..LastVersion + 1, NEW b \in 0..LastVersion + 1, a <= b, NEW r \in Visible(Live(b)')
      PROVE  r \in Visible(Live(a)') \/ \E w \in a+1..b : r \in WroteIn(w)'
  <2>1. CASE b \in 0..LastVersion
    <3>1. a \in 0..LastVersion /\ Live(a)' = Live(a) /\ Live(b)' = Live(b)
      BY <1>1, <1>2, <2>1, CommitIs
    <3>2. \A w \in a+1..b : WroteIn(w)' = WroteIn(w)
      BY <1>1, <2>1, CommitWroteIn
    <3>3. r \in Visible(Live(a)) \/ \E w \in a+1..b : r \in WroteIn(w)
      BY <1>1, <1>2, <2>1, <3>1 DEF Origin
    <3> QED  BY <3>1, <3>2, <3>3
  <2>2. CASE a = LastVersion + 1
    <3>1. a = b
      BY <1>1, <1>2, <2>2
    <3> QED  BY <1>2, <3>1
  <2>3. CASE a \in 0..LastVersion /\ b = LastVersion + 1
    <3>1. r \in Visible(Record(o).live)
      BY <1>1, <1>2, <2>3, CommitIs
    <3>2. r \in Visible(Live(LastVersion)) \/ r \in NewRows(o, matched[o])
      BY <1>1, <3>1, RowsAfter
    <3>3. CASE r \in NewRows(o, matched[o])
      <4>1. r \in WroteIn(b)' /\ b \in a+1..b
        BY <1>1, <2>3, <3>3, CommitWroteIn
      <4> QED  BY <4>1
    <3>4. CASE r \in Visible(Live(LastVersion))
      <4>1. r \in Visible(Live(a)) \/ \E w \in a+1..LastVersion : r \in WroteIn(w)
        BY <1>1, <2>3, <3>4 DEF Origin
      <4>2. Live(a)' = Live(a) /\ \A w \in a+1..LastVersion : WroteIn(w)' = WroteIn(w) /\ w \in a+1..b
        BY <1>1, <2>3, CommitIs, CommitWroteIn
      <4> QED  BY <4>1, <4>2
    <3> QED  BY <3>2, <3>3, <3>4
  <2> QED  BY <1>1, <2>1, <2>2, <2>3
<1> QED  BY <1>1, <1>2 DEF Origin

\* The rows a commit writes are in its new file.
LEMMA CommitWritten ==
    ASSUME NEW o \in Op, Typed, LogInv, PlanInv, Commit(o)
    PROVE  Written'
<1>1. /\ FilesTyped /\ RowsInserted /\ EachOnce /\ base[o] \in 0..LastVersion /\ pc[o] = "commit"
      /\ Kind(o) \in JobKinds /\ base[o] = LastVersion /\ LastVersion \in Nat /\ IsLog /\ Written
      /\ LastVersion' = LastVersion + 1
  BY CommitIs DEF LogInv
<1>2. ASSUME NEW w \in 1..LastVersion + 1, NEW r \in WroteIn(w)'
      PROVE  \E h \in Live(w)' : /\ h.name \in log'[w].added /\ r \in h.rows
                                 /\ \A a \in 0..w-1 : h.name \notin Names(Live(a)')
  <2>1. CASE w \in 1..LastVersion
    <3>1. /\ WroteIn(w)' = WroteIn(w) /\ log'[w] = log[w] /\ Live(w)' = Live(w)
          /\ \A a \in 0..w-1 : Live(a)' = Live(a)
      BY <1>1, <2>1, CommitIs, CommitWroteIn
    <3>2. PICK h \in Live(w) : /\ h.name \in log[w].added /\ r \in h.rows
                               /\ \A a \in 0..w-1 : h.name \notin Names(Live(a))
      BY <1>1, <1>2, <2>1, <3>1 DEF Written
    <3> QED  BY <3>1, <3>2
  <2>2. CASE w = LastVersion + 1
    <3>1. /\ WroteIn(w)' = NewRows(o, matched[o]) /\ log'[w] = Record(o) /\ Live(w)' = Record(o).live
          /\ \A a \in 0..w-1 : Live(a)' = Live(a) /\ a \in 0..LastVersion
      BY <1>1, <2>2, CommitIs, CommitWroteIn
    <3>2. r \in NewRows(o, matched[o])
      BY <1>2, <3>1
    <3>3. Kind(o) # "optimize" /\ r \in Content(o)
      BY <3>2 DEF NewRows, Kind, Content
    <3>4. Fresh(o) \in Adds(o)
      BY <1>1, <3>3, AddsAre DEF LogInv
    <3>5. Fresh(o).name = <<o, writes[o]>> /\ r \in Fresh(o).rows
      BY <3>3 DEF Fresh
    <3>6. Fresh(o) \in Record(o).live /\ Fresh(o).name \in Record(o).added
      BY <3>3, <3>4, RecordIs, InNames
    <3>7. \A a \in 0..LastVersion : <<o, writes[o]>> \notin Names(Live(a))
      BY <1>1, NameIsNew, InNames
    <3>8. \A a \in 0..w-1 : Fresh(o).name \notin Names(Live(a)')
      BY <3>1, <3>5, <3>7
    <3> QED  BY <3>1, <3>5, <3>6, <3>8
  <2> QED  BY <1>1, <2>1, <2>2
<1> QED  BY <1>1, <1>2 DEF Written

\* The version a commit makes is the one before with its operation applied.
LEMMA CommitEffect ==
    ASSUME NEW o \in Op, Typed, LogInv, PlanInv, Commit(o)
    PROVE  EffectExact'
<1>1. /\ FilesTyped /\ RowsInserted /\ EachOnce /\ base[o] \in 0..LastVersion /\ pc[o] = "commit"
      /\ Kind(o) \in JobKinds /\ base[o] = LastVersion /\ LastVersion \in Nat /\ IsLog /\ EffectExact
      /\ LastVersion' = LastVersion + 1
  BY CommitIs DEF LogInv
<1>2. ASSUME NEW v \in 1..LastVersion + 1
      PROVE  /\ log'[v].changed \subseteq Visible(Live(v - 1)')
             /\ Visible(Live(v)') = (Visible(Live(v - 1)') \ log'[v].changed) \cup WroteIn(v)'
  <2>1. CASE v \in 1..LastVersion
    <3>1. Live(v)' = Live(v) /\ log'[v] = log[v] /\ WroteIn(v)' = WroteIn(v)
      BY <1>1, <2>1, CommitIs, CommitWroteIn
    <3>2. PICK u : u = v - 1 /\ u \in 0..LastVersion
      BY <1>1, <2>1
    <3>3. Live(u)' = Live(u)
      BY <1>1, <3>2, CommitIs
    <3>4. /\ log[v].changed \subseteq Visible(Live(u))
          /\ Visible(Live(v)) = (Visible(Live(u)) \ log[v].changed) \cup WroteIn(v)
      BY <1>1, <2>1, <3>2 DEF EffectExact, WroteIn
    <3> QED  BY <3>1, <3>2, <3>3, <3>4
  <2>2. CASE v = LastVersion + 1
    <3>1. /\ WroteIn(v)' = NewRows(o, matched[o]) /\ Live(v)' = Record(o).live /\ log'[v] = Record(o)
      BY <1>1, <2>2, CommitIs, CommitWroteIn
    <3>2. PICK u : u = v - 1 /\ u = LastVersion
      BY <1>1, <2>2
    <3>3. Live(u)' = Live(base[o])
      BY <1>1, <3>2, CommitIs
    <3>4. Record(o).changed = matched[o]
      BY RecordIs
    <3>5. matched[o] \subseteq Visible(Live(base[o]))
      BY <1>1, RowsBefore
    <3>6. \A r : r \in Visible(Record(o).live)
                   <=> (r \in Visible(Live(base[o])) /\ r \notin matched[o]) \/ r \in NewRows(o, matched[o])
      BY <1>1, RowsAfter
    <3> QED  BY <3>1, <3>2, <3>3, <3>4, <3>5, <3>6
  <2> QED  BY <1>1, <2>1, <2>2
<1>3. ASSUME NEW v \in 1..LastVersion + 1
      PROVE  /\ log'[v].changed \subseteq Visible(Live(v - 1)')
             /\ Visible(Live(v)') = (Visible(Live(v - 1)') \ log'[v].changed)
                                      \cup NewRows(log[v].by, log[v].changed)'
  BY <1>2 DEF WroteIn
<1> QED  BY <1>1, <1>3 DEF EffectExact

\* What an operation matches depends on its job only.
LEMMA MatchesStay ==
    ASSUME job' = job, NEW p, NEW r
    PROVE  Matches(p, r)' = Matches(p, r)
BY DEF Matches

\* The blind appends between two versions are in the log for good.
LEMMA CommitLate ==
    ASSUME NEW o \in Op, Typed, IsLog, Commit(o), NEW u \in 0..LastVersion, NEW v \in 0..LastVersion
    PROVE  Late(u, v)' = Late(u, v)
<1>1. \A x \in u+1..v : x \in 1..LastVersion
  <2>1. LastVersion \in Nat
    BY CommitIs
  <2> QED  BY <2>1
<1>2. \A x \in u+1..v : log'[x] = log[x]
  BY <1>1, CommitIs
<1> QED  BY <1>2 DEF Late

\* What the operation of version v would have matched at its place in the log.
Found(v) ==
    {r \in Visible(Live(v - 1)) :
        Matches(log[v].by, r) /\ (serial \/ r.by \notin Late(log[v].read, v - 1))}

\* ReadsHold says that it is what the operation changed.
LEMMA ReadsHoldIs ==
    ReadsHold <=> \A v \in 1..LastVersion : Kind(log[v].by) \in RowKinds => Found(v) = log[v].changed
BY DEF ReadsHold, Found, Late, Kind

\* An operation commits the change it would have made on the version it commits on.
LEMMA CommitReads ==
    ASSUME NEW o \in Op, Typed, LogInv, PlanInv, ReadInv, Commit(o)
    PROVE  ReadsHold'
<1>1. /\ base[o] \in 0..LastVersion /\ pc[o] = "commit" /\ base[o] = LastVersion /\ LastVersion \in Nat
      /\ IsLog /\ CommitsInv /\ LastVersion' = LastVersion + 1 /\ job' = job /\ serial' = serial
  BY CommitIs DEF LogInv
<1>2. \A p, r : Matches(p, r)' = Matches(p, r)
  BY <1>1, MatchesStay
<1>3. \A p : Kind(p)' = Kind(p)
  BY <1>1 DEF Kind
<1>4. ASSUME NEW v \in 1..LastVersion + 1, Kind(log'[v].by) \in RowKinds PROVE Found(v)' = log'[v].changed
  <2>1. PICK u : u = v - 1 /\ u \in 0..LastVersion
    BY <1>1
  <2>2. PICK c : c = log'[v]
    OBVIOUS
  <2>3. PICK d : d = c.read
    OBVIOUS
  <2>4. Found(v)' = {r \in Visible(Live(u)') : Matches(c.by, r)' /\ (serial' \/ r.by \notin Late(d, u)')}
    BY <2>1, <2>2, <2>3 DEF Found
  <2>5. d \in 0..LastVersion => /\ Late(d, u)' = Late(d, u)
                                /\ Live(u)' = Live(u)
    BY <1>1, <2>1, CommitIs, CommitLate
  <2>6. CASE v \in 1..LastVersion
    <3>1. c = log[v] /\ d \in 0..LastVersion
      BY <1>1, <2>2, <2>3, <2>6, CommitIs DEF CommitsInv
    <3>2. Found(v)' = {r \in Visible(Live(u)) : Matches(c.by, r) /\ (serial \/ r.by \notin Late(d, u))}
      BY <1>1, <1>2, <2>4, <2>5, <3>1
    <3>3. Found(v) = {r \in Visible(Live(u)) : Matches(c.by, r) /\ (serial \/ r.by \notin Late(d, u))}
      BY <2>1, <2>3, <3>1 DEF Found
    <3>4. Found(v) = c.changed
      BY <1>4, <2>2, <2>6, <3>1, ReadsHoldIs DEF LogInv
    <3> QED  BY <2>2, <3>2, <3>3, <3>4
  <2>7. CASE v = LastVersion + 1
    <3>1. c = Record(o) /\ u = base[o]
      BY <1>1, <2>1, <2>2, <2>7, CommitIs
    <3>2. c.by = o /\ c.changed = matched[o] /\ d = read[o] /\ d \in 0..LastVersion
      BY <2>3, <3>1, RecordIs DEF Typed
    <3>3. Found(v)' = {r \in Visible(Live(u)) : Matches(o, r) /\ (serial \/ r.by \notin Late(d, u))}
      BY <1>1, <1>2, <2>4, <2>5, <3>2
    <3>4. Match(o, base[o]) = {r \in Visible(Live(u)) : Matches(o, r) /\ (serial \/ r.by \notin Late(d, u))}
      BY <3>1, <3>2 DEF Match
    <3>5. matched[o] = Match(o, base[o])
      BY <1>1, <1>4, <2>2, <3>2 DEF ReadInv, ReadOf, Planned
    <3> QED  BY <2>2, <3>2, <3>3, <3>4, <3>5
  <2> QED  BY <1>1, <2>6, <2>7
<1>5. \A v \in 1..LastVersion' : Kind(log[v].by)' \in RowKinds => Found(v)' = log'[v].changed
  BY <1>1, <1>3, <1>4 DEF Kind
<1>6. ReadsHold' <=> \A v \in 1..LastVersion' : Kind(log[v].by)' \in RowKinds => Found(v)' = log'[v].changed
  BY DEF ReadsHold, Found, Late, Kind
<1> QED  BY <1>5, <1>6

-----------------------------------------------------------------------------
(* What every step keeps. *)

\* Finishing and going on, where an operation may.
LEMMA Moves ==
    ASSUME NEW o \in Op, Typed
    PROVE  /\ \A l \in {"read", "stage", "commit", "rebase", "done"} : Goto(o, l) =>
                 /\ pc' \in [Op -> {"read", "stage", "commit", "rebase", "done"}]
                 /\ result' \in [Op -> {"none", "nothing", "committed", "done", "conflict", "metadata", "unknown"}]
                 /\ pc'[o] = l /\ \A p \in Op \ {o} : pc'[p] = pc[p]
           /\ \A r \in {"nothing", "committed", "done", "conflict", "metadata", "unknown"} : Finish(o, r) =>
                 /\ pc' \in [Op -> {"read", "stage", "commit", "rebase", "done"}]
                 /\ result' \in [Op -> {"none", "nothing", "committed", "done", "conflict", "metadata", "unknown"}]
                 /\ pc'[o] = "done" /\ \A p \in Op \ {o} : pc'[p] = pc[p]
BY DEF Goto, Finish, Typed

\* A step of an operation leaves the others' places and plans alone, and only a
\* commit adds a version.
StepKeeps(o) ==
    /\ UNCHANGED <<job, mode, serial>>
    /\ pc[o] # "done"
    /\ pc' \in [Op -> {"read", "stage", "commit", "rebase", "done"}]
    /\ result' \in [Op -> {"none", "nothing", "committed", "done", "conflict", "metadata", "unknown"}]
    /\ \A p \in Op \ {o} :
          /\ pc'[p] = pc[p] /\ writes'[p] = writes[p]
          /\ read'[p] = read[p] /\ base'[p] = base[p]
          /\ matched'[p] = matched[p] /\ touched'[p] = touched[p]

\* Reading at a version sets the operation's own plan.
LEMMA ReadAtIs ==
    ASSUME NEW o \in Op, Typed, NEW v \in 0..LastVersion, ReadAt(o, v)
    PROVE  /\ pc' \in [Op -> {"read", "stage", "commit", "rebase", "done"}]
           /\ result' \in [Op -> {"none", "nothing", "committed", "done", "conflict", "metadata", "unknown"}]
           /\ pc'[o] \in {"stage", "done"} /\ \A p \in Op \ {o} : pc'[p] = pc[p]
           /\ read' = [read EXCEPT ![o] = v] /\ base' = [base EXCEPT ![o] = v]
           /\ DOMAIN matched' = Op /\ DOMAIN touched' = Op
           /\ \A p \in Op \ {o} : matched'[p] = matched[p] /\ touched'[p] = touched[p]
           /\ matched'[o] = {r \in Visible(Live(v)) : Matches(o, r)}
           /\ \A f \in Live(v) : \A r \in f.rows : r \notin f.dead /\ Matches(o, r) => f.name \in touched'[o]
<1> DEFINE rows == {r \in Visible(Live(v)) : Matches(o, r)}
           hit == {f \in Live(v) : (f.rows \ f.dead) \cap rows # {}}
<1>1. /\ read' = [read EXCEPT ![o] = v] /\ base' = [base EXCEPT ![o] = v]
      /\ matched' = [matched EXCEPT ![o] = rows]
      /\ touched' = [touched EXCEPT ![o] = Names(IF mode = "table" THEN Live(v) ELSE hit)]
      /\ Finish(o, "nothing") \/ Goto(o, "stage")
  BY DEF ReadAt
<1>2. \A f \in Live(v) : \A r \in f.rows : r \notin f.dead /\ Matches(o, r) => f \in hit
  BY InVisible
<1>3. \A f \in Live(v) : \A r \in f.rows : r \notin f.dead /\ Matches(o, r) =>
           f.name \in Names(IF mode = "table" THEN Live(v) ELSE hit)
  BY <1>2, InNames
<1> HIDE DEF rows, hit
<1>4. /\ DOMAIN matched' = Op /\ DOMAIN touched' = Op /\ matched'[o] = rows
      /\ touched'[o] = Names(IF mode = "table" THEN Live(v) ELSE hit)
      /\ \A p \in Op \ {o} : matched'[p] = matched[p] /\ touched'[p] = touched[p]
  BY <1>1 DEF Typed
<1> QED  BY <1>1, <1>3, <1>4, Moves DEF rows

\* Every step is one of an operation that is not done.
LEMMA StepIs ==
    ASSUME NEW o \in Op, Typed, IsLog, Step(o)
    PROVE  StepKeeps(o)
<1>1. LastVersion \in Nat /\ base[o] \in 0..LastVersion
  BY DEF IsLog, LastVersion, Typed
<1>2. CASE ReadRows(o)
  <2>1. PICK v \in 0..LastVersion : ReadAt(o, v)
    BY <1>1, <1>2 DEF ReadRows
  <2>2. UNCHANGED <<job, mode, serial, writes>> /\ pc[o] = "read"
    BY <1>2 DEF ReadRows, choice
  <2> QED  BY <2>1, <2>2, ReadAtIs DEF StepKeeps, Typed
<1>3. CASE ReadNothing(o)
  <2>1. Goto(o, "stage") /\ UNCHANGED <<job, mode, serial, writes, matched, touched>> /\ pc[o] = "read"
    BY <1>3 DEF ReadNothing, choice
  <2>2. read' = [read EXCEPT ![o] = LastVersion] /\ base' = [base EXCEPT ![o] = LastVersion]
    BY <1>3 DEF ReadNothing
  <2> QED  BY <2>1, <2>2, Moves DEF StepKeeps, Typed
<1>4. CASE PlanCompaction(o)
  <2>1. UNCHANGED <<job, mode, serial, writes>> /\ pc[o] = "read"
    BY <1>4 DEF PlanCompaction, choice
  <2>2. CASE Finish(o, "done") /\ UNCHANGED plan
    BY <2>1, <2>2, Moves DEF StepKeeps, plan
  <2>3. CASE Finish(o, "conflict") /\ UNCHANGED plan
    BY <2>1, <2>3, Moves DEF StepKeeps, plan
  <2>4. CASE \E b \in Bins(o, LastVersion) :
                 /\ read' = [read EXCEPT ![o] = LastVersion]
                 /\ base' = [base EXCEPT ![o] = LastVersion]
                 /\ touched' = [touched EXCEPT ![o] = Names(b)]
                 /\ UNCHANGED matched
                 /\ Goto(o, "stage")
    BY <2>1, <2>4, Moves DEF StepKeeps, Typed
  <2> QED  BY <1>4, <2>2, <2>3, <2>4 DEF PlanCompaction
<1>5. CASE StageFiles(o)
  <2>1. UNCHANGED <<job, mode, serial, read, base, matched, touched>> /\ pc[o] = "stage" /\ Goto(o, "commit")
    BY <1>5 DEF StageFiles, choice, plan
  <2>2. writes' = [writes EXCEPT ![o] = @ + 1]
    BY <1>5 DEF StageFiles
  <2> QED  BY <2>1, <2>2, Moves DEF StepKeeps, Typed
<1>6. CASE Commit(o)
  <2>1. pc[o] = "commit" /\ (Goto(o, "read") \/ Finish(o, "committed") \/ Finish(o, "unknown"))
    BY <1>6 DEF Commit
  <2> QED  BY <1>6, <2>1, Moves, CommitIs DEF StepKeeps
<1>7. CASE Lose(o)
  <2>1. /\ UNCHANGED <<job, mode, serial, read, base, matched, touched, writes>> /\ pc[o] = "commit"
        /\ Finish(o, "conflict") \/ Goto(o, "rebase")
    BY <1>7 DEF Lose, choice, plan
  <2> QED  BY <2>1, Moves DEF StepKeeps
<1>8. CASE Rebase(o)
  <2>1. UNCHANGED <<job, mode, serial, writes>> /\ pc[o] = "rebase"
    BY <1>8 DEF Rebase, choice
  <2>2. CASE ReadAt(o, LastVersion)
    BY <1>1, <2>1, <2>2, ReadAtIs DEF StepKeeps, Typed
  <2>3. CASE base' = [base EXCEPT ![o] = LastVersion] /\ Goto(o, "stage") /\ UNCHANGED <<read, matched, touched>>
    BY <2>1, <2>3, Moves DEF StepKeeps, Typed
  <2> QED  BY <1>8, <2>2, <2>3 DEF Rebase
<1>9. CASE RefuseRebase(o)
  <2>1. /\ UNCHANGED <<job, mode, serial, read, base, matched, touched, writes>> /\ pc[o] = "rebase"
        /\ Goto(o, "read") \/ Finish(o, "metadata") \/ Finish(o, "conflict")
    BY <1>9 DEF RefuseRebase, choice, plan
  <2> QED  BY <2>1, Moves DEF StepKeeps
<1>10. CASE Restage(o)
  <2>1. /\ UNCHANGED <<job, mode, serial, read, base, matched, touched, writes>> /\ pc[o] = "rebase"
        /\ Goto(o, "read") \/ Finish(o, "conflict")
    BY <1>10 DEF Restage, choice, plan
  <2> QED  BY <2>1, Moves DEF StepKeeps
<1> QED  BY <1>2, <1>3, <1>4, <1>5, <1>6, <1>7, <1>8, <1>9, <1>10 DEF Step

\* Only a commit changes the log.
LEMMA LogStays ==
    ASSUME NEW o \in Op, Step(o)
    PROVE  Commit(o) \/ log' = log
BY DEF Step, ReadRows, ReadNothing, PlanCompaction, StageFiles, Lose, Rebase, RefuseRebase, Restage

\* The versions there are stay as they are.
LEMMA VersionsStay ==
    ASSUME NEW o \in Op, Typed, IsLog, Step(o)
    PROVE  /\ LastVersion \in Nat /\ LastVersion' \in Nat /\ LastVersion <= LastVersion'
           /\ \A v \in 1..LastVersion : log'[v] = log[v]
           /\ \A v \in 0..LastVersion : Live(v)' = Live(v)
<1>1. CASE Commit(o)
  BY <1>1, CommitIs
<1>2. CASE log' = log
  BY <1>2 DEF IsLog, LastVersion, Live
<1> QED  BY <1>1, <1>2, LogStays

\* A step keeps the types.
LEMMA StepTyped ==
    ASSUME NEW o \in Op, Typed, IsLog, Step(o)
    PROVE  Typed'
<1>1. StepKeeps(o) /\ LastVersion \in Nat /\ LastVersion' \in Nat /\ LastVersion <= LastVersion'
  BY StepIs, VersionsStay
<1>2. /\ job' \in Jobs /\ serial' \in BOOLEAN
      /\ pc' \in [Op -> {"read", "stage", "commit", "rebase", "done"}]
      /\ result' \in [Op -> {"none", "nothing", "committed", "done", "conflict", "metadata", "unknown"}]
  BY <1>1 DEF Typed, StepKeeps
<1>3. ASSUME NEW v \in 0..LastVersion, ReadAt(o, v)
      PROVE  read' \in [Op -> 0..LastVersion] /\ base' \in [Op -> 0..LastVersion] /\ DOMAIN matched' = Op /\ DOMAIN touched' = Op
  BY SMTT(30), <1>3, ReadAtIs DEF Typed
<1>4. /\ read' \in [Op -> 0..LastVersion] /\ base' \in [Op -> 0..LastVersion]
      /\ DOMAIN matched' = Op /\ DOMAIN touched' = Op
  <2>1. CASE ReadRows(o)
    BY <2>1, <1>1, <1>3 DEF ReadRows, Typed
  <2>2. CASE ReadNothing(o)
    BY <2>2, <1>1 DEF ReadNothing, Typed
  <2>3. CASE PlanCompaction(o)
    <3>1. CASE UNCHANGED plan
      BY <3>1 DEF plan, Typed
    <3>2. CASE \E b \in Bins(o, LastVersion) :
                 /\ read' = [read EXCEPT ![o] = LastVersion]
                 /\ base' = [base EXCEPT ![o] = LastVersion]
                 /\ touched' = [touched EXCEPT ![o] = Names(b)]
                 /\ UNCHANGED matched
      BY <3>2, <1>1 DEF Typed
    <3> QED  BY <2>3, <3>1, <3>2 DEF PlanCompaction
  <2>4. CASE StageFiles(o) \/ Commit(o) \/ Lose(o) \/ RefuseRebase(o) \/ Restage(o)
    <3>1. UNCHANGED plan
      BY <2>4 DEF StageFiles, Commit, Lose, RefuseRebase, Restage
    <3> QED  BY <3>1 DEF plan, Typed
  <2>5. CASE Rebase(o)
    <3>1. CASE ReadAt(o, LastVersion)
      BY <3>1, <1>1, <1>3
    <3>2. CASE base' = [base EXCEPT ![o] = LastVersion] /\ UNCHANGED <<read, matched, touched>>
      BY <3>2, <1>1 DEF Typed
    <3> QED  BY <2>5, <3>1, <3>2 DEF Rebase
  <2> QED  BY <2>1, <2>2, <2>3, <2>4, <2>5 DEF Step
<1>5. read' \in [Op -> 0..LastVersion'] /\ base' \in [Op -> 0..LastVersion']
  <2>1. 0..LastVersion \subseteq 0..LastVersion'
    BY <1>1
  <2> QED  BY <1>4, <2>1
<1>6. writes' \in [Op -> Nat]
  <2>1. CASE StageFiles(o)
    BY <2>1 DEF StageFiles, Typed
  <2>2. CASE ~StageFiles(o)
    <3>1. UNCHANGED writes
      BY <2>2 DEF Step, ReadRows, ReadNothing, PlanCompaction, Commit, Lose, Rebase, RefuseRebase, Restage
    <3> QED  BY <3>1 DEF Typed
  <2> QED  BY <2>1, <2>2
<1>7. /\ tries' \in [Op -> 0..(Retries + 1)]
      /\ \A p \in Op : pc'[p] # "done" => tries'[p] <= Retries
  <2>1. CASE Lose(o)
    <3>1. tries[o] \in 0..Retries /\ Retries \in Nat
      BY <1>1, ConstantsAssumption DEF Typed, StepKeeps
    <3>2. tries' = [tries EXCEPT ![o] = tries[o] + 1]
      BY <2>1 DEF Lose
    <3>3. tries'[o] = tries[o] + 1 /\ \A p \in Op \ {o} : tries'[p] = tries[p]
      BY <3>2 DEF Typed
    <3>4. tries'[o] > Retries => pc'[o] = "done"
      BY <2>1, <3>3, Moves DEF Lose
    <3>5. tries' \in [Op -> 0..(Retries + 1)]
      BY <3>1, <3>2 DEF Typed
    <3>6. \A p \in Op \ {o} : pc'[p] = pc[p]
      BY <1>1 DEF StepKeeps
    <3> QED  BY <3>1, <3>3, <3>4, <3>5, <3>6 DEF Typed
  <2>2. CASE ~Lose(o)
    <3>1. UNCHANGED tries
      BY <2>2 DEF Step, ReadRows, ReadNothing, PlanCompaction, StageFiles, Commit, Rebase,
         RefuseRebase, Restage
    <3> QED  BY <1>1, <3>1 DEF Typed, StepKeeps
  <2> QED  BY <2>1, <2>2
<1> QED  BY <1>2, <1>4, <1>5, <1>6, <1>7 DEF Typed

\* An operation reaches its commit with a name it has just taken.
LEMMA NamesTaken ==
    ASSUME NEW o \in Op, Typed, IsLog, Step(o)
    PROVE  \/ pc'[o] # "commit" /\ writes'[o] = writes[o]
           \/ StageFiles(o) /\ writes'[o] = writes[o] + 1
<1>1. CASE StageFiles(o)
  BY <1>1 DEF StageFiles, Typed
<1>2. CASE ~StageFiles(o)
  <2>1. UNCHANGED writes
    BY <1>2 DEF Step, ReadRows, ReadNothing, PlanCompaction, Commit, Lose, Rebase, RefuseRebase, Restage
  <2>2. pc'[o] # "commit"
    <3>1. ASSUME NEW v \in 0..LastVersion, ReadAt(o, v) PROVE pc'[o] # "commit"
      BY <3>1, ReadAtIs
    <3>2. LastVersion \in 0..LastVersion
      BY VersionsStay
    <3>3. CASE ReadRows(o)
      BY <3>1, <3>2, <3>3 DEF ReadRows
    <3>4. CASE ReadNothing(o)
      BY <3>4, Moves DEF ReadNothing
    <3>5. CASE PlanCompaction(o)
      BY <3>5, Moves DEF PlanCompaction
    <3>6. CASE Commit(o)
      BY <3>6, Moves DEF Commit
    <3>7. CASE Lose(o)
      BY <3>7, Moves DEF Lose
    <3>8. CASE Rebase(o)
      BY <3>1, <3>2, <3>8, Moves DEF Rebase
    <3>9. CASE RefuseRebase(o) \/ Restage(o)
      BY <3>9, Moves DEF RefuseRebase, Restage
    <3> QED  BY <1>2, <3>3, <3>4, <3>5, <3>6, <3>7, <3>8, <3>9 DEF Step
  <2> QED  BY <2>1, <2>2
<1> QED  BY <1>1, <1>2

\* A name that is given stays so.
LEMMA GivenStays ==
    ASSUME NEW o \in Op, Typed, IsLog, Step(o), NEW n, Given(n)
    PROVE  Given(n)'
<1>1. ASSUME NEW p \in Op, NEW i \in Nat, n = <<p, i>>
      PROVE  i <= writes'[p] /\ (pc'[p] = "commit" => i # writes'[p])
  <2>1. i <= writes[p] /\ (pc[p] = "commit" => i # writes[p]) /\ writes[p] \in Nat
    BY <1>1 DEF Given, Typed
  <2>2. CASE p = o
    BY <2>1, <2>2, NamesTaken
  <2>3. CASE p # o
    BY <2>1, <2>3, StepIs DEF StepKeeps
  <2> QED  BY <2>2, <2>3
<1> QED  BY <1>1 DEF Given

\* What holds of the versions holds after every step.
LEMMA StepLogInv ==
    ASSUME NEW o \in Op, Typed, LogInv, PlanInv, ReadInv, Step(o)
    PROVE  LogInv'
<1>1. CASE Commit(o)
  BY <1>1, CommitIs, CommitFilesTyped, CommitNameOnce, CommitNamesStand, CommitEachOnce, CommitRows,
     CommitCommits, CommitOrigin, CommitWritten, CommitEffect, CommitReads DEF LogInv
<1>2. CASE log' = log
  <2>1. UNCHANGED <<job, serial>> /\ \A p \in Op : pc[p] = "done" => pc'[p] = "done"
    BY StepIs DEF StepKeeps, LogInv
  <2>2. LastVersion' = LastVersion /\ \A v : Live(v)' = Live(v)
    BY <1>2 DEF LastVersion, Live
  <2>3. FilesTyped'
    <3>1. \A n : Given(n) => Given(n)'
      BY GivenStays DEF LogInv
    <3> QED  BY <2>2, <3>1 DEF LogInv, FilesTyped, FileRecord, RowRecord
  <2>4. IsLog' /\ NameOnce' /\ NamesStand' /\ EachOnce'
    BY <1>2, <2>2 DEF LogInv, IsLog, NameOnce, NamesStand, EachOnce
  <2>5. RowsTyped'
    <3>1. Row' = Row
      BY <2>1 DEF Row
    <3> QED  BY <2>2, <3>1 DEF LogInv, RowsTyped
  <2>6. RowsInserted'
    BY <1>2, <2>1, <2>2 DEF LogInv, RowsInserted
  <2>7. CommitsInv'
    BY <1>2, <2>1, <2>2 DEF LogInv, CommitsInv, Kind
  <2>8. \A p, rows : NewRows(p, rows)' = NewRows(p, rows)
    BY <2>1, NewRowsStay
  <2>9. \A w : WroteIn(w)' = WroteIn(w)
    BY <1>2, <2>8 DEF WroteIn
  <2>10. Origin' /\ Written'
    BY <1>2, <2>2, <2>9 DEF LogInv, Origin, Written
  <2>11. EffectExact'
    BY <1>2, <2>2, <2>8 DEF LogInv, EffectExact
  <2>12. \A p, r : Matches(p, r)' = Matches(p, r)
    BY <2>1, MatchesStay
  <2>13. ReadsHold'
    BY <1>2, <2>1, <2>2, <2>12 DEF LogInv, ReadsHold
  <2> QED  BY <2>3, <2>4, <2>5, <2>6, <2>7, <2>10, <2>11, <2>13 DEF LogInv
<1> QED  BY <1>1, <1>2, LogStays

-----------------------------------------------------------------------------
(* The plans *)

\* The blind appends between two versions are in the log for good.
LEMMA LateStays ==
    ASSUME NEW o \in Op, Typed, IsLog, Step(o), NEW u \in 0..LastVersion, NEW v \in 0..LastVersion
    PROVE  Late(u, v)' = Late(u, v)
<1>1. \A x \in u+1..v : x \in 1..LastVersion
  BY VersionsStay
<1>2. \A x \in u+1..v : log'[x] = log[x]
  BY <1>1, VersionsStay
<1> QED  BY <1>2 DEF Late

\* What an operation would match at a version depends on its job and its read.
LEMMA MatchStays ==
    ASSUME NEW o \in Op, Typed, IsLog, Step(o), NEW p \in Op, read'[p] = read[p], NEW v \in 0..LastVersion
    PROVE  Match(p, v)' = Match(p, v)
<1>1. PICK u : u = read[p] /\ u \in 0..LastVersion
  BY DEF Typed
<1>2. Match(p, v) = {r \in Visible(Live(v)) : Matches(p, r) /\ (serial \/ r.by \notin Late(u, v))}
  BY <1>1 DEF Match
<1>3. Match(p, v)' = {r \in Visible(Live(v)') : Matches(p, r)' /\ (serial' \/ r.by \notin Late(u, v)')}
  BY <1>1 DEF Match
<1>4. Late(u, v)' = Late(u, v) /\ Live(v)' = Live(v) /\ job' = job /\ serial' = serial
  BY <1>1, LateStays, VersionsStay, StepIs DEF StepKeeps
<1>5. \A r : Matches(p, r)' = Matches(p, r)
  BY <1>4, MatchesStay
<1> QED  BY <1>2, <1>3, <1>4, <1>5

\* The rows the table can hold depend on the jobs only.
LEMMA RowStays ==
    ASSUME job' = job
    PROVE  Row' = Row
BY DEF Row

\* The plan of an operation that makes no new one stays.
LEMMA PlanStays ==
    ASSUME NEW o \in Op, Typed, IsLog, Step(o), NEW p \in Op, PlanOf(p), ReadOf(p),
           Planned(p)' => Planned(p) /\ read'[p] = read[p] /\ base'[p] = base[p],
           matched'[p] = matched[p], touched'[p] = touched[p]
    PROVE  PlanOf(p)' /\ ReadOf(p)'
<1>1. job' = job /\ Row' = Row /\ Kind(p)' = Kind(p)
  <2>1. job' = job
    BY StepIs DEF StepKeeps
  <2> QED  BY <2>1, RowStays DEF Kind
<1>2. PICK b : b = base[p] /\ b \in 0..LastVersion
  BY DEF Typed
<1>3. Live(b)' = Live(b)
  BY <1>2, VersionsStay
<1>4. PlanOf(p)'
  BY <1>1, <1>2, <1>3 DEF PlanOf, Planned
<1>5. ASSUME Planned(p)', Kind(p) \in RowKinds PROVE read'[p] <= base'[p] /\ matched'[p] = Match(p, base[p])'
  <2>1. read'[p] = read[p] /\ base'[p] = b /\ read[p] <= b /\ matched[p] = Match(p, b)
    BY <1>2, <1>5 DEF ReadOf
  <2>2. Match(p, b)' = Match(p, b)
    BY <1>2, <2>1, MatchStays
  <2> QED  BY <2>1, <2>2
<1> QED  BY <1>1, <1>4, <1>5 DEF ReadOf, Kind

\* What an operation reads is what it matches there.
LEMMA ReadAtPlans ==
    ASSUME NEW o \in Op, Typed, IsLog, RowsTyped, PlanOf(o), Step(o), Kind(o) \in RowKinds,
           NEW v \in 0..LastVersion, ReadAt(o, v)
    PROVE  PlanOf(o)' /\ ReadOf(o)'
<1>1. job' = job /\ serial' = serial /\ Row' = Row /\ Kind(o)' = Kind(o)
  <2>1. job' = job /\ serial' = serial
    BY StepIs DEF StepKeeps
  <2> QED  BY <2>1, RowStays DEF Kind
<1>2. base'[o] = v /\ read'[o] = v
  BY ReadAtIs DEF Typed
<1>3. PICK m, t : m = matched'[o] /\ t = touched'[o]
  OBVIOUS
<1>4. m = {r \in Visible(Live(v)) : Matches(o, r)}
  BY <1>3, ReadAtIs
<1>5. Live(v)' = Live(v)
  BY VersionsStay
<1>6. ASSUME NEW r \in m PROVE r \in Visible(Named(Live(v), t))
  <2>1. PICK f \in Live(v) : r \in f.rows /\ r \notin f.dead
    BY <1>4, <1>6, InVisible
  <2>2. f.name \in t
    BY <1>3, <1>4, <1>6, <2>1, ReadAtIs
  <2> QED  BY <2>1, <2>2, InNamed, InVisible
<1>7. m \subseteq Row
  BY <1>4 DEF RowsTyped
<1>8. PlanOf(o)'
  <2>1. Live(base[o])' = Live(v)
    BY <1>2, <1>5
  <2>2. Named(Live(base[o])', t) = Named(Live(v), t)
    BY <2>1
  <2>3. Kind(o)' \in RowKinds /\ Kind(o)' \notin {"append", "alter"}
    BY <1>1 DEF RowKinds
  <2> QED  BY <1>1, <1>3, <1>6, <1>7, <2>2, <2>3 DEF PlanOf
<1>9. Match(o, v)' = m
  <2>1. Late(v, v)' = {}
    <3>1. v+1..v = {}
      BY VersionsStay
    <3> QED  BY <3>1 DEF Late
  <2>2. Match(o, v)' = {r \in Visible(Live(v)') : Matches(o, r)' /\ (serial' \/ r.by \notin Late(v, v)')}
    BY <1>2 DEF Match
  <2>3. \A r : Matches(o, r)' = Matches(o, r)
    BY <1>1, MatchesStay
  <2> QED  BY <1>4, <1>5, <2>1, <2>2, <2>3
<1> QED  BY <1>2, <1>3, <1>8, <1>9 DEF ReadOf

\* Touched files that are live as they were read show the same rows.
LEMMA SameFiles ==
    ASSUME NEW o \in Op, Typed, LogInv, TouchedAsRead(o), NEW r,
           r \in Visible(Named(Live(base[o]), touched[o]))
    PROVE  r \in Visible(Named(Live(LastVersion), touched[o])) /\ r \in Visible(Live(LastVersion))
<1>1. PICK f \in Live(base[o]) : f.name \in touched[o] /\ r \in f.rows /\ r \notin f.dead
  BY InVisible, InNamed
<1>2. <<f.name, f.vector>> \in {<<g.name, g.vector>> : g \in Named(Live(LastVersion), touched[o])}
  <2>1. {<<g.name, g.vector>> : g \in Named(Live(LastVersion), touched[o])}
          = {<<g.name, g.vector>> : g \in Named(Live(base[o]), touched[o])}
    BY DEF TouchedAsRead
  <2>2. f \in Named(Live(base[o]), touched[o])
    BY <1>1, InNamed
  <2> QED  BY <2>1, <2>2
<1>3. PICK g \in Named(Live(LastVersion), touched[o]) : g.name = f.name /\ g.vector = f.vector
  BY <1>2
<1>4. g \in Live(LastVersion) /\ base[o] \in 0..LastVersion /\ LastVersion \in 0..LastVersion
  BY <1>3, InNamed DEF Typed, LogInv, IsLog, LastVersion
<1>5. g.rows = f.rows /\ g.dead = f.dead
  BY <1>1, <1>3, <1>4 DEF LogInv, NamesStand
<1> QED  BY <1>1, <1>3, <1>4, <1>5, InVisible

\* The files that winners other than blind appends added since the version of a commit.
AddedByWinners(o) == UNION {log[v].added : v \in {w \in Winners(o) : ~log[w].blind}}
AddedSince(o) == AddedByWinners(o) \ Names(Live(base[o]))

\* A file of a winner is among them, unless it was there before.
LEMMA InAddedSince ==
    ASSUME NEW o, NEW x \in Winners(o), ~log[x].blind, NEW n \in log[x].added, n \notin Names(Live(base[o]))
    PROVE  n \in AddedSince(o)
<1>1. n \in AddedByWinners(o)
  BY DEF AddedByWinners
<1> QED  BY <1>1 DEF AddedSince

\* What the conflict check looks for among them.
LEMMA AddedWhatWasReadIs ==
    ASSUME NEW o
    PROVE  AddedWhatWasRead(o) <=>
              /\ AddedSince(o) # {}
              /\ \/ job[o].key = AnyKey
                 \/ AddedSince(o) \cap Names(Candidates(o, Live(LastVersion))) # {}
                 \/ ~(AddedSince(o) \subseteq Names(Live(LastVersion)))
BY DEF AddedWhatWasRead, AddedSince, AddedByWinners

\* The conflict check lets through only an operation that would match the same rows on
\* the latest version: every row a winner wrote is in a file that the check looks at.
LEMMA SurvivorMatches ==
    ASSUME NEW o \in Op, Typed, LogInv, PlanOf(o), ReadOf(o), Planned(o), Kind(o) \in RowKinds,
           TouchedAsRead(o), ~serial, ~AddedWhatWasRead(o)
    PROVE  read[o] <= LastVersion /\ matched[o] = Match(o, LastVersion)
<1>1. /\ base[o] \in 0..LastVersion /\ read[o] \in 0..LastVersion /\ LastVersion \in Nat
      /\ read[o] <= base[o] /\ matched[o] = Match(o, base[o])
  BY DEF Typed, LogInv, IsLog, LastVersion, ReadOf
<1>2. \A v, r : r \in Match(o, v) <=> r \in Visible(Live(v)) /\ Matches(o, r) /\ r.by \notin Late(read[o], v)
  BY DEF Match
<1>3. ASSUME NEW u \in 0..LastVersion, NEW v \in 0..LastVersion, NEW p
      PROVE  p \in Late(u, v) <=> \E x \in u+1..v : log[x].blind /\ p = log[x].by
  BY DEF Late
<1>4. ASSUME NEW r \in matched[o] PROVE r \in Match(o, LastVersion)
  <2>1. r \in Visible(Live(base[o])) /\ Matches(o, r) /\ r.by \notin Late(read[o], base[o])
    BY <1>1, <1>2, <1>4
  <2>2. r \in Visible(Live(LastVersion))
    BY <1>4, SameFiles DEF PlanOf
  <2>3. ASSUME r.by \in Late(read[o], LastVersion) PROVE FALSE
    <3>1. PICK x \in read[o]+1..LastVersion : log[x].blind /\ r.by = log[x].by
      BY <1>1, <1>3, <2>3
    <3>2. x \notin read[o]+1..base[o]
      BY <1>1, <1>3, <2>1, <3>1
    <3>3. x \in 1..LastVersion /\ x > base[o]
      BY <1>1, <3>1, <3>2
    <3>4. log[x].by \in Op /\ Kind(log[x].by) = "append"
      BY <3>1, <3>3 DEF LogInv, CommitsInv
    <3>5. PICK y \in 1..base[o] : log[y].by = r.by
      BY <1>1, <2>1, <3>1, <3>4 DEF LogInv, RowsInserted
    <3>6. y \in 1..LastVersion /\ y # x
      BY <1>1, <3>3
    <3>7. Kind(log[y].by) # "optimize" /\ log[x].by = log[y].by
      BY <3>1, <3>4, <3>5
    <3> QED  BY <3>3, <3>6, <3>7 DEF LogInv, CommitsInv
  <2> QED  BY <1>2, <2>1, <2>2, <2>3
<1>5. ASSUME NEW r \in Match(o, LastVersion) PROVE r \in matched[o]
  <2>1. r \in Visible(Live(LastVersion)) /\ Matches(o, r) /\ r.by \notin Late(read[o], LastVersion)
    BY <1>2, <1>5
  <2>2. CASE r \in Visible(Live(base[o]))
    <3>1. r.by \notin Late(read[o], base[o])
      BY <1>1, <1>3, <2>1
    <3> QED  BY <1>1, <1>2, <2>1, <2>2, <3>1
  <2>3. CASE \E w \in base[o]+1..LastVersion : r \in WroteIn(w)
    <3>1. PICK w \in base[o]+1..LastVersion : r \in WroteIn(w)
      BY <2>3
    <3>2. w \in 1..LastVersion /\ w \in read[o]+1..LastVersion /\ w - 1 \in 0..LastVersion /\ base[o] \in 0..w-1
      BY <1>1, <3>1
    <3>3. r.by = log[w].by
      <4>1. PICK u : u = w - 1 /\ u \in 0..LastVersion
        BY <3>2
      <4>2. log[w].changed \subseteq Visible(Live(u))
        BY <3>2, <4>1 DEF LogInv, EffectExact
      <4>3. \A m \in log[w].changed : RowRecord(m)
        BY <4>1, <4>2, InVisible DEF LogInv, FilesTyped
      <4> QED  BY <3>1, <4>3, NewRowsAre DEF WroteIn
    <3>4. ~log[w].blind
      BY <1>1, <1>3, <2>1, <3>2, <3>3
    <3>5. PICK h \in Live(w) : /\ h.name \in log[w].added /\ r \in h.rows
                               /\ \A a \in 0..w-1 : h.name \notin Names(Live(a))
      BY <3>1, <3>2 DEF LogInv, Written
    <3>6. h.name \in AddedSince(o)
      <4>1. w \in Winners(o)
        BY <3>1 DEF Winners
      <4>2. h.name \notin Names(Live(base[o]))
        BY <3>2, <3>5
      <4> QED  BY <3>4, <3>5, <4>1, <4>2, InAddedSince
    <3>7. /\ AddedSince(o) \cap Names(Candidates(o, Live(LastVersion))) = {}
          /\ AddedSince(o) \subseteq Names(Live(LastVersion))
      BY <3>6, AddedWhatWasReadIs
    <3>8. PICK g \in Live(LastVersion) : g.name = h.name
      BY <3>6, <3>7, InNames
    <3>9. g.rows = h.rows
      BY <1>1, <3>2, <3>5, <3>8 DEF LogInv, NamesStand
    <3>10. g \in Candidates(o, Live(LastVersion))
      BY <2>1, <3>5, <3>8, <3>9 DEF Candidates
    <3>11. h.name \in Names(Candidates(o, Live(LastVersion)))
      BY <3>8, <3>10, InNames
    <3> QED  BY <3>6, <3>7, <3>11
  <2>4. LastVersion \in 0..LastVersion
    BY <1>1
  <2> QED  BY <1>1, <2>1, <2>2, <2>3, <2>4 DEF LogInv, Origin
<1> QED  BY <1>1, <1>4, <1>5

\* A step keeps the plans sound.
LEMMA StepPlans ==
    ASSUME NEW o \in Op, Typed, LogInv, PlanInv, ReadInv, Step(o)
    PROVE  PlanInv' /\ ReadInv'
<1>1. /\ StepKeeps(o) /\ IsLog /\ RowsTyped /\ PlanOf(o) /\ ReadOf(o)
      /\ LastVersion \in Nat /\ LastVersion \in 0..LastVersion
  BY StepIs, VersionsStay DEF LogInv, PlanInv, ReadInv
<1>2. ASSUME NEW p \in Op \ {o} PROVE PlanOf(p)' /\ ReadOf(p)'
  <2>1. /\ pc'[p] = pc[p] /\ read'[p] = read[p] /\ base'[p] = base[p]
        /\ matched'[p] = matched[p] /\ touched'[p] = touched[p]
    BY <1>1 DEF StepKeeps
  <2>2. PlanOf(p) /\ ReadOf(p) /\ (Planned(p)' => Planned(p))
    BY <2>1 DEF PlanInv, ReadInv, Planned
  <2> QED  BY <1>1, <2>1, <2>2, PlanStays
<1>3. ASSUME ~Planned(o)', matched'[o] = matched[o], touched'[o] = touched[o] PROVE PlanOf(o)' /\ ReadOf(o)'
  BY <1>1, <1>3, PlanStays
<1>4. ASSUME Planned(o), UNCHANGED plan PROVE PlanOf(o)' /\ ReadOf(o)'
  BY <1>1, <1>4, PlanStays DEF plan
<1>5. job' = job /\ Row' = Row /\ Kind(o)' = Kind(o)
  <2>1. job' = job
    BY <1>1 DEF StepKeeps
  <2> QED  BY <2>1, RowStays DEF Kind
<1> SUFFICES PlanOf(o)' /\ ReadOf(o)'
  BY <1>2 DEF PlanInv, ReadInv
<1>6. CASE ReadRows(o)
  <2>1. Kind(o) \in RowKinds /\ \E v \in 0..LastVersion : ReadAt(o, v)
    BY <1>1, <1>6 DEF ReadRows, Kind
  <2> QED  BY <1>1, <2>1, ReadAtPlans
<1>7. CASE ReadNothing(o)
  <2>1. /\ Kind(o) \notin RowKinds /\ matched[o] = {} /\ matched'[o] = matched[o] /\ touched'[o] = touched[o]
    BY <1>1, <1>7 DEF ReadNothing, Kind, RowKinds, PlanOf
  <2> QED  BY <1>1, <1>5, <2>1 DEF PlanOf, ReadOf
<1>8. CASE PlanCompaction(o)
  <2>1. /\ Kind(o) \notin RowKinds /\ Kind(o) \notin {"append", "alter"} /\ matched[o] = {}
    BY <1>1, <1>8 DEF PlanCompaction, Kind, RowKinds, PlanOf
  <2>2. matched'[o] = matched[o]
    BY <1>8 DEF PlanCompaction, plan
  <2> QED  BY <1>1, <1>5, <2>1, <2>2 DEF PlanOf, ReadOf
<1>9. CASE StageFiles(o)
  BY <1>4, <1>9 DEF StageFiles, Planned
<1>10. CASE Commit(o)
  <2>1. UNCHANGED plan /\ ~Planned(o)'
    BY <1>1, <1>10, CommitIs DEF Commit, Planned
  <2> QED  BY <1>3, <2>1 DEF plan
<1>11. CASE Lose(o)
  BY <1>4, <1>11 DEF Lose, Planned
<1>12. CASE Rebase(o)
  <2>1. CASE ReadAt(o, LastVersion) /\ Kind(o) \in RowKinds
    BY <1>1, <2>1, ReadAtPlans
  <2>2. CASE base' = [base EXCEPT ![o] = LastVersion] /\ UNCHANGED <<read, matched, touched>>
    <3>1. Planned(o) /\ Survives(o) /\ log' = log
      BY <1>12 DEF Rebase, Planned
    <3>2. PICK v : v = LastVersion /\ v \in 0..LastVersion
      BY <1>1
    <3>3. base'[o] = v /\ Live(v)' = Live(v)
      BY <1>1, <2>2, <3>2, VersionsStay DEF Typed
    <3>4. TouchedAsRead(o)
      BY <3>1 DEF Survives
    <3>5. matched[o] \subseteq Visible(Named(Live(v), touched[o]))
      BY <1>1, <3>1, <3>2, <3>4, SameFiles DEF PlanOf
    <3>6. PlanOf(o)'
      BY <1>1, <1>5, <2>2, <3>3, <3>5 DEF PlanOf
    <3>7. ASSUME Kind(o) \in RowKinds PROVE read'[o] <= base'[o] /\ matched'[o] = Match(o, base[o])'
      <4>1. ~serial /\ ~AddedWhatWasRead(o)
        BY <3>1, <3>7 DEF Survives, RowKinds, Kind
      <4>2. read[o] <= v /\ matched[o] = Match(o, v)
        BY <1>1, <3>1, <3>2, <3>4, <3>7, <4>1, SurvivorMatches
      <4>3. Match(o, v)' = Match(o, v)
        BY <1>1, <2>2, <3>2, MatchStays
      <4> QED  BY <2>2, <3>3, <4>2, <4>3
    <3> QED  BY <1>5, <3>6, <3>7 DEF ReadOf
  <2> QED  BY <1>12, <2>1, <2>2 DEF Rebase, Kind
<1>13. CASE RefuseRebase(o)
  <2>1. UNCHANGED plan /\ ~Planned(o)'
    BY <1>1, <1>13, Moves DEF RefuseRebase, Planned
  <2> QED  BY <1>3, <2>1 DEF plan
<1>14. CASE Restage(o)
  <2>1. UNCHANGED plan /\ ~Planned(o)'
    BY <1>1, <1>14, Moves DEF Restage, Planned
  <2> QED  BY <1>3, <2>1 DEF plan
<1> QED  BY <1>6, <1>7, <1>8, <1>9, <1>10, <1>11, <1>12, <1>13, <1>14 DEF Step

-----------------------------------------------------------------------------
(* The deletion vectors *)

\* Whether the commit of an operation that is left alone writes vectors stays.
LEMMA UsesVectorStays ==
    ASSUME NEW o \in Op, Typed, IsLog, Step(o), NEW p \in Op, base'[p] = base[p],
           matched'[p] = matched[p], touched'[p] = touched[p]
    PROVE  UsesVector(p)' <=> UsesVector(p)
<1>1. job' = job /\ mode' = mode
  BY StepIs DEF StepKeeps
<1>2. PICK b, m, t : b = base[p] /\ b \in 0..LastVersion /\ m = matched[p] /\ t = touched[p]
  BY DEF Typed
<1>3. PICK l : l = Live(b) /\ l = Live(b)'
  BY <1>2, VersionsStay
<1>4. Vectored(p) # {} <=> \E g \in Named(l, t) : ~(g.rows \subseteq g.dead \cup m)
  BY <1>2, <1>3 DEF Vectored
<1>5. Vectored(p)' # {} <=> \E g \in Named(l, t) : ~(g.rows \subseteq g.dead \cup m)
  BY <1>2, <1>3 DEF Vectored
<1> QED  BY <1>1, <1>4, <1>5 DEF UsesVector

\* The vectors of a version a commit makes are those of the version it was built on and
\* its own, which is there.
LEMMA CommitVectors ==
    ASSUME NEW o \in Op, Typed, LogInv, PlanInv, VectorsInv, Commit(o),
           NEW f \in Record(o).live, f.vector # None
    PROVE  \/ f \in Live(base[o])
           \/ f.vector = <<o, writes[o]>> /\ f.vector \in vectors
<1>1. /\ FilesTyped /\ RowsInserted /\ base[o] \in 0..LastVersion /\ pc[o] = "commit" /\ Kind(o) \in JobKinds
  BY CommitIs DEF LogInv
<1>2. CASE f \in Live(base[o])
  BY <1>2
<1>3. CASE Vectors(o) /\ f.vector = <<o, writes[o]>> /\ f \in Adds(o)
  <2>1. \E h \in Hit(o) : f = Hides(o, h) /\ ~(h.rows \subseteq h.dead \cup matched[o])
    <3>1. Fresh(o).vector = None
      BY DEF Fresh
    <3> QED  BY <1>1, <1>3, <3>1, AddsAre
  <2>2. Vectored(o) # {}
    BY <2>1 DEF Vectored, Hit
  <2>3. UsesVector(o)
    BY <1>3, <2>2 DEF UsesVector, Vectors, Kind
  <2> QED  BY <1>1, <1>3, <2>3 DEF VectorsInv
<1>4. f \in Adds(o) \/ f \in Live(base[o])
  BY DEF Record
<1>5. f \in Live(base[o]) \/ (Vectors(o) /\ f.vector = <<o, writes[o]>>) \/ f.vector = None
  BY <1>1, FilesAfter
<1> QED  BY <1>2, <1>3, <1>4, <1>5

\* A commit that wrote a vector refers to it.
LEMMA CommitRefers ==
    ASSUME NEW o \in Op, Typed, LogInv, PlanInv, Commit(o), UsesVector(o)
    PROVE  \E f \in Record(o).live : f.vector = <<o, writes[o]>>
<1>1. /\ FilesTyped /\ base[o] \in 0..LastVersion /\ Kind(o) \in JobKinds
  BY CommitIs DEF LogInv
<1>2. Vectors(o) /\ Vectored(o) # {}
  BY DEF UsesVector, Vectors, Kind
<1>3. PICK h \in Hit(o) : ~(h.rows \subseteq h.dead \cup matched[o])
  BY <1>2 DEF Vectored, Hit
<1>4. PICK g : g = Hides(o, h)
  OBVIOUS
<1>5. g \in Adds(o)
  BY <1>1, <1>2, <1>3, <1>4, AddsAre
<1>6. g \in Record(o).live
  BY <1>5 DEF Record
<1>7. g.vector = <<o, writes[o]>>
  BY <1>4 DEF Hides
<1> QED  BY <1>6, <1>7

\* A step concerns the result of its own operation, which is done when it is unknown.
LEMMA ResultStays ==
    ASSUME NEW o \in Op, Typed, IsLog, Step(o), result[o] = "unknown" => pc[o] = "done"
    PROVE  /\ \A p \in Op \ {o} : result'[p] = result[p]
           /\ result'[o] = "unknown" => pc'[o] = "done"
<1>1. ASSUME NEW l, Goto(o, l), pc[o] # "done"
      PROVE  (\A p \in Op \ {o} : result'[p] = result[p]) /\ result'[o] # "unknown"
  BY <1>1 DEF Goto
<1>2. ASSUME NEW r, Finish(o, r)
      PROVE  (\A p \in Op \ {o} : result'[p] = result[p]) /\ pc'[o] = "done"
  BY <1>2 DEF Finish, Typed
<1>3. pc[o] # "done"
  BY StepIs DEF StepKeeps
<1>4. (\E l : Goto(o, l)) \/ (\E r : Finish(o, r))
  BY DEF Step, ReadRows, ReadAt, ReadNothing, PlanCompaction, StageFiles, Commit, Lose, Rebase,
         RefuseRebase, Restage
<1> QED  BY <1>1, <1>2, <1>3, <1>4

\* What a step does to the vectors in storage.
LEMMA VectorsMove ==
    ASSUME NEW o \in Op, Step(o)
    PROVE  \/ /\ StageFiles(o) /\ log' = log
              /\ vectors' = vectors \cup (IF UsesVector(o) THEN {<<o, writes'[o]>>} ELSE {})
           \/ Commit(o) /\ vectors' = vectors
           \/ Commit(o) /\ Finish(o, "unknown") /\ vectors' = vectors \ {<<o, writes[o]>>}
           \/ Lose(o) /\ vectors' = vectors \ {<<o, writes[o]>>} /\ log' = log
           \/ pc[o] \in {"read", "rebase"} /\ vectors' = vectors /\ log' = log
BY DEF Step, ReadRows, ReadNothing, PlanCompaction, StageFiles, Commit, Lose, Rebase,
       RefuseRebase, Restage

\* A vector deleted though its commit landed stays so; one referred to stays so.
LEMMA MarksStay ==
    ASSUME NEW o \in Op, Typed, LogInv, VectorsInv, Step(o), NEW n
    PROVE  /\ DeletedThoughLanded(n) => DeletedThoughLanded(n)'
           /\ Referred(n) => Referred(n)'
           /\ \A p \in Op \ {o} : pc'[p] = pc[p] /\ writes'[p] = writes[p]
<1>1. StepKeeps(o) /\ IsLog
  BY StepIs DEF LogInv
<1>2. ASSUME NEW p \in Op, n = <<p, writes[p]>>, result[p] = "unknown" PROVE DeletedThoughLanded(n)'
  <2>1. p # o
    BY <1>1, <1>2 DEF StepKeeps, VectorsInv
  <2>2. result'[p] = result[p] /\ writes'[p] = writes[p]
    BY <1>1, <2>1, ResultStays DEF StepKeeps, VectorsInv
  <2> QED  BY <1>2, <2>2 DEF DeletedThoughLanded
<1>3. Referred(n) => Referred(n)'
  <2>1. /\ LastVersion \in Nat /\ LastVersion' \in Nat /\ LastVersion <= LastVersion'
        /\ \A v \in 0..LastVersion : Live(v)' = Live(v)
    BY <1>1, VersionsStay
  <2>2. \A v \in 0..LastVersion : v \in 0..LastVersion'
    BY <2>1
  <2> QED  BY <2>1, <2>2 DEF Referred
<1> QED  BY <1>1, <1>2, <1>3 DEF DeletedThoughLanded, StepKeeps

\* After a step a vector that a version refers to is there, or was deleted though its
\* commit landed.
LEMMA StepKeepsVectors ==
    ASSUME NEW o \in Op, Typed, LogInv, PlanInv, VectorsInv, Step(o),
           NEW v \in 0..LastVersion', NEW f \in Live(v)', f.vector # None
    PROVE  f.vector \in vectors' \/ DeletedThoughLanded(f.vector)'
<1>1. /\ IsLog /\ FilesTyped /\ LastVersion \in Nat
      /\ \A u \in 0..LastVersion : \A g \in Live(u) :
            g.vector # None => g.vector \in vectors \/ DeletedThoughLanded(g.vector)
  BY VersionsStay DEF LogInv, VectorsInv
<1>2. ASSUME NEW u \in 0..LastVersion, NEW g \in Live(u), g.vector # None
      PROVE  g.vector \in vectors' \/ DeletedThoughLanded(g.vector)'
  <2>1. CASE DeletedThoughLanded(g.vector)
    BY <2>1, MarksStay
  <2>2. CASE g.vector \in vectors
    <3>1. pc[o] = "commit" => g.vector # <<o, writes[o]>>
      BY <1>1, NameIsNew
    <3>2. Commit(o) \/ Lose(o) => pc[o] = "commit"
      BY DEF Commit, Lose
    <3> QED  BY <2>2, <3>1, <3>2, VectorsMove
  <2> QED  BY <1>1, <1>2, <2>1, <2>2
<1>3. CASE log' = log
  BY <1>2, <1>3 DEF LastVersion, Live
<1>4. CASE Commit(o)
  <2>1. /\ base[o] \in 0..LastVersion /\ LastVersion' = LastVersion + 1
        /\ \A u \in 0..LastVersion : Live(u)' = Live(u)
        /\ \A n : n = LastVersion + 1 => Live(n)' = Record(o).live
        /\ UNCHANGED writes
    BY <1>1, <1>4, CommitIs
  <2>2. v \in 0..LastVersion \/ v = LastVersion + 1
    BY <1>1, <2>1
  <2>3. CASE v \in 0..LastVersion
    BY <1>2, <2>1, <2>3
  <2>4. CASE v = LastVersion + 1
    <3>1. f \in Record(o).live
      BY <2>1, <2>4
    <3>2. CASE f \in Live(base[o])
      BY <1>2, <2>1, <3>2
    <3>3. CASE f.vector = <<o, writes[o]>> /\ f.vector \in vectors
      <4>1. CASE vectors' = vectors
        BY <3>3, <4>1
      <4>2. CASE Finish(o, "unknown")
        <5>1. result'[o] = "unknown" /\ writes'[o] = writes[o]
          BY <2>1, <4>2 DEF Finish, Typed
        <5> QED  BY <3>3, <5>1 DEF DeletedThoughLanded
      <4>3. ~StageFiles(o) /\ ~Lose(o) /\ pc[o] = "commit"
        BY <1>1, <1>4, CommitIs DEF StageFiles, Lose, Commit
      <4> QED  BY <4>1, <4>2, <4>3, VectorsMove
    <3> QED  BY <1>4, <3>1, <3>2, <3>3, CommitVectors
  <2> QED  BY <2>2, <2>3, <2>4
<1> QED  BY <1>3, <1>4, LogStays

\* After a step a vector is one that a version refers to, or a commit under way wrote.
LEMMA StepLeavesNoVector ==
    ASSUME NEW o \in Op, Typed, LogInv, PlanInv, VectorsInv, Step(o), NEW n \in vectors'
    PROVE  Referred(n)' \/ UnderWay(n)'
<1>1. IsLog
  BY DEF LogInv
<1>2. CASE n \in vectors /\ Referred(n)
  BY <1>2, MarksStay
<1>3. CASE n \in vectors /\ ~Referred(n)
  <2>1. PICK p \in Op : pc[p] = "commit" /\ n = <<p, writes[p]>>
    BY <1>3 DEF VectorsInv, UnderWay
  <2>2. CASE p # o
    BY <2>1, <2>2, MarksStay DEF UnderWay
  <2>3. CASE p = o
    <3>1. Commit(o) /\ vectors' = vectors
      BY <2>1, <2>3, VectorsMove DEF StageFiles
    <3>2. UsesVector(o)
      BY <1>3, <2>1, <2>3 DEF VectorsInv
    <3>3. PICK f \in Record(o).live : f.vector = <<o, writes[o]>>
      BY <3>1, <3>2, CommitRefers
    <3>4. /\ LastVersion \in Nat /\ LastVersion' = LastVersion + 1
          /\ \A w : w = LastVersion + 1 => Live(w)' = Record(o).live
      BY <1>1, <3>1, CommitIs
    <3>5. PICK w : w = LastVersion + 1
      OBVIOUS
    <3>6. w \in 0..LastVersion' /\ Live(w)' = Record(o).live
      BY <3>4, <3>5
    <3>7. n # None
      BY <2>1, TableAssumption DEF Typed
    <3> QED  BY <2>1, <2>3, <3>3, <3>6, <3>7 DEF Referred
  <2> QED  BY <2>2, <2>3
<1>4. CASE n \notin vectors
  <2>1. StageFiles(o) /\ n = <<o, writes'[o]>>
    BY <1>4, VectorsMove
  <2>2. pc'[o] = "commit"
    BY <2>1 DEF StageFiles, Goto, Typed
  <2> QED  BY <2>1, <2>2 DEF UnderWay
<1> QED  BY <1>2, <1>3, <1>4

\* After a step a commit under way has written a vector when it uses one.
LEMMA StepWritesVectors ==
    ASSUME NEW o \in Op, Typed, LogInv, PlanInv, VectorsInv, Step(o), NEW p \in Op,
           pc'[p] = "commit"
    PROVE  <<p, writes'[p]>> \in vectors' <=> UsesVector(p)'
<1>1. StepKeeps(o) /\ IsLog /\ FilesTyped
  BY StepIs DEF LogInv
<1>2. CASE p # o
  <2>1. pc[p] = "commit" /\ writes'[p] = writes[p] /\ (UsesVector(p)' <=> UsesVector(p))
    BY <1>1, <1>2, UsesVectorStays DEF StepKeeps
  <2>2. <<p, writes[p]>> # <<o, writes[o]>> /\ <<p, writes[p]>> # <<o, writes'[o]>>
    BY <1>2
  <2>3. <<p, writes[p]>> \in vectors' <=> <<p, writes[p]>> \in vectors
    BY <2>2, VectorsMove
  <2> QED  BY <2>1, <2>3 DEF VectorsInv
<1>3. CASE p = o
  <2>1. StageFiles(o) /\ writes'[o] = writes[o] + 1 /\ writes[o] \in Nat
    BY <1>1, <1>3, NamesTaken DEF Typed
  <2>2. /\ pc[o] = "stage" /\ UNCHANGED plan
        /\ vectors' = vectors \cup (IF UsesVector(o) THEN {<<o, writes'[o]>>} ELSE {})
    BY <2>1 DEF StageFiles
  <2>3. UsesVector(o)' <=> UsesVector(o)
    BY <1>1, <2>2, UsesVectorStays DEF plan
  <2>4. <<o, writes'[o]>> \notin vectors
    <3>1. ASSUME Referred(<<o, writes'[o]>>) PROVE FALSE
      <4>1. PICK v \in 0..LastVersion : \E g \in Live(v) : g.vector = <<o, writes'[o]>>
        BY <3>1 DEF Referred
      <4>2. PICK f \in Live(v) : f.vector = <<o, writes'[o]>>
        BY <4>1
      <4>3. writes'[o] \in Nat /\ Given(f.vector)
        BY <1>1, <2>1 DEF FilesTyped
      <4>4. writes'[o] <= writes[o]
        BY <4>2, <4>3 DEF Given
      <4> QED  BY <2>1, <4>4
    <3>2. ~UnderWay(<<o, writes'[o]>>)
      BY <2>2 DEF UnderWay
    <3> QED  BY <3>1, <3>2 DEF VectorsInv
  <2> QED  BY <1>3, <2>2, <2>3, <2>4
<1> QED  BY <1>2, <1>3

\* A step keeps what holds of the vectors.
LEMMA StepVectors ==
    ASSUME NEW o \in Op, Typed, LogInv, PlanInv, VectorsInv, Step(o)
    PROVE  VectorsInv'
<1>1. \A p \in Op : result'[p] = "unknown" => pc'[p] = "done"
  <2>1. IsLog /\ StepKeeps(o) /\ \A p \in Op : result[p] = "unknown" => pc[p] = "done"
    BY StepIs DEF LogInv, VectorsInv
  <2> QED  BY <2>1, ResultStays DEF StepKeeps
<1>2. \A v \in 0..LastVersion' : \A f \in Live(v)' :
          f.vector # None => f.vector \in vectors' \/ DeletedThoughLanded(f.vector)'
  BY StepKeepsVectors
<1>3. \A n \in vectors' : Referred(n)' \/ UnderWay(n)'
  BY StepLeavesNoVector
<1>4. \A p \in Op : pc'[p] = "commit" => (<<p, writes'[p]>> \in vectors' <=> UsesVector(p)')
  BY StepWritesVectors
<1> QED  BY <1>1, <1>2, <1>3, <1>4 DEF VectorsInv

-----------------------------------------------------------------------------
(* The theorems *)

\* The invariant holds of the table the operations find.
LEMMA InitIInv == Init => IInv
<1> SUFFICES ASSUME Init PROVE IInv
  OBVIOUS
<1>1. log = <<>> /\ LastVersion = 0 /\ IsLog
  <2>1. log = <<>> /\ log \in Seq({})
    BY DEF Init
  <2> QED  BY <2>1 DEF LastVersion, IsLog
<1>2. (\A v \in 0..LastVersion : v = 0) /\ (\A v \in 1..LastVersion : FALSE)
  BY <1>1
<1>3. \A v \in 0..LastVersion : Live(v) = Initial
  BY <1>2 DEF Live
<1>4. Typed
  <2>1. Retries \in Nat /\ job \in Jobs /\ serial \in BOOLEAN
    BY ConstantsAssumption DEF Init
  <2> QED  BY <2>1, <1>1 DEF Init, Typed
<1>5. \A r \in Visible(Initial) : RowRecord(r) /\ r.from \notin Op /\ r.by \notin Op /\ r \in Row
  <2>1. \A r \in Visible(Initial) : RowRecord(r) /\ r.from \notin Op /\ r.by \notin Op
    BY TableAssumption, InVisible DEF RowRecord
  <2>2. ASSUME NEW r \in Visible(Initial) PROVE r \in Row
    <3>1. r = [key |-> r.key, from |-> r.from, by |-> r.by]
      BY <2>1 DEF RowRecord
    <3> QED  BY <3>1 DEF Row
  <2> QED  BY <2>1, <2>2
<1>6. FilesTyped
  <2>1. ASSUME NEW n, n \notin Op \X Nat PROVE Given(n)
    BY <2>1 DEF Given
  <2> QED  BY <1>3, <2>1, TableAssumption DEF FilesTyped, FileRecord, RowRecord
<1>7. NameOnce /\ NamesStand /\ EachOnce
  BY <1>3, TableAssumption DEF NameOnce, NamesStand, EachOnce
<1>8. RowsTyped /\ RowsInserted
  BY <1>3, <1>5 DEF RowsTyped, RowsInserted
<1>9. CommitsInv /\ Written /\ EffectExact /\ ReadsHold
  BY <1>2 DEF CommitsInv, Written, EffectExact, ReadsHold
<1>10. Origin
  BY <1>2 DEF Origin
<1>11. PlanInv /\ ReadInv
  <2>1. \A o \in Op : matched[o] = {} /\ touched[o] = {} /\ pc[o] = "read"
    BY DEF Init
  <2> QED  BY <2>1 DEF PlanInv, PlanOf, ReadInv, ReadOf, Planned
<1>12. VectorsInv
  <2>1. /\ vectors = {f.vector : f \in Initial} \ {None}
        /\ \A o \in Op : pc[o] = "read" /\ result[o] = "none"
    BY DEF Init
  <2>2. 0 \in 0..LastVersion
    BY <1>1
  <2>3. \A n \in vectors : Referred(n)
    BY <1>3, <2>1, <2>2 DEF Referred
  <2> QED  BY <1>3, <2>1, <2>3 DEF VectorsInv
<1> QED  BY <1>1, <1>4, <1>6, <1>7, <1>8, <1>9, <1>10, <1>11, <1>12 DEF IInv, LogInv

\* A stuttering step keeps the invariant.
LEMMA StutterIInv ==
    ASSUME IInv, UNCHANGED vars
    PROVE  IInv'
<1>1. /\ UNCHANGED <<job, mode, serial, log, vectors, pc, read, base, matched>>
      /\ UNCHANGED <<touched, done, writes, tries, result>>
  BY DEF vars
<1>2. LastVersion' = LastVersion /\ \A v : Live(v)' = Live(v)
  BY <1>1 DEF LastVersion, Live
<1>3. Typed' /\ IsLog'
  BY <1>1, <1>2 DEF IInv, LogInv, Typed, IsLog
<1>4. \A n : Given(n)' <=> Given(n)
  BY <1>1 DEF Given
<1>5. FilesTyped'
  BY <1>2, <1>4 DEF IInv, LogInv, FilesTyped, FileRecord, RowRecord
<1>6. NameOnce' /\ NamesStand' /\ EachOnce'
  BY <1>1, <1>2 DEF IInv, LogInv, NameOnce, NamesStand, EachOnce
<1>7. Row' = Row
  BY <1>1, RowStays
<1>8. RowsTyped' /\ RowsInserted'
  BY <1>1, <1>2, <1>7 DEF IInv, LogInv, RowsTyped, RowsInserted
<1>9. CommitsInv'
  BY <1>1, <1>2 DEF IInv, LogInv, CommitsInv, Kind
<1>10. \A p, rows : NewRows(p, rows)' = NewRows(p, rows)
  BY <1>1, NewRowsStay
<1>11. \A w : WroteIn(w)' = WroteIn(w)
  BY <1>1, <1>10 DEF WroteIn
<1>12. Origin' /\ Written' /\ EffectExact'
  BY <1>1, <1>2, <1>10, <1>11 DEF IInv, LogInv, Origin, Written, EffectExact
<1>13. \A p, r : Matches(p, r)' = Matches(p, r)
  BY <1>1, MatchesStay
<1>14. ReadsHold'
  BY <1>1, <1>2, <1>13 DEF IInv, LogInv, ReadsHold
<1>15. PlanInv'
  BY <1>1, <1>2, <1>7 DEF IInv, PlanInv, PlanOf, Planned, Kind
<1>16. \A o, v : Match(o, v)' = Match(o, v)
  BY <1>1, <1>2, <1>13 DEF Match, Late
<1>17. ReadInv'
  BY <1>1, <1>16 DEF IInv, ReadInv, ReadOf, Planned, Kind
<1>18. VectorsInv'
  <2>1. \A o \in Op : UsesVector(o)' <=> UsesVector(o)
    BY <1>1, <1>2 DEF UsesVector, Vectored
  <2>2. \A n : /\ DeletedThoughLanded(n)' <=> DeletedThoughLanded(n)
               /\ Referred(n)' <=> Referred(n)
               /\ UnderWay(n)' <=> UnderWay(n)
    BY <1>1, <1>2 DEF DeletedThoughLanded, Referred, UnderWay
  <2> QED  BY <1>1, <1>2, <2>1, <2>2 DEF IInv, VectorsInv
<1> QED  BY <1>3, <1>5, <1>6, <1>8, <1>9, <1>12, <1>14, <1>15, <1>17, <1>18 DEF IInv, LogInv

\* Every step keeps the invariant.
LEMMA NextIInv == IInv /\ [Next]_vars => IInv'
<1> SUFFICES ASSUME IInv, [Next]_vars PROVE IInv'
  OBVIOUS
<1>1. ASSUME NEW o \in Op, Step(o) PROVE IInv'
  <2>1. Typed /\ LogInv /\ IsLog /\ PlanInv /\ ReadInv /\ VectorsInv
    BY DEF IInv, LogInv
  <2> QED  BY <1>1, <2>1, StepTyped, StepLogInv, StepPlans, StepVectors DEF IInv
<1>2. CASE UNCHANGED vars
  BY <1>2, StutterIInv
<1> QED  BY <1>1, <1>2 DEF Next, Terminated

\* The invariant holds of every state.
LEMMA AlwaysIInv == Spec => []IInv
BY InitIInv, NextIInv, PTL DEF Spec

\* Every version is the one before it with one operation applied, and each row is in
\* one file, whatever the jobs, the table, its mode and isolation level, the races
\* lost, and whether answers and log tails are lost (dml.rs commit_dml, kernel.py
\* _rebase_dv_commit).
THEOREM VersionsExactHolds == Spec => []VersionsExact
<1>1. IInv => VersionsExact
  <2> SUFFICES ASSUME IInv PROVE VersionsExact
    OBVIOUS
  <2>1. TypeOK
    BY DEF IInv, Typed, TypeOK, PlanInv, PlanOf
  <2>2. EffectExact
    BY DEF IInv, LogInv
  <2>3. RowsOnce
    <3>1. \A v \in 1..LastVersion : v \in 0..LastVersion
      OBVIOUS
    <3> QED  BY <3>1 DEF IInv, LogInv, EachOnce, RowsOnce
  <2> QED  BY <2>1, <2>2, <2>3 DEF VersionsExact
<1> QED  BY <1>1, AlwaysIInv, PTL

\* The rows an operation changed are those it would have matched at its place in the
\* log, but for the rows of blind appends since its read under WriteSerializable
\* (kernel.py _rebase_dv_commit, _added_what_was_read).
THEOREM ReadsHoldHolds == Spec => []ReadsHold
<1>1. IInv => ReadsHold
  BY DEF IInv, LogInv
<1> QED  BY <1>1, AlwaysIInv, PTL

\* Whatever races are lost and whatever answers do not come, a deletion vector is missing
\* only where a commit landed and lost its answer, and is left over only while a commit
\* is under way (dml.rs commit_dml).
THEOREM VectorsAlwaysAccounted == Spec => []VectorsAccounted
<1>1. IInv => VectorsAccounted
  <2> SUFFICES ASSUME IInv PROVE VectorsAccounted
    OBVIOUS
  <2> DEFINE referred == {f.vector : f \in UNION {Live(v) : v \in 0..LastVersion}} \ {None}
  <2>1. \A n : n \in referred <=> Referred(n)
    BY DEF Referred
  <2>2. \A n \in referred \ vectors : DeletedThoughLanded(n)
    BY <2>1 DEF IInv, VectorsInv, Referred
  <2>3. \A n \in vectors \ referred : UnderWay(n)
    BY <2>1 DEF IInv, VectorsInv
  <2> QED  BY <2>2, <2>3 DEF VectorsAccounted, UnderWay
<1> QED  BY <1>1, AlwaysIInv, PTL

=============================================================================
