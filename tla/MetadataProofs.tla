---------------------------- MODULE MetadataProofs ----------------------------
(***************************************************************************)
(* Proofs about Metadata, for any tables, calls, clients, tasks and bounds *)
(* that its assumptions allow: the rows of every version satisfy its       *)
(* constraints (RowsSatisfy), no identity value is given twice             *)
(* (IdentityUnique), no column reads what was written for another          *)
(* (ReadsOwnColumn), and a version refers to nothing that is not there and *)
(* lists the features it needs (MetadataSound). Each of them rests on what *)
(* one change does to the version it was computed on, and on that version  *)
(* being the latest one when it is committed.                              *)
(***************************************************************************)
EXTENDS Metadata, FiniteSetTheorems, TLAPS

-----------------------------------------------------------------------------
(* Versions. *)

\* w is v, but for its protocol.
SameTable(v, w) ==
    /\ w.cols = v.cols /\ w.parts = v.parts /\ w.clus = v.clus /\ w.cons = v.cons
    /\ w.stats = v.stats /\ w.cfg = v.cfg /\ w.mode = v.mode /\ w.maxId = v.maxId
    /\ w.files = v.files

\* with_features changes the protocol only.
LEMMA FeaturesOnly ==
    ASSUME NEW p, IsVersion(p), NEW S
    PROVE  IsVersion(with_features(p, S)) /\ SameTable(p, with_features(p, S))
BY DEF IsVersion, SameTable, with_features

\* The columns of a version: a sequence of columns that names and Parquet names tell apart, one of
\* them numbered by the table at most; a Parquet name is the column's, or says by which version it
\* was given.
ColumnsOk(v, at) ==
    /\ \E S : v.cols \in Seq(S)
    /\ \A i \in DOMAIN v.cols :
          /\ IsColumn(v.cols[i])
          /\ v.cols[i].phys = <<v.cols[i].phys[1], v.cols[i].phys[2]>> /\ v.cols[i].phys[2] \in 0..at
          /\ v.mode = "none" => v.cols[i].phys = <<v.cols[i].name, 0>>
    /\ \A i, j \in DOMAIN v.cols : i # j =>
          /\ v.cols[i].name # v.cols[j].name /\ v.cols[i].phys # v.cols[j].phys
          /\ v.cols[i].hwm = NotIdentity \/ v.cols[j].hwm = NotIdentity

VersionOk(v, at) == IsVersion(v) /\ v.mode \in {"none", "name", "id"} /\ ColumnsOk(v, at)

\* The identity column of w, if it has one, was v's, and has n values more behind it.
Numbered(v, w, n) ==
    \A j \in IdentityColumn(w) : \E i \in IdentityColumn(v) : w.cols[j].hwm = v.cols[i].hwm + n

\* A column of type s is or has become one of type t.
Widens(s, t) == t = s \/ widening_allowed(s, t)

\* w has the field ids of v, or the first there are.
SameIds(v, w) ==
    /\ w.mode = v.mode /\ w.maxId = v.maxId
    /\ \A i \in DOMAIN v.cols : w.cols[i].id = v.cols[i].id
FirstIds(v, w) ==
    /\ v.mode # "name" /\ w.mode = "name" /\ w.maxId = Len(w.cols)
    /\ \A i \in DOMAIN v.cols : w.cols[i].id = i

\* w has the columns of v, each where it was and of the same Parquet name, or wider.
InPlace(v, w) ==
    /\ IsVersion(w) /\ (\E S : w.cols \in Seq(S)) /\ DOMAIN w.cols = DOMAIN v.cols
    /\ \A i \in DOMAIN v.cols :
          /\ IsColumn(w.cols[i]) /\ w.cols[i].phys = v.cols[i].phys
          /\ w.cols[i].birth = v.cols[i].birth /\ Widens(v.cols[i].type, w.cols[i].type)
    /\ SameIds(v, w) \/ FirstIds(v, w)
    /\ w.files = v.files

\* ... and they are no less numbered by it.
SameNumbers(v, w) == \A i \in DOMAIN v.cols : w.cols[i].hwm = v.cols[i].hwm

SameNames(v, w) == \A i \in DOMAIN v.cols : w.cols[i].name = v.cols[i].name

\* Such a version is sound when the names are.
LEMMA InPlaceOk ==
    ASSUME NEW v, NEW w, NEW at \in Nat, VersionOk(v, at), InPlace(v, w),
           w.mode \in {"none", "name", "id"},
           \A i \in DOMAIN v.cols : w.cols[i].hwm = NotIdentity <=> v.cols[i].hwm = NotIdentity,
           \A i, j \in DOMAIN v.cols : i # j => w.cols[i].name # w.cols[j].name,
           w.mode = "none" => v.mode = "none" /\ SameNames(v, w)
    PROVE  VersionOk(w, at)
BY SMTT(30) DEF VersionOk, ColumnsOk, InPlace, SameNames

\* A later version may be newer.
LEMMA OkLater ==
    ASSUME NEW v, NEW at \in Nat, VersionOk(v, at) PROVE VersionOk(v, at + 1)
BY DEF VersionOk, ColumnsOk

\* The column of a name.
LEMMA ColumnFound ==
    ASSUME NEW v, NEW at, VersionOk(v, at), NEW n, n \in names(v)
    PROVE  \E i \in DOMAIN v.cols : v.cols[i].name = n /\ Column(v, n) = v.cols[i]
BY DEF names, Column

\* A column is found under its name.
LEMMA ColumnOf ==
    ASSUME NEW v, NEW at, VersionOk(v, at), NEW i \in DOMAIN v.cols
    PROVE  Column(v, v.cols[i].name) = v.cols[i]
BY DEF Column, VersionOk, ColumnsOk

\* Replacing a column's record keeps the others.
LEMMA WithColumnPlaces ==
    ASSUME NEW v, NEW at, VersionOk(v, at), NEW n, NEW c, IsColumn(c),
           \A i \in DOMAIN v.cols : v.cols[i].name = n =>
              /\ c.phys = v.cols[i].phys /\ c.birth = v.cols[i].birth /\ c.id = v.cols[i].id
              /\ Widens(v.cols[i].type, c.type)
    PROVE  /\ InPlace(v, WithColumn(v, n, c)) /\ WithColumn(v, n, c).mode = v.mode
           /\ WithColumn(v, n, c).cons = v.cons
           /\ \A i \in DOMAIN v.cols :
                 WithColumn(v, n, c).cols[i] = IF v.cols[i].name = n THEN c ELSE v.cols[i]
<1> DEFINE w == WithColumn(v, n, c)
<1>1. /\ IsVersion(w) /\ w.mode = v.mode /\ w.cons = v.cons /\ w.files = v.files
      /\ w.maxId = v.maxId
  BY DEF VersionOk, IsVersion, WithColumn
<1>2. w.cols = [i \in DOMAIN v.cols |-> IF v.cols[i].name = n THEN c ELSE v.cols[i]]
  BY DEF VersionOk, IsVersion, WithColumn
<1>3. \E S : w.cols \in Seq(S)
  <2>1. PICK S : v.cols \in Seq(S)
    BY DEF VersionOk, ColumnsOk
  <2>2. w.cols \in Seq(S \cup {c})
    BY <1>2, <2>1
  <2> QED  BY <2>2
<1> HIDE DEF w
<1>4. SameIds(v, w)
  BY <1>1, <1>2 DEF SameIds
<1>5. \A i \in DOMAIN v.cols :
        /\ IsColumn(w.cols[i]) /\ w.cols[i].phys = v.cols[i].phys
        /\ w.cols[i].birth = v.cols[i].birth /\ Widens(v.cols[i].type, w.cols[i].type)
  BY <1>2 DEF VersionOk, ColumnsOk, Widens
<1>6. InPlace(v, w)
  BY <1>1, <1>2, <1>3, <1>4, <1>5 DEF InPlace
<1> QED  BY <1>1, <1>2, <1>6 DEF w

\* A sequence with one more element, and a sequence of other values.
LEMMA Appended ==
    ASSUME NEW S, NEW s \in Seq(S), NEW c, NEW t, t = Append(s, c)
    PROVE  /\ DOMAIN t = 1..(Len(s) + 1) /\ Len(s) \in Nat /\ DOMAIN s = 1..Len(s)
           /\ \A i \in DOMAIN s : t[i] = s[i]
           /\ t[Len(s) + 1] = c
OBVIOUS

\* What is given for each place of a sequence is a sequence, of whatever.
LEMMA OfAnySet ==
    ASSUME NEW S, NEW s \in Seq(S), NEW t, t = [i \in DOMAIN s |-> t[i]]
    PROVE  \E T : t \in Seq(T)
<1> DEFINE T == {t[i] : i \in DOMAIN s}
<1>1. \A i \in DOMAIN s : t[i] \in T
  OBVIOUS
<1> HIDE DEF T
<1>2. DOMAIN s = 1..Len(s) /\ Len(s) \in Nat
  OBVIOUS
<1>3. t \in Seq(T)
  BY <1>1, <1>2
<1> QED  BY <1>3

-----------------------------------------------------------------------------
(* What each change makes of a version. *)

\* A change of the protocol keeps the version sound.
LEMMA FeaturesOk ==
    ASSUME NEW v, NEW at \in Nat, VersionOk(v, at), NEW S
    PROVE  /\ VersionOk(with_features(v, S), at) /\ InPlace(v, with_features(v, S))
           /\ with_features(v, S).cols = v.cols /\ with_features(v, S).cons = v.cons
           /\ with_features(v, S).mode = v.mode
BY FeaturesOnly DEF VersionOk, ColumnsOk, InPlace, SameTable, SameIds, Widens

\* A version with the same columns is sound.
LEMMA SameColumnsOk ==
    ASSUME NEW v, NEW at \in Nat, VersionOk(v, at), NEW w, IsVersion(w), w.cols = v.cols,
           w.mode = v.mode, w.files = v.files
    PROVE  VersionOk(w, at) /\ (w.maxId = v.maxId => InPlace(v, w))
BY DEF VersionOk, ColumnsOk, InPlace, SameIds, Widens

\* ... and is in place wherever the other was.
LEMMA SamePlaces ==
    ASSUME NEW v, NEW u, InPlace(v, u), NEW w, IsVersion(w), w.cols = u.cols, w.mode = u.mode,
           w.maxId = u.maxId, w.files = u.files
    PROVE  InPlace(v, w)
BY DEF InPlace, SameIds, FirstIds

\* What the other changes make of a version has its columns, under the constraints it had or one
\* more.
SameRest(v, w) ==
    /\ IsVersion(w) /\ w.cols = v.cols /\ w.files = v.files /\ w.mode = v.mode
    /\ w.maxId = v.maxId
SameConstraints(v, w) == SameRest(v, w) /\ w.cons = v.cons

\* One change after another.
LEMMA SameConstraintsThen ==
    ASSUME NEW v, NEW u, SameRest(v, u), NEW w, SameConstraints(u, w)
    PROVE  SameRest(v, w) /\ w.cons = u.cons
BY DEF SameRest, SameConstraints

\* A feature more.
LEMMA SameWithFeature ==
    ASSUME NEW v, IsVersion(v), NEW S PROVE SameConstraints(v, with_features(v, S))
BY FeaturesOnly DEF SameTable, SameRest, SameConstraints

\* What add_constraint makes of a version.
LEMMA ConstraintAdded ==
    ASSUME NEW v, IsVersion(v), NEW o, NEW w, w = add_constraints(v, o)
    PROVE  SameRest(v, w) /\ w.cons = v.cons \cup {o.name}
<1> DEFINE with == [v EXCEPT !.cons = @ \cup {o.name}]
<1>1. SameRest(v, with) /\ with.cons = v.cons \cup {o.name}
  BY DEF IsVersion, SameRest
<1>2. w \in {with, [with EXCEPT !.writer = 3], with_features(with, {"checkConstraints"})}
  BY DEF add_constraints
<1> HIDE DEF with
<1>3. IsVersion(with)
  BY <1>1 DEF SameRest
<1>4. SameConstraints(with, [with EXCEPT !.writer = 3])
  BY <1>3 DEF IsVersion, SameRest, SameConstraints
<1>5. SameConstraints(with, with_features(with, {"checkConstraints"}))
  BY <1>3, SameWithFeature
<1> QED  BY <1>1, <1>2, <1>4, <1>5, SameConstraintsThen

\* What drop_constraint, cluster_by, add_feature and unset_properties make of it.
LEMMA SameColumns ==
    ASSUME NEW v, IsVersion(v), NEW o,
           NEW w, w \in {drop_constraint(v, o), cluster_by(v, o), add_feature(v, o),
                         unset_properties(v, o)}
    PROVE  SameRest(v, w) /\ w.cons \subseteq v.cons
<1>1. CASE w = drop_constraint(v, o)
  BY <1>1 DEF drop_constraint, IsVersion, SameRest
<1>2. CASE w = cluster_by(v, o)
  <2> DEFINE with == [v EXCEPT !.clus = {PhysicalKeys(v, o)}]
  <2>1. SameRest(v, with) /\ with.cons = v.cons
    BY DEF IsVersion, SameRest
  <2>2. w \in {v, with_features(with, {"clustering", "domainMetadata"})}
    BY <1>2 DEF cluster_by
  <2> HIDE DEF with
  <2>3. SameConstraints(with, with_features(with, {"clustering", "domainMetadata"}))
    BY <2>1, SameWithFeature DEF SameRest
  <2> QED  BY <2>1, <2>2, <2>3, SameConstraintsThen DEF SameRest
<1>3. CASE w = add_feature(v, o)
  BY <1>3, SameWithFeature DEF add_feature, SameConstraints
<1>4. CASE w = unset_properties(v, o)
  BY <1>4 DEF unset_properties, IsVersion, SameRest
<1> QED  BY <1>1, <1>2, <1>3, <1>4

\* enable_column_mapping numbers the columns where they are.
LEMMA MappingOk ==
    ASSUME NEW v, NEW at \in Nat, VersionOk(v, at), v.mode # "name",
           NEW w, w = [v EXCEPT !.mode = "name", !.maxId = Len(v.cols),
                                !.cols = [i \in DOMAIN @ |-> [@[i] EXCEPT !.id = i]]]
    PROVE  /\ VersionOk(w, at) /\ InPlace(v, w) /\ SameNumbers(v, w) /\ SameNames(v, w)
           /\ w.cons = v.cons /\ \A i \in DOMAIN v.cols : w.cols[i].null = v.cols[i].null
<1>1. /\ IsVersion(w) /\ w.mode = "name" /\ w.files = v.files /\ w.cons = v.cons
      /\ w.maxId = Len(v.cols)
      /\ w.cols = [i \in DOMAIN v.cols |-> [v.cols[i] EXCEPT !.id = i]]
  BY DEF VersionOk, IsVersion
<1>2. \A i \in DOMAIN v.cols :
        /\ IsColumn(w.cols[i]) /\ w.cols[i].phys = v.cols[i].phys
        /\ w.cols[i].name = v.cols[i].name /\ w.cols[i].null = v.cols[i].null
        /\ w.cols[i].hwm = v.cols[i].hwm /\ w.cols[i].birth = v.cols[i].birth
        /\ w.cols[i].type = v.cols[i].type /\ w.cols[i].id = i
  <2> TAKE i \in DOMAIN v.cols
  <2>1. IsColumn(v.cols[i]) /\ w.cols[i] = [v.cols[i] EXCEPT !.id = i]
    BY <1>1 DEF VersionOk, ColumnsOk
  <2> QED  BY <2>1 DEF IsColumn
<1>3. \E S : w.cols \in Seq(S)
  <2>1. PICK S : v.cols \in Seq(S)
    BY DEF VersionOk, ColumnsOk
  <2>2. w.cols \in Seq({w.cols[i] : i \in DOMAIN v.cols})
    BY <1>1, <2>1
  <2> QED  BY <2>2
<1>4. InPlace(v, w) /\ SameNumbers(v, w) /\ SameNames(v, w)
  <2>1. FirstIds(v, w)
    <3>1. Len(w.cols) = Len(v.cols)
      <4>1. PICK S : v.cols \in Seq(S)
        BY DEF VersionOk, ColumnsOk
      <4>2. PICK T : w.cols \in Seq(T)
        BY <1>3
      <4> QED  BY <1>1, <4>1, <4>2
    <3> QED  BY <1>1, <1>2, <3>1 DEF FirstIds
  <2> QED  BY <1>1, <1>2, <1>3, <2>1 DEF InPlace, SameNumbers, SameNames, Widens
<1>5. VersionOk(w, at)
  <2>1. \A i, j \in DOMAIN v.cols : i # j => w.cols[i].name # w.cols[j].name
    BY <1>2 DEF VersionOk, ColumnsOk
  <2>2. \A i \in DOMAIN v.cols : w.cols[i].hwm = NotIdentity <=> v.cols[i].hwm = NotIdentity
    BY <1>2
  <2>3. w.mode \in {"none", "name", "id"} /\ w.mode # "none"
    BY <1>1
  <2> QED  BY <1>4, <2>1, <2>2, <2>3, InPlaceOk
<1> QED  BY <1>1, <1>2, <1>4, <1>5

\* set_properties may turn column mapping on.
LEMMA SetPropertiesOk ==
    ASSUME NEW v, NEW at \in Nat, VersionOk(v, at), NEW o
    PROVE  LET w == set_properties(v, o) IN
           /\ VersionOk(w, at) /\ InPlace(v, w) /\ SameNumbers(v, w) /\ SameNames(v, w)
           /\ w.cons = v.cons /\ \A i \in DOMAIN v.cols : w.cols[i].null = v.cols[i].null
<1> DEFINE ids == [v EXCEPT !.mode = "name", !.maxId = Len(v.cols),
                            !.cols = [i \in DOMAIN @ |-> [@[i] EXCEPT !.id = i]]]
           mapped == IF "columnMapping" \in o.on THEN enable_column_mapping(v) ELSE v
           with == [mapped EXCEPT !.cfg = @ \cup (o.on \ {"columnMapping"}),
                                  !.stats = IF o.stats = {} THEN @ ELSE o.stats]
           Same(w) == /\ VersionOk(w, at) /\ InPlace(v, w) /\ SameNumbers(v, w) /\ SameNames(v, w)
                      /\ w.cons = v.cons /\ \A i \in DOMAIN v.cols : w.cols[i].null = v.cols[i].null
<1>1. Same(v)
  BY DEF VersionOk, ColumnsOk, InPlace, SameNumbers, SameNames, SameIds, Widens
<1>2. v.mode # "name" => Same(ids)
  BY MappingOk
<1>3. ASSUME NEW u, Same(u), NEW S PROVE Same(with_features(u, S))
  <2>1. /\ VersionOk(with_features(u, S), at) /\ IsVersion(with_features(u, S))
        /\ SameTable(u, with_features(u, S))
    BY <1>3, FeaturesOk, FeaturesOnly DEF VersionOk
  <2> QED  BY <1>3, <2>1, SamePlaces DEF SameTable, SameNumbers, SameNames
<1>4. mapped = v \/ (v.mode # "name" /\ mapped = with_features(ids, {"columnMapping"}))
  BY DEF enable_column_mapping
<1>5. ASSUME NEW u, Same(u), NEW x, x = [u EXCEPT !.cfg = @ \cup (o.on \ {"columnMapping"}),
                                                  !.stats = IF o.stats = {} THEN @ ELSE o.stats]
      PROVE  Same(x)
  <2>1. /\ IsVersion(x) /\ x.cols = u.cols /\ x.mode = u.mode /\ x.files = u.files
        /\ x.cons = u.cons /\ x.maxId = u.maxId
    BY <1>5 DEF VersionOk, IsVersion
  <2> QED  BY <1>5, <2>1, SameColumnsOk, SamePlaces DEF SameNumbers, SameNames
<1> HIDE DEF ids, Same
<1>6. Same(mapped)
  BY <1>1, <1>2, <1>3, <1>4
<1> HIDE DEF mapped
<1>7. Same(with)
  BY <1>5, <1>6
<1> HIDE DEF with
<1>8. set_properties(v, o) = with_features(with, o.on \cap Enabling)
  BY DEF set_properties, with, mapped
<1> QED  BY <1>3, <1>7, <1>8 DEF Same

\* A new column has a name and a Parquet name of its own.
LEMMA AddColumnsOk ==
    ASSUME NEW v, NEW at \in Nat, VersionOk(v, at), NEW o, o.name \notin names(v),
           NEW w, w = add_columns(v, o, at + 1)
    PROVE  /\ VersionOk(w, at + 1) /\ w.files = v.files /\ w.cons = v.cons /\ w.mode = v.mode
           /\ w.cols = Append(v.cols, NewColumn(v, o.name, o.type, at + 1))
           /\ w.maxId = IF MappedColumns(v) THEN max_column_id(v) + 1 ELSE v.maxId
<1> DEFINE c == NewColumn(v, o.name, o.type, at + 1)
           with == [v EXCEPT !.cols = Append(@, c), !.maxId = IF MappedColumns(v) THEN c.id ELSE @]
<1>1. /\ IsColumn(c) /\ c.name = o.name /\ c.hwm = NotIdentity
      /\ c.phys = IF MappedColumns(v) THEN <<"col", at + 1>> ELSE <<o.name, 0>>
      /\ MappedColumns(v) => c.id = max_column_id(v) + 1
  BY DEF NewColumn, IsColumn, NotIdentity
<1>2. /\ IsVersion(with) /\ with.cols = Append(v.cols, c) /\ with.files = v.files
      /\ with.cons = v.cons /\ with.mode = v.mode
      /\ with.maxId = IF MappedColumns(v) THEN c.id ELSE v.maxId
  <2>1. ASSUME NEW u, u = [v EXCEPT !.cols = Append(@, c),
                                    !.maxId = IF MappedColumns(v) THEN c.id ELSE @]
        PROVE  /\ IsVersion(u) /\ u.cols = Append(v.cols, c) /\ u.files = v.files
               /\ u.cons = v.cons /\ u.mode = v.mode
               /\ u.maxId = IF MappedColumns(v) THEN c.id ELSE v.maxId
    BY <2>1 DEF VersionOk, IsVersion
  <2> QED  BY <2>1
<1>3. w = with_features(with, type_features(o.type))
  BY DEF add_columns
<1> HIDE DEF c, with
<1>4. PICK S : v.cols \in Seq(S)
  BY DEF VersionOk, ColumnsOk
<1>5. /\ with.cols \in Seq(S \cup {c}) /\ DOMAIN with.cols = 1..(Len(v.cols) + 1)
      /\ DOMAIN v.cols = 1..Len(v.cols) /\ Len(v.cols) \in Nat
      /\ \A i \in DOMAIN v.cols : with.cols[i] = v.cols[i]
      /\ with.cols[Len(v.cols) + 1] = c
  BY <1>2, <1>4
<1>6. VersionOk(with, at + 1)
  <2>1. \A i \in DOMAIN v.cols :
            /\ v.cols[i].name # c.name /\ v.cols[i].phys # c.phys
            /\ v.cols[i].phys[2] \in 0..(at + 1)
    <3> TAKE i \in DOMAIN v.cols
    <3>1. v.cols[i].name # o.name
      BY DEF names
    <3>2. /\ v.cols[i].phys[2] \in 0..at
          /\ ~MappedColumns(v) => v.cols[i].phys = <<v.cols[i].name, 0>>
      BY DEF VersionOk, ColumnsOk, MappedColumns
    <3>3. v.cols[i].phys # c.phys
      BY <1>1, <3>1, <3>2
    <3> QED  BY <1>1, <3>1, <3>2, <3>3
  <2>2. /\ c.phys = <<c.phys[1], c.phys[2]>> /\ c.phys[2] \in 0..(at + 1)
        /\ v.mode = "none" => c.phys = <<c.name, 0>>
    BY <1>1 DEF MappedColumns
  <2>3. \A i \in DOMAIN with.cols :
            /\ IsColumn(with.cols[i])
            /\ with.cols[i].phys = <<with.cols[i].phys[1], with.cols[i].phys[2]>>
            /\ with.cols[i].phys[2] \in 0..(at + 1)
            /\ with.mode = "none" => with.cols[i].phys = <<with.cols[i].name, 0>>
    <3> TAKE i \in DOMAIN with.cols
    <3>1. CASE i \in DOMAIN v.cols
      BY <1>2, <1>5, <2>1, <3>1 DEF VersionOk, ColumnsOk
    <3>2. CASE i = Len(v.cols) + 1
      BY <1>1, <1>2, <1>5, <2>2, <3>2
    <3> QED  BY <1>5, <3>1, <3>2
  <2>4. \A i, j \in DOMAIN with.cols : i # j =>
            /\ with.cols[i].name # with.cols[j].name /\ with.cols[i].phys # with.cols[j].phys
            /\ with.cols[i].hwm = NotIdentity \/ with.cols[j].hwm = NotIdentity
    <3> TAKE i, j \in DOMAIN with.cols
    <3> HAVE i # j
    <3>1. CASE i \in DOMAIN v.cols /\ j \in DOMAIN v.cols
      BY SMTT(30), <1>5, <3>1 DEF VersionOk, ColumnsOk
    <3>2. CASE i \in DOMAIN v.cols /\ j = Len(v.cols) + 1
      BY <1>1, <1>5, <2>1, <3>2
    <3>3. CASE i = Len(v.cols) + 1 /\ j \in DOMAIN v.cols
      BY <1>1, <1>5, <2>1, <3>3
    <3> QED  BY <1>5, <3>1, <3>2, <3>3
  <2> QED  BY <1>2, <1>5, <2>3, <2>4 DEF VersionOk, ColumnsOk
<1>7. w.maxId = with.maxId
  BY <1>2, <1>3, FeaturesOnly DEF SameTable
<1> QED  BY <1>1, <1>2, <1>3, <1>6, <1>7, FeaturesOk DEF InPlace, c

\* drop_column takes the one column of the name away.
LEMMA DropColumnOk ==
    ASSUME NEW v, NEW at \in Nat, VersionOk(v, at), NEW o, o.name \in names(v),
           NEW w, w = drop_column(v, o)
    PROVE  /\ VersionOk(w, at) /\ w.files = v.files /\ w.cons = v.cons /\ w.mode = v.mode
           /\ w.maxId = v.maxId
           /\ \A j \in DOMAIN w.cols : \E i \in DOMAIN v.cols : w.cols[j] = v.cols[i]
           /\ \A i \in DOMAIN v.cols :
                 v.cols[i].name # o.name => \E j \in DOMAIN w.cols : w.cols[j] = v.cols[i]
<1> DEFINE index == CHOOSE i \in DOMAIN v.cols : v.cols[i].name = o.name
           from(j) == IF j < index THEN j ELSE j + 1
           n == Len(v.cols)
<1>1. /\ IsVersion(w) /\ w.cols = [i \in 1..(n - 1) |-> v.cols[from(i)]]
      /\ w.files = v.files /\ w.cons = v.cons /\ w.mode = v.mode /\ w.maxId = v.maxId
  BY DEF VersionOk, IsVersion, drop_column
<1>2. PICK S : v.cols \in Seq(S)
  BY DEF VersionOk, ColumnsOk
<1>3. DOMAIN v.cols = 1..n /\ n \in Nat /\ \A i \in 1..n : v.cols[i] \in S
  BY <1>2
<1>4. index \in 1..n /\ v.cols[index].name = o.name
  BY <1>3 DEF names
<1> HIDE DEF index, n
<1>5. n - 1 \in Nat /\ DOMAIN w.cols = 1..(n - 1)
  BY <1>1, <1>3, <1>4
<1>6. \A j \in 1..(n - 1) : from(j) \in 1..n /\ w.cols[j] = v.cols[from(j)]
  BY <1>1, <1>3, <1>4
<1>7. \A i, j \in 1..(n - 1) : i # j => from(i) # from(j)
  BY <1>3, <1>4
<1>8. \A i \in 1..n : i # index => \E j \in 1..(n - 1) : from(j) = i
  <2> TAKE i \in 1..n
  <2> HAVE i # index
  <2>1. CASE i < index
    BY <1>3, <1>4, <2>1
  <2>2. CASE i > index
    <3>1. i - 1 \in 1..(n - 1) /\ from(i - 1) = i
      BY <1>3, <1>4, <2>2
    <3> QED  BY <3>1
  <2> QED  BY <1>3, <1>4, <2>1, <2>2
<1> HIDE DEF from
<1>9. w.cols \in Seq(S)
  BY <1>1, <1>3, <1>5, <1>6
<1>10. \A i, j \in DOMAIN w.cols : i # j =>
          /\ w.cols[i].name # w.cols[j].name /\ w.cols[i].phys # w.cols[j].phys
          /\ w.cols[i].hwm = NotIdentity \/ w.cols[j].hwm = NotIdentity
  <2> TAKE i, j \in DOMAIN w.cols
  <2> HAVE i # j
  <2>1. /\ from(i) \in DOMAIN v.cols /\ from(j) \in DOMAIN v.cols /\ from(i) # from(j)
        /\ w.cols[i] = v.cols[from(i)] /\ w.cols[j] = v.cols[from(j)]
    BY <1>3, <1>5, <1>6, <1>7
  <2> QED  BY <2>1 DEF VersionOk, ColumnsOk
<1>11. \A i \in DOMAIN w.cols :
          /\ IsColumn(w.cols[i])
          /\ w.cols[i].phys = <<w.cols[i].phys[1], w.cols[i].phys[2]>> /\ w.cols[i].phys[2] \in 0..at
          /\ w.mode = "none" => w.cols[i].phys = <<w.cols[i].name, 0>>
  <2> TAKE i \in DOMAIN w.cols
  <2>1. from(i) \in DOMAIN v.cols /\ w.cols[i] = v.cols[from(i)]
    BY <1>3, <1>5, <1>6
  <2> QED  BY <1>1, <2>1 DEF VersionOk, ColumnsOk
<1>12. VersionOk(w, at)
  BY <1>1, <1>9, <1>10, <1>11 DEF VersionOk, ColumnsOk
<1>13. \A j \in DOMAIN w.cols : \E i \in DOMAIN v.cols : w.cols[j] = v.cols[i]
  BY <1>3, <1>5, <1>6
<1>14. \A i \in DOMAIN v.cols :
          v.cols[i].name # o.name => \E j \in DOMAIN w.cols : w.cols[j] = v.cols[i]
  <2> TAKE i \in DOMAIN v.cols
  <2> HAVE v.cols[i].name # o.name
  <2>1. PICK j \in 1..(n - 1) : from(j) = i
    BY <1>3, <1>4, <1>8
  <2> QED  BY <1>5, <1>6, <2>1
<1> QED  BY <1>1, <1>12, <1>13, <1>14

\* Changing a field of a column leaves the others.
LEMMA ColumnEdits ==
    ASSUME NEW k, IsColumn(k), NEW x
    PROVE  /\ \A c : c = [k EXCEPT !.name = x] =>
                /\ IsColumn(c) /\ c.name = x /\ c.phys = k.phys /\ c.hwm = k.hwm /\ c.null = k.null
                /\ c.birth = k.birth /\ c.id = k.id /\ c.type = k.type /\ c.gen = k.gen
           /\ \A c : c = [k EXCEPT !.null = x] =>
                /\ IsColumn(c) /\ c.null = x /\ c.phys = k.phys /\ c.hwm = k.hwm /\ c.name = k.name
                /\ c.birth = k.birth /\ c.id = k.id /\ c.type = k.type /\ c.gen = k.gen
           /\ \A c : c = [k EXCEPT !.type = x] =>
                /\ IsColumn(c) /\ c.type = x /\ c.phys = k.phys /\ c.hwm = k.hwm /\ c.name = k.name
                /\ c.null = k.null /\ c.gen = k.gen /\ c.birth = k.birth /\ c.id = k.id
           /\ x \in Nat \cup {NotIdentity} => \A c : c = [k EXCEPT !.hwm = x] =>
                /\ IsColumn(c) /\ c.hwm = x /\ c.phys = k.phys /\ c.name = k.name
                /\ c.null = k.null /\ c.gen = k.gen /\ c.type = k.type
<1>1. ASSUME NEW c, c = [k EXCEPT !.name = x]
      PROVE  /\ IsColumn(c) /\ c.name = x /\ c.phys = k.phys /\ c.hwm = k.hwm /\ c.null = k.null
             /\ c.birth = k.birth /\ c.id = k.id /\ c.type = k.type /\ c.gen = k.gen
  BY <1>1 DEF IsColumn
<1>2. ASSUME NEW c, c = [k EXCEPT !.null = x]
      PROVE  /\ IsColumn(c) /\ c.null = x /\ c.phys = k.phys /\ c.hwm = k.hwm /\ c.name = k.name
             /\ c.birth = k.birth /\ c.id = k.id /\ c.type = k.type /\ c.gen = k.gen
  BY <1>2 DEF IsColumn
<1>3. ASSUME NEW c, c = [k EXCEPT !.type = x]
      PROVE  /\ IsColumn(c) /\ c.type = x /\ c.phys = k.phys /\ c.hwm = k.hwm /\ c.name = k.name
             /\ c.null = k.null /\ c.gen = k.gen /\ c.birth = k.birth /\ c.id = k.id
  BY <1>3 DEF IsColumn
<1>4. ASSUME NEW c, c = [k EXCEPT !.hwm = x], x \in Nat \cup {NotIdentity}
      PROVE  /\ IsColumn(c) /\ c.hwm = x /\ c.phys = k.phys /\ c.name = k.name /\ c.null = k.null
             /\ c.gen = k.gen /\ c.type = k.type
  BY <1>4 DEF IsColumn
<1> QED  BY <1>1, <1>2, <1>3, <1>4

\* rename_column, set_nullability and alter_column_type change one field of one column.
LEMMA RenameColumnOk ==
    ASSUME NEW v, NEW at \in Nat, VersionOk(v, at), NEW o, o.name \in names(v),
           o.to \notin names(v), require_column_mapping(v), NEW w, w = rename_column(v, o)
    PROVE  /\ VersionOk(w, at) /\ InPlace(v, w) /\ SameNumbers(v, w) /\ w.cons = v.cons
           /\ \A i \in DOMAIN v.cols :
                 /\ w.cols[i].name = IF v.cols[i].name = o.name THEN o.to ELSE v.cols[i].name
                 /\ w.cols[i].null = v.cols[i].null
<1>1. PICK k \in DOMAIN v.cols : v.cols[k].name = o.name /\ Column(v, o.name) = v.cols[k]
  BY ColumnFound
<1>2. ASSUME NEW c, c = [Column(v, o.name) EXCEPT !.name = o.to]
      PROVE  /\ IsColumn(c) /\ c.phys = v.cols[k].phys /\ c.hwm = v.cols[k].hwm
             /\ c.null = v.cols[k].null /\ c.name = o.to /\ c.birth = v.cols[k].birth
             /\ c.id = v.cols[k].id /\ c.type = v.cols[k].type
  <2>1. IsColumn(v.cols[k])
    BY DEF VersionOk, ColumnsOk
  <2> QED  BY <1>1, <1>2, <2>1, ColumnEdits
<1> DEFINE c == [Column(v, o.name) EXCEPT !.name = o.to]
           u == WithColumn(v, o.name, c)
<1>3. /\ IsColumn(c) /\ c.phys = v.cols[k].phys /\ c.hwm = v.cols[k].hwm
      /\ c.null = v.cols[k].null /\ c.name = o.to /\ c.birth = v.cols[k].birth
      /\ c.id = v.cols[k].id /\ c.type = v.cols[k].type
  BY <1>2
<1>4. w = [u EXCEPT !.parts = {IF p = o.name THEN o.to ELSE p : p \in @}]
  BY DEF rename_column
<1> HIDE DEF c
<1>5. \A i \in DOMAIN v.cols : v.cols[i].name = o.name => i = k
  BY <1>1 DEF VersionOk, ColumnsOk
<1>6. /\ InPlace(v, u) /\ u.mode = v.mode /\ u.cons = v.cons
      /\ \A i \in DOMAIN v.cols : u.cols[i] = IF v.cols[i].name = o.name THEN c ELSE v.cols[i]
  <2>1. \A i \in DOMAIN v.cols : v.cols[i].name = o.name =>
          /\ c.phys = v.cols[i].phys /\ c.birth = v.cols[i].birth /\ c.id = v.cols[i].id
          /\ Widens(v.cols[i].type, c.type)
    BY <1>3, <1>5 DEF Widens
  <2> QED  BY <1>3, <2>1, WithColumnPlaces
<1> HIDE DEF u
<1>7. /\ IsVersion(w) /\ w.cols = u.cols /\ w.mode = u.mode /\ w.files = u.files
      /\ w.cons = u.cons /\ w.maxId = u.maxId
  BY <1>4, <1>6 DEF InPlace, IsVersion
<1>8. \A i \in DOMAIN v.cols :
        /\ w.cols[i].name = IF v.cols[i].name = o.name THEN o.to ELSE v.cols[i].name
        /\ w.cols[i].null = v.cols[i].null /\ w.cols[i].hwm = v.cols[i].hwm
  BY <1>3, <1>5, <1>6, <1>7
<1>9. InPlace(v, w) /\ SameNumbers(v, w)
  BY <1>6, <1>7, <1>8, SamePlaces DEF SameNumbers
<1>10. VersionOk(w, at)
  <2>1. \A i, j \in DOMAIN v.cols : i # j => w.cols[i].name # w.cols[j].name
    BY <1>8 DEF VersionOk, ColumnsOk, names
  <2>2. w.mode = v.mode /\ w.mode # "none"
    BY <1>6, <1>7 DEF require_column_mapping
  <2>3. \A i \in DOMAIN v.cols : w.cols[i].hwm = NotIdentity <=> v.cols[i].hwm = NotIdentity
    BY <1>8
  <2>4. w.mode \in {"none", "name", "id"}
    BY <2>2 DEF VersionOk
  <2> QED  BY <1>9, <2>1, <2>2, <2>3, <2>4, InPlaceOk
<1> QED  BY <1>6, <1>7, <1>8, <1>9, <1>10

\* Replacing one column's record, under the same name, Parquet name, id, birth and mark, and with a
\* type as wide, keeps the version well formed and the other columns as they are.
LEMMA OneColumnOk ==
    ASSUME NEW v, NEW at \in Nat, VersionOk(v, at), NEW n, n \in names(v),
           NEW c, IsColumn(c), c.name = n, c.phys = Column(v, n).phys, c.hwm = Column(v, n).hwm,
           c.birth = Column(v, n).birth, c.id = Column(v, n).id, Widens(Column(v, n).type, c.type),
           NEW w, w = WithColumn(v, n, c)
    PROVE  /\ VersionOk(w, at) /\ InPlace(v, w) /\ SameNumbers(v, w) /\ SameNames(v, w)
           /\ w.cons = v.cons /\ w.mode = v.mode
           /\ \A i \in DOMAIN v.cols :
                 IF v.cols[i].name = n THEN w.cols[i] = c /\ v.cols[i] = Column(v, n)
                 ELSE w.cols[i] = v.cols[i]
<1>1. \A i \in DOMAIN v.cols : v.cols[i].name = n => v.cols[i] = Column(v, n)
  BY ColumnOf
<1>2. /\ InPlace(v, w) /\ w.mode = v.mode /\ w.cons = v.cons
      /\ \A i \in DOMAIN v.cols : w.cols[i] = IF v.cols[i].name = n THEN c ELSE v.cols[i]
  <2>1. \A i \in DOMAIN v.cols : v.cols[i].name = n =>
          /\ c.phys = v.cols[i].phys /\ c.birth = v.cols[i].birth /\ c.id = v.cols[i].id
          /\ Widens(v.cols[i].type, c.type)
    BY <1>1
  <2> QED  BY <2>1, WithColumnPlaces
<1>3. SameNumbers(v, w) /\ SameNames(v, w)
  BY <1>1, <1>2 DEF SameNumbers, SameNames
<1>4. VersionOk(w, at)
  <2>1. \A i, j \in DOMAIN v.cols : i # j => w.cols[i].name # w.cols[j].name
    BY <1>3 DEF VersionOk, ColumnsOk, SameNames
  <2>2. \A i \in DOMAIN v.cols : w.cols[i].hwm = NotIdentity <=> v.cols[i].hwm = NotIdentity
    BY <1>3 DEF SameNumbers
  <2>3. w.mode \in {"none", "name", "id"}
    BY <1>2 DEF VersionOk
  <2> QED  BY <1>2, <1>3, <2>1, <2>2, <2>3, InPlaceOk
<1> QED  BY <1>1, <1>2, <1>3, <1>4

\* SET and DROP NOT NULL change one column's nullability (metadata.py set_nullability).
LEMMA SetNullabilityOk ==
    ASSUME NEW v, NEW at \in Nat, VersionOk(v, at), NEW o, o.name \in names(v),
           NEW w, w = set_nullability(v, o)
    PROVE  /\ VersionOk(w, at) /\ InPlace(v, w) /\ SameNumbers(v, w) /\ SameNames(v, w)
           /\ w.cons = v.cons
           /\ \A i \in DOMAIN v.cols :
                 w.cols[i].null = IF v.cols[i].name = o.name THEN o.null ELSE v.cols[i].null
<1>1. PICK k \in DOMAIN v.cols : v.cols[k].name = o.name /\ Column(v, o.name) = v.cols[k]
  BY ColumnFound
<1>2. ASSUME NEW c, c = [Column(v, o.name) EXCEPT !.null = o.null]
      PROVE  /\ IsColumn(c) /\ c.phys = Column(v, o.name).phys /\ c.hwm = Column(v, o.name).hwm
             /\ c.null = o.null /\ c.name = o.name /\ c.birth = Column(v, o.name).birth
             /\ c.id = Column(v, o.name).id /\ Widens(Column(v, o.name).type, c.type)
  <2>1. IsColumn(Column(v, o.name))
    BY <1>1 DEF VersionOk, ColumnsOk
  <2> QED  BY <1>1, <1>2, <2>1, ColumnEdits DEF Widens
<1> QED  BY <1>2, OneColumnOk DEF set_nullability

\* ALTER COLUMN TYPE widens one column's type and changes no nullability (metadata.py
\* alter_column_type).
LEMMA AlterColumnTypeOk ==
    ASSUME NEW v, NEW at \in Nat, VersionOk(v, at), NEW o, o.name \in names(v),
           widening_allowed(Column(v, o.name).type, o.type),
           NEW w, w = alter_column_type(v, o)
    PROVE  /\ VersionOk(w, at) /\ InPlace(v, w) /\ SameNumbers(v, w) /\ SameNames(v, w)
           /\ w.cons = v.cons /\ \A i \in DOMAIN v.cols : w.cols[i].null = v.cols[i].null
<1>1. PICK k \in DOMAIN v.cols : v.cols[k].name = o.name /\ Column(v, o.name) = v.cols[k]
  BY ColumnFound
<1>2. ASSUME NEW c, c = [Column(v, o.name) EXCEPT !.type = o.type]
      PROVE  /\ IsColumn(c) /\ c.phys = Column(v, o.name).phys /\ c.hwm = Column(v, o.name).hwm
             /\ c.null = Column(v, o.name).null /\ c.name = o.name /\ c.birth = Column(v, o.name).birth
             /\ c.id = Column(v, o.name).id /\ Widens(Column(v, o.name).type, c.type)
  <2>1. IsColumn(Column(v, o.name))
    BY <1>1 DEF VersionOk, ColumnsOk
  <2> QED  BY <1>1, <1>2, <2>1, ColumnEdits DEF Widens
<1> DEFINE c == [Column(v, o.name) EXCEPT !.type = o.type]
           u == WithColumn(v, o.name, c)
<1>3. /\ IsColumn(c) /\ c.phys = Column(v, o.name).phys /\ c.hwm = Column(v, o.name).hwm
      /\ c.null = Column(v, o.name).null /\ c.name = o.name /\ c.birth = Column(v, o.name).birth
      /\ c.id = Column(v, o.name).id /\ Widens(Column(v, o.name).type, c.type)
  BY <1>2
<1> HIDE DEF c
<1>4. /\ VersionOk(u, at) /\ InPlace(v, u) /\ SameNumbers(v, u) /\ SameNames(v, u)
      /\ u.cons = v.cons /\ \A i \in DOMAIN v.cols : u.cols[i].null = v.cols[i].null
  BY <1>3, OneColumnOk
<1>5. w = with_features(u, {"typeWidening"} \cup type_features(o.type))
  BY DEF alter_column_type, c
<1> HIDE DEF u
<1>6. VersionOk(w, at) /\ IsVersion(w) /\ SameTable(u, w)
  BY <1>4, <1>5, FeaturesOk, FeaturesOnly DEF VersionOk
<1> QED  BY <1>4, <1>6, SamePlaces DEF SameTable, SameNumbers, SameNames

\* reserve_identity moves the mark of the identity column.
LEMMA ReserveOk ==
    ASSUME NEW v, NEW at \in Nat, VersionOk(v, at), NEW count \in Nat,
           NEW w, w = reserve_identity(v, count)
    PROVE  /\ VersionOk(w, at) /\ InPlace(v, w) /\ SameNames(v, w) /\ w.cons = v.cons
           /\ w.mode = v.mode /\ Numbered(v, w, count)
           /\ \A i \in DOMAIN v.cols :
                 /\ w.cols[i].null = v.cols[i].null /\ w.cols[i].gen = v.cols[i].gen
                 /\ w.cols[i].hwm = NotIdentity <=> v.cols[i].hwm = NotIdentity
<1> DEFINE cols == [i \in DOMAIN v.cols |->
                IF i \in IdentityColumn(v) THEN [v.cols[i] EXCEPT !.hwm = @ + count] ELSE v.cols[i]]
<1>1. /\ IsVersion(w) /\ w.cols = cols /\ w.files = v.files /\ w.cons = v.cons /\ w.mode = v.mode
      /\ w.maxId = v.maxId
  <2>1. ASSUME NEW f, NEW u, u = [v EXCEPT !.cols = f]
        PROVE  /\ IsVersion(u) /\ u.cols = f /\ u.files = v.files /\ u.cons = v.cons
               /\ u.mode = v.mode /\ u.maxId = v.maxId
    BY <2>1 DEF VersionOk, IsVersion
  <2>2. w = [v EXCEPT !.cols = cols]
    BY DEF reserve_identity
  <2> HIDE DEF cols
  <2> QED  BY <2>1, <2>2
<1>2. \A i \in DOMAIN v.cols :
        /\ IsColumn(cols[i]) /\ cols[i].phys = v.cols[i].phys /\ cols[i].name = v.cols[i].name
        /\ cols[i].null = v.cols[i].null /\ cols[i].gen = v.cols[i].gen
        /\ cols[i].birth = v.cols[i].birth /\ cols[i].id = v.cols[i].id
        /\ cols[i].type = v.cols[i].type
        /\ cols[i].hwm = IF v.cols[i].hwm = NotIdentity THEN NotIdentity ELSE v.cols[i].hwm + count
        /\ v.cols[i].hwm \in Nat \cup {NotIdentity}
  <2> TAKE i \in DOMAIN v.cols
  <2>1. IsColumn(v.cols[i])
    BY DEF VersionOk, ColumnsOk
  <2>2. CASE v.cols[i].hwm = NotIdentity
    <3>1. cols[i] = v.cols[i]
      BY <2>2 DEF IdentityColumn
    <3> HIDE DEF cols
    <3> QED  BY <2>1, <2>2, <3>1 DEF IsColumn
  <2>3. ASSUME v.cols[i].hwm # NotIdentity, NEW c, c = [v.cols[i] EXCEPT !.hwm = @ + count]
        PROVE  /\ IsColumn(c) /\ c.phys = v.cols[i].phys /\ c.name = v.cols[i].name
               /\ c.null = v.cols[i].null /\ c.gen = v.cols[i].gen
               /\ c.birth = v.cols[i].birth /\ c.id = v.cols[i].id /\ c.type = v.cols[i].type
               /\ c.hwm = v.cols[i].hwm + count /\ v.cols[i].hwm \in Nat
    BY <2>1, <2>3 DEF IsColumn
  <2>4. CASE v.cols[i].hwm # NotIdentity
    <3>1. cols[i] = [v.cols[i] EXCEPT !.hwm = @ + count]
      BY <2>4 DEF IdentityColumn
    <3> QED  BY <2>3, <2>4, <3>1
  <2> QED  BY <2>2, <2>4
<1> HIDE DEF cols
<1>3. \E S : w.cols \in Seq(S)
  <2>1. PICK S : v.cols \in Seq(S)
    BY DEF VersionOk, ColumnsOk
  <2>2. w.cols \in Seq({cols[i] : i \in DOMAIN v.cols})
    BY <1>1, <2>1 DEF cols
  <2> QED  BY <2>2
<1>4. DOMAIN w.cols = DOMAIN v.cols
  BY <1>1 DEF cols
<1>5. InPlace(v, w) /\ SameNames(v, w)
  BY <1>1, <1>2, <1>3, <1>4 DEF InPlace, SameNames, SameIds, Widens
<1>6. \A i \in DOMAIN v.cols : w.cols[i].hwm = NotIdentity <=> v.cols[i].hwm = NotIdentity
  BY <1>1, <1>2 DEF NotIdentity
<1>7. VersionOk(w, at)
  <2>1. \A i, j \in DOMAIN v.cols : i # j => w.cols[i].name # w.cols[j].name
    BY <1>1, <1>2 DEF VersionOk, ColumnsOk
  <2>2. w.mode \in {"none", "name", "id"}
    BY <1>1 DEF VersionOk
  <2> QED  BY <1>1, <1>5, <1>6, <2>1, <2>2, InPlaceOk
<1>8. Numbered(v, w, count)
  <2> SUFFICES ASSUME NEW j \in IdentityColumn(w)
               PROVE  j \in IdentityColumn(v) /\ w.cols[j].hwm = v.cols[j].hwm + count
    BY DEF Numbered
  <2>1. j \in DOMAIN v.cols /\ w.cols[j].hwm # NotIdentity
    BY <1>4 DEF IdentityColumn
  <2> QED  BY <1>1, <1>2, <1>6, <2>1 DEF IdentityColumn
<1> QED  BY <1>1, <1>2, <1>5, <1>6, <1>7, <1>8

\* What was numbered stays so where the columns do.
LEMMA PlacesNumbered ==
    ASSUME NEW v, NEW w, InPlace(v, w), SameNumbers(v, w),
           \A i \in DOMAIN v.cols : IsColumn(v.cols[i])
    PROVE  Numbered(v, w, 0)
<1> SUFFICES ASSUME NEW j \in IdentityColumn(w)
             PROVE  j \in IdentityColumn(v) /\ w.cols[j].hwm = v.cols[j].hwm + 0
  BY DEF Numbered
<1>1. j \in DOMAIN v.cols /\ w.cols[j].hwm # NotIdentity /\ w.cols[j].hwm = v.cols[j].hwm
  BY DEF IdentityColumn, InPlace, SameNumbers
<1>2. v.cols[j].hwm \in Nat
  BY <1>1 DEF IsColumn
<1> QED  BY <1>1, <1>2 DEF IdentityColumn

\* The columns of w are those of v, in place or not, and one that version at adds: under a name
\* and, where v has them mapped, a field id and a Parquet name that no column has had.
Continues(c, d) == d.phys = c.phys /\ d.birth = c.birth /\ Widens(c.type, d.type)
NewTo(v, d, at) ==
    /\ d.birth = at
    /\ d.phys = IF MappedColumns(v) THEN <<"col", at>> ELSE <<d.name, 0>>
    /\ MappedColumns(v) \/ d.name \notin names(v)
Descends(v, w, at) ==
    /\ \A j \in DOMAIN w.cols :
          \/ \E i \in DOMAIN v.cols : Continues(v.cols[i], w.cols[j])
          \/ NewTo(v, w.cols[j], at) /\ w.mode = v.mode
    /\ w.mode = "none" =>
          v.mode = "none" /\ \A i \in DOMAIN v.cols : \E j \in DOMAIN w.cols : w.cols[j].phys = v.cols[i].phys

\* The field ids of w are those of v, and the one that is next for the column it adds; or the first
\* there are.
IdsDescend(v, w, at) ==
    IF v.mode = "name"
    THEN /\ w.mode = "name" /\ w.maxId \in {v.maxId, max_column_id(v) + 1}
         /\ \A j \in DOMAIN w.cols :
               \/ \E i \in DOMAIN v.cols :
                     w.cols[j].id = v.cols[i].id /\ w.cols[j].birth = v.cols[i].birth
               \/ /\ w.cols[j].id = max_column_id(v) + 1 /\ w.cols[j].birth = at
                  /\ w.maxId = max_column_id(v) + 1
    ELSE w.mode = "name" => w.maxId = Len(w.cols) /\ \A j \in DOMAIN w.cols : w.cols[j].id = j

\* A change in place brings no column and no id.
LEMMA InPlaceDescends ==
    ASSUME NEW v, NEW at, VersionOk(v, at), NEW w, InPlace(v, w), NEW n
    PROVE  Descends(v, w, n) /\ IdsDescend(v, w, n)
<1>1. /\ DOMAIN w.cols = DOMAIN v.cols
      /\ \A j \in DOMAIN w.cols : j \in DOMAIN v.cols /\ Continues(v.cols[j], w.cols[j])
  BY DEF InPlace, Continues
<1>2. w.mode = "none" => v.mode = "none"
  BY DEF InPlace, SameIds, FirstIds
<1>3. Descends(v, w, n)
  BY <1>1, <1>2 DEF Descends, Continues
<1>4. CASE SameIds(v, w)
  BY <1>1, <1>3, <1>4 DEF SameIds, IdsDescend, Continues
<1>5. CASE FirstIds(v, w)
  BY <1>1, <1>3, <1>5 DEF FirstIds, IdsDescend
<1> QED  BY <1>4, <1>5 DEF InPlace

\* add_columns brings one of each.
LEMMA AddedDescends ==
    ASSUME NEW v, NEW at \in Nat, VersionOk(v, at), NEW u, VersionOk(u, at), InPlace(v, u),
           SameNames(v, u), u.mode = v.mode, NEW o, o.name \notin names(v),
           NEW w, w = add_columns(u, o, at + 1)
    PROVE  Descends(v, w, at + 1) /\ IdsDescend(v, w, at + 1)
<1> DEFINE c == NewColumn(u, o.name, o.type, at + 1)
<1>1. names(u) = names(v)
  BY DEF names, InPlace, SameNames
<1>2. /\ w.mode = v.mode /\ w.cols = Append(u.cols, c)
      /\ w.maxId = IF MappedColumns(u) THEN max_column_id(u) + 1 ELSE u.maxId
  BY <1>1, AddColumnsOk
<1>3. /\ c.birth = at + 1 /\ c.name = o.name
      /\ c.phys = IF MappedColumns(u) THEN <<"col", at + 1>> ELSE <<o.name, 0>>
      /\ MappedColumns(u) => c.id = max_column_id(u) + 1
  BY DEF NewColumn
<1> HIDE DEF c
<1>4. MappedColumns(u) = MappedColumns(v)
  BY DEF MappedColumns
<1>5. NewTo(v, c, at + 1)
  BY <1>3, <1>4 DEF NewTo
<1>6. PICK S : u.cols \in Seq(S)
  BY DEF InPlace
<1>7. /\ DOMAIN w.cols = 1..(Len(u.cols) + 1) /\ Len(u.cols) \in Nat
      /\ DOMAIN v.cols = 1..Len(u.cols)
      /\ \A j \in DOMAIN v.cols : w.cols[j] = u.cols[j]
      /\ w.cols[Len(u.cols) + 1] = c
  BY SMTT(30), <1>2, <1>6, Appended DEF InPlace
<1>8. \A j \in DOMAIN v.cols : Continues(v.cols[j], w.cols[j])
  BY <1>7 DEF InPlace, Continues
<1>9. Descends(v, w, at + 1)
  <2>1. \A j \in DOMAIN w.cols :
          \/ \E i \in DOMAIN v.cols : Continues(v.cols[i], w.cols[j])
          \/ NewTo(v, w.cols[j], at + 1) /\ w.mode = v.mode
    BY SMTT(30), <1>2, <1>5, <1>7, <1>8
  <2>2. \A i \in DOMAIN v.cols : i \in DOMAIN w.cols /\ w.cols[i].phys = v.cols[i].phys
    BY <1>7, <1>8 DEF Continues
  <2> QED  BY <1>2, <2>1, <2>2 DEF Descends
<1>10. IdsDescend(v, w, at + 1)
  <2>1. CASE v.mode = "name"
    <3>1. SameIds(v, u) /\ MappedColumns(u)
      BY <2>1 DEF InPlace, FirstIds, MappedColumns
    <3>2. max_column_id(u) = max_column_id(v)
      <4>1. {u.cols[i].id : i \in DOMAIN u.cols} = {v.cols[i].id : i \in DOMAIN v.cols}
        BY <3>1 DEF SameIds, InPlace
      <4> QED  BY <3>1, <4>1 DEF max_column_id, SameIds
    <3>3. \A j \in DOMAIN v.cols : w.cols[j].id = v.cols[j].id /\ w.cols[j].birth = v.cols[j].birth
      BY <1>7, <1>8, <3>1 DEF SameIds, Continues
    <3>4. w.maxId = max_column_id(v) + 1 /\ c.id = max_column_id(v) + 1
      BY <1>2, <1>3, <3>1, <3>2
    <3>5. \A j \in DOMAIN w.cols :
            \/ \E i \in DOMAIN v.cols :
                  w.cols[j].id = v.cols[i].id /\ w.cols[j].birth = v.cols[i].birth
            \/ w.cols[j].id = max_column_id(v) + 1 /\ w.cols[j].birth = at + 1
      <4> TAKE j \in DOMAIN w.cols
      <4>1. CASE j \in DOMAIN v.cols
        BY <3>3, <4>1
      <4>2. CASE j = Len(u.cols) + 1
        BY <1>3, <1>7, <3>4, <4>2
      <4> QED  BY <1>7, <4>1, <4>2
    <3> QED  BY <1>2, <2>1, <3>4, <3>5 DEF IdsDescend
  <2>2. CASE v.mode # "name"
    BY <1>2, <2>2 DEF IdsDescend
  <2> QED  BY <2>1, <2>2
<1> QED  BY <1>9, <1>10

\* The chunks of a file are of columns the table has had, and one that is found under a column's
\* Parquet name was written for it.
FileOwn(f, v, at) ==
    \A k \in f :
        /\ k.phys[2] \in 0..at
        /\ v.mode = "none" => \E i \in DOMAIN v.cols : k.phys = v.cols[i].phys
        /\ \A i \in DOMAIN v.cols :
              k.phys = v.cols[i].phys =>
                 k.birth = v.cols[i].birth /\ Widens(k.type, v.cols[i].type)

FilesOwn == \A n \in DOMAIN log : \A f \in log[n].files : FileOwn(f, log[n], n - 1)

\* Once the columns are mapped they stay so, and no id is handed out to two of them.
IdsOk ==
    /\ \A n \in DOMAIN log : log[n].mode = "name" =>
          /\ Latest.mode = "name" /\ log[n].maxId \in Nat /\ Latest.maxId \in Nat
          /\ log[n].maxId <= Latest.maxId
          /\ \A i \in DOMAIN log[n].cols : log[n].cols[i].id \in 0..log[n].maxId
    /\ \A m, n \in DOMAIN log : log[m].mode = "name" /\ log[n].mode = "name" =>
          \A i \in DOMAIN log[m].cols : \A j \in DOMAIN log[n].cols :
             log[m].cols[i].id = log[n].cols[j].id => log[m].cols[i].birth = log[n].cols[j].birth

\* A column of w was one of v, or is new to it and may be null.
Grown(v, w) ==
    /\ w.cons = v.cons /\ names(v) \subseteq names(w)
    /\ \A j \in DOMAIN w.cols :
          \/ \E i \in DOMAIN v.cols :
                /\ w.cols[j].name = v.cols[i].name /\ w.cols[j].phys = v.cols[i].phys
                /\ w.cols[j].null = v.cols[i].null /\ w.cols[j].gen = v.cols[i].gen
                /\ w.cols[j].hwm = NotIdentity <=> v.cols[i].hwm = NotIdentity
          \/ /\ w.cols[j].name \notin names(v) /\ w.cols[j].null = TRUE
             /\ w.cols[j].hwm = NotIdentity

\* merge_schema widens columns where they are.
MergedColumns(v, w, at) ==
    /\ VersionOk(w, at) /\ InPlace(v, w) /\ SameNumbers(v, w) /\ SameNames(v, w)
    /\ w.cons = v.cons /\ w.mode = v.mode
    /\ \A i \in DOMAIN v.cols : w.cols[i].null = v.cols[i].null /\ w.cols[i].gen = v.cols[i].gen

\* The columns a merge of schemas widens keep everything but their type (metadata.py merge_schema).
LEMMA MergeColumnsOk ==
    ASSUME NEW v, NEW at \in Nat, VersionOk(v, at), NEW o,
           \A f, g \in o.batch : f.name = g.name => f = g, NEW wanted,
           NEW w, w = with_features([v EXCEPT !.cols = [i \in DOMAIN v.cols |->
                        IF \E f \in Widened(v, o) : f.name = v.cols[i].name
                        THEN [v.cols[i] EXCEPT
                                 !.type = (CHOOSE f \in o.batch : f.name = v.cols[i].name).type]
                        ELSE v.cols[i]]], wanted)
    PROVE  MergedColumns(v, w, at)
<1> DEFINE type(i) == (CHOOSE f \in o.batch : f.name = v.cols[i].name).type
           cols == [i \in DOMAIN v.cols |-> IF \E f \in Widened(v, o) : f.name = v.cols[i].name
                                            THEN [v.cols[i] EXCEPT !.type = type(i)] ELSE v.cols[i]]
           wide == [v EXCEPT !.cols = cols]
           Same(u) == /\ VersionOk(u, at) /\ InPlace(v, u) /\ SameNumbers(v, u) /\ SameNames(v, u)
                      /\ u.cons = v.cons /\ u.mode = v.mode
                      /\ \A i \in DOMAIN v.cols : /\ u.cols[i].null = v.cols[i].null
                                                  /\ u.cols[i].gen = v.cols[i].gen
<1>1. w = with_features(wide, wanted)
  OBVIOUS
<1>2. \A i \in DOMAIN v.cols :
        /\ IsColumn(cols[i]) /\ cols[i].phys = v.cols[i].phys /\ cols[i].name = v.cols[i].name
        /\ cols[i].null = v.cols[i].null /\ cols[i].gen = v.cols[i].gen
        /\ cols[i].hwm = v.cols[i].hwm /\ cols[i].birth = v.cols[i].birth
        /\ cols[i].id = v.cols[i].id /\ Widens(v.cols[i].type, cols[i].type)
  <2> TAKE i \in DOMAIN v.cols
  <2>1. IsColumn(v.cols[i])
    BY DEF VersionOk, ColumnsOk
  <2>2. \/ cols[i] = v.cols[i]
        \/ /\ \E f \in Widened(v, o) : f.name = v.cols[i].name
           /\ cols[i] = [v.cols[i] EXCEPT !.type = type(i)]
    OBVIOUS
  <2>3. ASSUME NEW f \in Widened(v, o), f.name = v.cols[i].name
        PROVE  widening_allowed(v.cols[i].type, type(i))
    <3>1. f \in o.batch /\ widening_allowed(Column(v, f.name).type, f.type)
      BY DEF Widened
    <3>2. (CHOOSE g \in o.batch : g.name = v.cols[i].name) = f
      BY <2>3, <3>1
    <3> QED  BY SMTT(30), <2>3, <3>1, <3>2, ColumnOf
  <2> HIDE DEF cols, type
  <2> QED  BY <2>1, <2>2, <2>3, ColumnEdits DEF Widens
<1>3. Same(wide)
  <2>1. ASSUME NEW f, NEW u, u = [v EXCEPT !.cols = f]
        PROVE  /\ IsVersion(u) /\ u.cols = f /\ u.files = v.files /\ u.cons = v.cons
               /\ u.mode = v.mode /\ u.maxId = v.maxId
    BY <2>1 DEF VersionOk, IsVersion
  <2>2. DOMAIN cols = DOMAIN v.cols
    OBVIOUS
  <2>3. \E S : cols \in Seq(S)
    <3>1. PICK S : v.cols \in Seq(S)
      BY DEF VersionOk, ColumnsOk
    <3>2. cols = [i \in DOMAIN v.cols |-> cols[i]]
      OBVIOUS
    <3> HIDE DEF cols
    <3> QED  BY <3>1, <3>2, OfAnySet
  <2> HIDE DEF cols
  <2>4. /\ IsVersion(wide) /\ wide.cols = cols /\ wide.files = v.files /\ wide.cons = v.cons
        /\ wide.mode = v.mode /\ wide.maxId = v.maxId
    BY <2>1
  <2> HIDE DEF wide
  <2>5. InPlace(v, wide) /\ SameNumbers(v, wide) /\ SameNames(v, wide)
    BY <1>2, <2>2, <2>3, <2>4 DEF InPlace, SameNumbers, SameNames, SameIds
  <2>6. \A i, j \in DOMAIN v.cols : i # j => wide.cols[i].name # wide.cols[j].name
    BY <1>2, <2>4 DEF VersionOk, ColumnsOk
  <2>7. \A i \in DOMAIN v.cols : wide.cols[i].hwm = NotIdentity <=> v.cols[i].hwm = NotIdentity
    BY <1>2, <2>4
  <2>8. wide.mode \in {"none", "name", "id"}
    BY <2>4 DEF VersionOk
  <2>9. VersionOk(wide, at)
    BY <2>4, <2>5, <2>6, <2>7, <2>8, InPlaceOk
  <2> QED  BY <1>2, <2>4, <2>5, <2>9
<1> HIDE DEF cols, wide
<1>4. VersionOk(w, at) /\ IsVersion(w) /\ SameTable(wide, w)
  BY <1>1, <1>3, FeaturesOk, FeaturesOnly DEF VersionOk
<1> HIDE DEF wide
<1> QED  BY <1>3, <1>4, SamePlaces DEF SameTable, SameNumbers, SameNames, MergedColumns

\* merge_schema widens columns and adds one.
LEMMA MergeSchemaOk ==
    ASSUME NEW v, NEW at \in Nat, VersionOk(v, at), NEW o,
           \A f, g \in o.batch : f.name = g.name => f = g, NEW w, w = merge_schema(v, o, at + 1)
    PROVE  /\ VersionOk(w, at + 1) /\ w.files = v.files /\ Grown(v, w)
           /\ Descends(v, w, at + 1) /\ IdsDescend(v, w, at + 1)
           /\ Numbered(v, w, 0)
<1> DEFINE type(i) == (CHOOSE f \in o.batch : f.name = v.cols[i].name).type
           cols == [i \in DOMAIN v.cols |-> IF \E f \in Widened(v, o) : f.name = v.cols[i].name
                                            THEN [v.cols[i] EXCEPT !.type = type(i)] ELSE v.cols[i]]
           wide == [v EXCEPT !.cols = cols]
           new == {f \in o.batch : f.name \notin names(v)}
           wanted == (IF Widened(v, o) = {} THEN {} ELSE {"typeWidening"})
                         \cup UNION {type_features(f.type) : f \in Widened(v, o)}
           evolved == with_features(wide, wanted)
           Same(u) == /\ VersionOk(u, at) /\ InPlace(v, u) /\ SameNumbers(v, u) /\ SameNames(v, u)
                      /\ u.cons = v.cons /\ u.mode = v.mode
                      /\ \A i \in DOMAIN v.cols : /\ u.cols[i].null = v.cols[i].null
                                                  /\ u.cols[i].gen = v.cols[i].gen
<1>1. w = IF new = {} THEN evolved ELSE add_columns(evolved, CHOOSE f \in new : TRUE, at + 1)
  BY DEF merge_schema
<1>2. MergedColumns(v, evolved, at)
  BY MergeColumnsOk
<1> HIDE DEF evolved
<1>3. Same(evolved)
  BY <1>2 DEF MergedColumns
<1>4. ASSUME new = {}
      PROVE  /\ VersionOk(w, at + 1) /\ w.files = v.files /\ Grown(v, w)
             /\ Descends(v, w, at + 1) /\ IdsDescend(v, w, at + 1)
             /\ Numbered(v, w, 0)
  <2>1. w = evolved
    BY <1>1, <1>4
  <2>2. VersionOk(w, at + 1) /\ w.files = v.files
    BY <1>3, <2>1, OkLater DEF InPlace
  <2>3. Grown(v, w)
    BY <1>3, <2>1 DEF Grown, InPlace, SameNumbers, SameNames, names
  <2>4. Descends(v, w, at + 1) /\ IdsDescend(v, w, at + 1)
    BY <1>3, <2>1, InPlaceDescends
  <2>5. Numbered(v, w, 0)
    BY <1>3, <2>1, PlacesNumbered DEF VersionOk, ColumnsOk
  <2> QED  BY <2>2, <2>3, <2>4, <2>5
<1>5. ASSUME new # {}
      PROVE  /\ VersionOk(w, at + 1) /\ w.files = v.files /\ Grown(v, w)
             /\ Descends(v, w, at + 1) /\ IdsDescend(v, w, at + 1)
             /\ Numbered(v, w, 0)
  <2> DEFINE f == CHOOSE g \in new : TRUE
             c == NewColumn(evolved, f.name, f.type, at + 1)
  <2>1. f.name \notin names(v) /\ names(evolved) = names(v)
    <3>1. f \in new
      BY <1>5
    <3>2. names(evolved) = names(v)
      BY <1>3 DEF names, InPlace, SameNames
    <3> QED  BY <3>1, <3>2
  <2>2. w = add_columns(evolved, f, at + 1)
    BY <1>1, <1>5
  <2> HIDE DEF f, new
  <2>3. /\ VersionOk(w, at + 1) /\ w.files = evolved.files /\ w.cons = evolved.cons
        /\ w.cols = Append(evolved.cols, c)
    BY <1>3, <2>1, <2>2, AddColumnsOk
  <2>4. Descends(v, w, at + 1) /\ IdsDescend(v, w, at + 1)
    BY <1>3, <2>1, <2>2, AddedDescends
  <2>5. c.name = f.name /\ c.null = TRUE /\ c.hwm = NotIdentity
    BY DEF NewColumn
  <2> HIDE DEF c
  <2>6. PICK S : evolved.cols \in Seq(S)
    BY <1>3 DEF InPlace
  <2>7. /\ DOMAIN w.cols = 1..(Len(evolved.cols) + 1) /\ Len(evolved.cols) \in Nat
        /\ DOMAIN evolved.cols = 1..Len(evolved.cols) /\ DOMAIN evolved.cols = DOMAIN v.cols
        /\ \A i \in DOMAIN evolved.cols : w.cols[i] = evolved.cols[i]
        /\ w.cols[Len(evolved.cols) + 1] = c
    <3>1. DOMAIN evolved.cols = DOMAIN v.cols
      BY <1>3 DEF InPlace
    <3> QED  BY SMTT(30), <2>3, <2>6, <3>1, Appended
  <2>8. Grown(v, w)
    <3>1. w.cons = v.cons /\ names(v) \subseteq names(w)
      BY <1>3, <2>3, <2>7 DEF names, InPlace, SameNames
    <3>2. ASSUME NEW j \in DOMAIN w.cols, j \in DOMAIN v.cols
          PROVE  /\ w.cols[j].name = v.cols[j].name /\ w.cols[j].phys = v.cols[j].phys
                 /\ w.cols[j].null = v.cols[j].null /\ w.cols[j].gen = v.cols[j].gen
                 /\ w.cols[j].hwm = v.cols[j].hwm
      BY <1>3, <2>7, <3>2 DEF InPlace, SameNumbers, SameNames
    <3>3. ASSUME NEW j \in DOMAIN w.cols, j \notin DOMAIN v.cols
          PROVE  /\ w.cols[j].name \notin names(v) /\ w.cols[j].null = TRUE
                 /\ w.cols[j].hwm = NotIdentity
      BY <2>1, <2>5, <2>7, <3>3
    <3>4. \A j \in DOMAIN w.cols :
            \/ \E i \in DOMAIN v.cols :
                  /\ w.cols[j].name = v.cols[i].name /\ w.cols[j].phys = v.cols[i].phys
                  /\ w.cols[j].null = v.cols[i].null /\ w.cols[j].gen = v.cols[i].gen
                  /\ w.cols[j].hwm = NotIdentity <=> v.cols[i].hwm = NotIdentity
            \/ /\ w.cols[j].name \notin names(v) /\ w.cols[j].null = TRUE
               /\ w.cols[j].hwm = NotIdentity
      <4> TAKE j \in DOMAIN w.cols
      <4>1. CASE j \in DOMAIN v.cols
        BY <3>2, <4>1
      <4>2. CASE j \notin DOMAIN v.cols
        BY <3>3, <4>2
      <4> QED  BY <4>1, <4>2
    <3> QED  BY <3>1, <3>4 DEF Grown
  <2>9. Numbered(v, w, 0)
    <3> SUFFICES ASSUME NEW j \in IdentityColumn(w)
                 PROVE  \E i \in IdentityColumn(v) : w.cols[j].hwm = v.cols[i].hwm + 0
      BY DEF Numbered
    <3>1. j \in DOMAIN w.cols /\ w.cols[j].hwm # NotIdentity
      BY DEF IdentityColumn
    <3>2. j \in DOMAIN v.cols
      BY <2>5, <2>7, <3>1
    <3>3. w.cols[j].hwm = v.cols[j].hwm
      BY <1>3, <2>7, <3>2 DEF SameNumbers
    <3>4. v.cols[j].hwm \in Nat
      BY <3>1, <3>2, <3>3 DEF VersionOk, ColumnsOk, IsColumn
    <3>5. v.cols[j].hwm + 0 = v.cols[j].hwm
      BY <3>4
    <3> QED  BY <3>1, <3>2, <3>3, <3>5 DEF IdentityColumn
  <2> QED  BY <1>3, <2>3, <2>8, <2>9, <2>4 DEF InPlace
<1> QED  BY <1>4, <1>5

\* A file holds what a version asks of its rows: no null where none may be, and nothing that
\* violates a constraint.
Fits(v, f) ==
    \A i \in DOMAIN v.cols :
        /\ ~v.cols[i].null => Value(f, v.cols[i]) # "null"
        /\ v.cols[i].name \in v.cons => Value(f, v.cols[i]) # "bad"

RowsOk(v) == v.cons \subseteq names(v) /\ \A f \in v.files : Fits(v, f)

\* A column holds what is under its Parquet name.
LEMMA ValueByPlace ==
    ASSUME NEW f, NEW c, NEW d, c.phys = d.phys
    PROVE  Value(f, c) = Value(f, d)
BY DEF Value

\* Files that fit go on to as the table grows.
LEMMA GrownFits ==
    ASSUME NEW v, NEW w, Grown(v, w), v.cons \subseteq names(v), NEW f, Fits(v, f)
    PROVE  Fits(w, f)
<1> SUFFICES ASSUME NEW j \in DOMAIN w.cols
             PROVE  /\ ~w.cols[j].null => Value(f, w.cols[j]) # "null"
                    /\ w.cols[j].name \in w.cons => Value(f, w.cols[j]) # "bad"
  BY DEF Fits
<1>1. CASE w.cols[j].name \notin names(v) /\ w.cols[j].null = TRUE
  BY <1>1 DEF Grown
<1>2. ASSUME NEW i \in DOMAIN v.cols, w.cols[j].name = v.cols[i].name,
             w.cols[j].phys = v.cols[i].phys, w.cols[j].null = v.cols[i].null
      PROVE  /\ ~w.cols[j].null => Value(f, w.cols[j]) # "null"
             /\ w.cols[j].name \in w.cons => Value(f, w.cols[j]) # "bad"
  <2>1. Value(f, w.cols[j]) = Value(f, v.cols[i])
    BY <1>2, ValueByPlace
  <2>2. w.cons = v.cons
    BY DEF Grown
  <2>3. ~v.cols[i].null => Value(f, v.cols[i]) # "null"
    BY DEF Fits
  <2>4. v.cols[i].name \in v.cons => Value(f, v.cols[i]) # "bad"
    BY DEF Fits
  <2> QED  BY <1>2, <2>1, <2>2, <2>3, <2>4
<1> QED  BY <1>1, <1>2 DEF Grown

\* The file of an append fits, whatever the table has grown to.
LEMMA NewFileFits ==
    ASSUME NEW v, NEW w, NEW at, VersionOk(w, at), Grown(v, w), v.cons \subseteq names(v),
           NEW o, ValuesAllowed(v, o)
    PROVE  Fits(w, NewFile(w, o))
<1> DEFINE chunk(i) == [phys |-> w.cols[i].phys, birth |-> w.cols[i].birth,
                        type |-> w.cols[i].type, val |-> Written(w, o, w.cols[i])]
<1>1. NewFile(w, o) = {chunk(i) : i \in DOMAIN w.cols}
  BY DEF NewFile
<1>2. \A i \in DOMAIN w.cols :
        chunk(i).phys = w.cols[i].phys /\ chunk(i).val = Written(w, o, w.cols[i])
  OBVIOUS
<1> HIDE DEF chunk
<1>3. \A i \in DOMAIN w.cols : Value(NewFile(w, o), w.cols[i]) = Written(w, o, w.cols[i])
  <2> TAKE i \in DOMAIN w.cols
  <2>1. chunk(i) \in NewFile(w, o) /\ chunk(i).phys = w.cols[i].phys
    BY <1>1, <1>2
  <2>2. \A k \in NewFile(w, o) : k.phys = w.cols[i].phys => k = chunk(i)
    <3> TAKE k \in NewFile(w, o)
    <3> HAVE k.phys = w.cols[i].phys
    <3>1. PICK j \in DOMAIN w.cols : k = chunk(j)
      BY <1>1
    <3>2. w.cols[j].phys = w.cols[i].phys
      BY <1>2, <3>1
    <3>3. j = i
      BY <3>2 DEF VersionOk, ColumnsOk
    <3> QED  BY <3>1, <3>3
  <2>3. (CHOOSE k \in NewFile(w, o) : k.phys = w.cols[i].phys) = chunk(i)
    BY <2>1, <2>2
  <2> QED  BY <1>2, <2>1, <2>3 DEF Value
<1> SUFFICES ASSUME NEW j \in DOMAIN w.cols
             PROVE  /\ ~w.cols[j].null => Written(w, o, w.cols[j]) # "null"
                    /\ w.cols[j].name \in w.cons => Written(w, o, w.cols[j]) # "bad"
  BY <1>3 DEF Fits
<1>4. CASE w.cols[j].name \notin names(v) /\ w.cols[j].null = TRUE
  BY <1>4 DEF Grown
<1>5. ASSUME NEW i \in DOMAIN v.cols, w.cols[j].name = v.cols[i].name,
             w.cols[j].null = v.cols[i].null, w.cols[j].gen = v.cols[i].gen,
             w.cols[j].hwm = NotIdentity <=> v.cols[i].hwm = NotIdentity
      PROVE  /\ ~w.cols[j].null => Written(w, o, w.cols[j]) # "null"
             /\ w.cols[j].name \in w.cons => Written(w, o, w.cols[j]) # "bad"
  <2>1. Written(w, o, w.cols[j]) = Written(v, o, v.cols[i])
    BY <1>5 DEF Written
  <2>2. ~v.cols[i].null => Written(v, o, v.cols[i]) # "null"
    BY DEF ValuesAllowed
  <2>3. v.cols[i].name \in v.cons => Written(v, o, v.cols[i]) # "bad"
    BY DEF ValuesAllowed, ConstraintsHold
  <2> QED  BY <1>5, <2>1, <2>2, <2>3 DEF Grown
<1> QED  BY <1>4, <1>5 DEF Grown

\* An append adds one file, written by the columns it leaves, whose row satisfies them, and takes one
\* identity value where the data gives none (kernel.py KernelEngine.append).
LEMMA AppendOk ==
    ASSUME NEW v, NEW at \in Nat, VersionOk(v, at), NEW o, append_allowed(v, o),
           \A f, g \in o.batch : f.name = g.name => f = g,
           NEW w, w = append(v, o, at + 1)
    PROVE  /\ VersionOk(w, at + 1) /\ (RowsOk(v) => RowsOk(w))
           /\ Descends(v, w, at + 1) /\ IdsDescend(v, w, at + 1)
           /\ \A f \in w.files : f \in v.files \/ f = NewFile(w, o)
           /\ Numbered(v, w, IF generates_identity(v, o) = {} THEN 0 ELSE 1)
<1> DEFINE evolved == IF o.merge THEN merge_schema(v, o, at + 1) ELSE v
           u == IF generates_identity(v, o) = {} THEN evolved ELSE reserve_identity(evolved, 1)
<1>1. w = [u EXCEPT !.files = @ \cup {NewFile(u, o)}]
  BY DEF append
<1>2. /\ VersionOk(u, at + 1) /\ u.files = v.files /\ Grown(v, u)
      /\ Descends(v, u, at + 1) /\ IdsDescend(v, u, at + 1)
      /\ Numbered(v, u, IF generates_identity(v, o) = {} THEN 0 ELSE 1)
  <2>1. CASE o.merge
    <3>1. generates_identity(v, o) = {}
      BY <2>1 DEF append_allowed
    <3>2. u = merge_schema(v, o, at + 1)
      BY <2>1, <3>1
    <3> HIDE DEF u
    <3> QED  BY <3>1, <3>2, MergeSchemaOk
  <2>2. CASE ~o.merge /\ generates_identity(v, o) = {}
    <3>1. u = v
      BY <2>2
    <3> HIDE DEF u
    <3>2. InPlace(v, u)
      BY <3>1 DEF VersionOk, ColumnsOk, InPlace, SameIds, Widens
    <3>3. Descends(v, u, at + 1) /\ IdsDescend(v, u, at + 1)
      BY <3>2, InPlaceDescends
    <3>4. Numbered(v, u, 0)
      BY <3>1, <3>2, PlacesNumbered DEF VersionOk, ColumnsOk, SameNumbers
    <3> QED  BY <2>2, <3>1, <3>3, <3>4, OkLater DEF Grown
  <2>3. CASE ~o.merge /\ generates_identity(v, o) # {}
    <3>1. u = reserve_identity(v, 1)
      BY <2>3
    <3> HIDE DEF u
    <3>2. /\ VersionOk(u, at) /\ InPlace(v, u) /\ SameNames(v, u) /\ u.cons = v.cons
          /\ Numbered(v, u, 1)
          /\ \A i \in DOMAIN v.cols :
                /\ u.cols[i].null = v.cols[i].null /\ u.cols[i].gen = v.cols[i].gen
                /\ u.cols[i].hwm = NotIdentity <=> v.cols[i].hwm = NotIdentity
      BY <3>1, ReserveOk
    <3>3. Grown(v, u)
      BY <3>2 DEF Grown, InPlace, SameNames, names
    <3>4. Descends(v, u, at + 1) /\ IdsDescend(v, u, at + 1)
      BY <3>2, InPlaceDescends
    <3> QED  BY <2>3, <3>2, <3>3, <3>4, OkLater DEF InPlace
  <2> QED  BY <2>1, <2>2, <2>3
<1> HIDE DEF u
<1>3. /\ IsVersion(w) /\ w.cols = u.cols /\ w.mode = u.mode /\ w.cons = u.cons
      /\ w.maxId = u.maxId /\ w.files = u.files \cup {NewFile(u, o)}
  BY <1>1, <1>2 DEF VersionOk, IsVersion
<1>4. VersionOk(w, at + 1)
  BY <1>2, <1>3 DEF VersionOk, ColumnsOk
<1>5. Numbered(v, w, IF generates_identity(v, o) = {} THEN 0 ELSE 1)
  BY <1>2, <1>3 DEF IdentityColumn, Numbered
<1>6. ASSUME RowsOk(v) PROVE RowsOk(w)
  <2>1. Fits(u, NewFile(u, o))
    BY <1>2, <1>6, NewFileFits DEF RowsOk, append_allowed
  <2>2. \A f \in v.files : Fits(u, f)
    BY <1>2, <1>6, GrownFits DEF RowsOk
  <2>3. names(v) \subseteq names(u)
    BY <1>2 DEF Grown
  <2>4. \A f \in w.files : Fits(w, f)
    BY <1>2, <1>3, <2>1, <2>2 DEF Fits
  <2> QED  BY <1>2, <1>3, <1>6, <2>3, <2>4 DEF RowsOk, Grown, names
<1>7. Descends(v, w, at + 1) /\ IdsDescend(v, w, at + 1)
  BY <1>2, <1>3 DEF Descends, IdsDescend
<1>8. \A f \in w.files : f \in v.files \/ f = NewFile(w, o)
  <2>1. NewFile(w, o) = NewFile(u, o)
    BY <1>3 DEF NewFile, Written
  <2> QED  BY <1>2, <1>3, <2>1
<1> QED  BY <1>4, <1>5, <1>6, <1>7, <1>8

\* The rows go on fitting where the columns stay, and neither a constraint nor a column that
\* takes no null is new.
LEMMA PlacesFit ==
    ASSUME NEW v, NEW w, InPlace(v, w), RowsOk(v), w.cons \subseteq names(w),
           \A f \in v.files : \A i \in DOMAIN v.cols :
              /\ w.cols[i].null # v.cols[i].null => w.cols[i].null \/ Value(f, v.cols[i]) # "null"
              /\ w.cols[i].name \in w.cons =>
                    v.cols[i].name \in v.cons \/ Value(f, v.cols[i]) # "bad"
    PROVE  RowsOk(w)
<1> SUFFICES ASSUME NEW f \in v.files, NEW i \in DOMAIN v.cols
             PROVE  /\ ~w.cols[i].null => Value(f, w.cols[i]) # "null"
                    /\ w.cols[i].name \in w.cons => Value(f, w.cols[i]) # "bad"
  BY DEF RowsOk, Fits, InPlace
<1>1. Value(f, w.cols[i]) = Value(f, v.cols[i])
  BY ValueByPlace DEF InPlace
<1>2. ~v.cols[i].null => Value(f, v.cols[i]) # "null"
  BY DEF RowsOk, Fits
<1>3. v.cols[i].name \in v.cons => Value(f, v.cols[i]) # "bad"
  BY DEF RowsOk, Fits
<1> QED  BY <1>1, <1>2, <1>3

\* ... and the changes leave them fitting.
LEMMA AddColumnsFit ==
    ASSUME NEW v, NEW at \in Nat, VersionOk(v, at), NEW o, o.name \notin names(v),
           NEW w, w = add_columns(v, o, at + 1)
    PROVE  /\ VersionOk(w, at + 1) /\ Grown(v, w) /\ Numbered(v, w, 0) /\ w.mode = v.mode
           /\ RowsOk(v) => RowsOk(w)
<1> DEFINE c == NewColumn(v, o.name, o.type, at + 1)
<1>1. /\ VersionOk(w, at + 1) /\ w.files = v.files /\ w.cons = v.cons /\ w.mode = v.mode
      /\ w.cols = Append(v.cols, c)
  BY AddColumnsOk
<1>2. c.name = o.name /\ c.null = TRUE /\ c.hwm = NotIdentity
  BY DEF NewColumn
<1> HIDE DEF c
<1>3. PICK S : v.cols \in Seq(S)
  BY DEF VersionOk, ColumnsOk
<1>4. /\ DOMAIN w.cols = 1..(Len(v.cols) + 1) /\ Len(v.cols) \in Nat
      /\ DOMAIN v.cols = 1..Len(v.cols)
      /\ \A i \in DOMAIN v.cols : w.cols[i] = v.cols[i]
      /\ w.cols[Len(v.cols) + 1] = c
  BY <1>1, <1>3, Appended
<1>5. names(v) \subseteq names(w)
  BY <1>4 DEF names
<1>6. Grown(v, w)
  <2> SUFFICES ASSUME NEW j \in DOMAIN w.cols, j \notin DOMAIN v.cols
               PROVE  /\ w.cols[j].name \notin names(v) /\ w.cols[j].null = TRUE
                      /\ w.cols[j].hwm = NotIdentity
    BY ZenonT(60), <1>1, <1>4, <1>5 DEF Grown
  <2> QED  BY <1>2, <1>4
<1>7. Numbered(v, w, 0)
  <2> SUFFICES ASSUME NEW j \in IdentityColumn(w)
               PROVE  j \in IdentityColumn(v) /\ w.cols[j].hwm = v.cols[j].hwm + 0
    BY DEF Numbered
  <2>1. j \in DOMAIN w.cols /\ w.cols[j].hwm # NotIdentity
    BY DEF IdentityColumn
  <2>2. j \in DOMAIN v.cols /\ w.cols[j] = v.cols[j]
    BY <1>2, <1>4, <2>1
  <2>3. v.cols[j].hwm \in Nat
    BY <2>1, <2>2 DEF VersionOk, ColumnsOk, IsColumn
  <2> QED  BY <2>1, <2>2, <2>3 DEF IdentityColumn
<1>8. RowsOk(v) => RowsOk(w)
  BY <1>1, <1>5, <1>6, GrownFits DEF RowsOk
<1> QED  BY <1>1, <1>6, <1>7, <1>8

\* Dropping a column, which no constraint names, leaves the rows satisfying the constraints.
LEMMA DropColumnFits ==
    ASSUME NEW v, NEW at \in Nat, VersionOk(v, at), NEW o, drop_column_allowed(v, o),
           NEW w, w = drop_column(v, o)
    PROVE  VersionOk(w, at) /\ Numbered(v, w, 0) /\ (RowsOk(v) => RowsOk(w))
<1>1. o.name \in names(v) /\ o.name \notin v.cons
  BY DEF drop_column_allowed, dependents
<1>2. /\ VersionOk(w, at) /\ w.files = v.files /\ w.cons = v.cons
      /\ \A j \in DOMAIN w.cols : \E i \in DOMAIN v.cols : w.cols[j] = v.cols[i]
      /\ \A i \in DOMAIN v.cols :
            v.cols[i].name # o.name => \E j \in DOMAIN w.cols : w.cols[j] = v.cols[i]
  BY <1>1, DropColumnOk
<1>3. Numbered(v, w, 0)
  <2> SUFFICES ASSUME NEW j \in IdentityColumn(w)
               PROVE  \E i \in IdentityColumn(v) : w.cols[j].hwm = v.cols[i].hwm + 0
    BY DEF Numbered
  <2>1. j \in DOMAIN w.cols /\ w.cols[j].hwm # NotIdentity
    BY DEF IdentityColumn
  <2>2. PICK i \in DOMAIN v.cols : w.cols[j] = v.cols[i]
    BY <1>2, <2>1
  <2>3. v.cols[i].hwm \in Nat
    BY <2>1, <2>2 DEF VersionOk, ColumnsOk, IsColumn
  <2> QED  BY <2>1, <2>2, <2>3 DEF IdentityColumn
<1>4. ASSUME RowsOk(v) PROVE RowsOk(w)
  <2>1. v.cons \subseteq names(w)
    <3> SUFFICES ASSUME NEW n \in v.cons
                 PROVE  \E j \in DOMAIN w.cols : w.cols[j].name = n
      BY DEF names
    <3>1. PICK i \in DOMAIN v.cols : v.cols[i].name = n
      BY <1>4 DEF RowsOk, names
    <3> QED  BY <1>1, <1>2, <3>1
  <2>2. ASSUME NEW f \in v.files PROVE Fits(w, f)
    BY <1>2, <1>4 DEF RowsOk, Fits
  <2> QED  BY <1>2, <2>1, <2>2 DEF RowsOk
<1> QED  BY <1>2, <1>3, <1>4

\* So does renaming a column, which no constraint names either.
LEMMA RenameColumnFits ==
    ASSUME NEW v, NEW at \in Nat, VersionOk(v, at), NEW o, rename_column_allowed(v, o),
           NEW w, w = rename_column(v, o)
    PROVE  VersionOk(w, at) /\ Numbered(v, w, 0) /\ (RowsOk(v) => RowsOk(w))
<1>1. o.name \in names(v) /\ o.to \notin names(v) /\ require_column_mapping(v) /\ o.name \notin v.cons
  BY DEF rename_column_allowed, dependents
<1>2. /\ VersionOk(w, at) /\ InPlace(v, w) /\ SameNumbers(v, w) /\ w.cons = v.cons
      /\ \A i \in DOMAIN v.cols :
            /\ w.cols[i].name = IF v.cols[i].name = o.name THEN o.to ELSE v.cols[i].name
            /\ w.cols[i].null = v.cols[i].null
  BY <1>1, RenameColumnOk
<1>3. Numbered(v, w, 0)
  BY <1>2, PlacesNumbered DEF VersionOk, ColumnsOk
<1>4. ASSUME RowsOk(v) PROVE RowsOk(w)
  <2>1. v.cons \subseteq names(v)
    BY <1>4 DEF RowsOk
  <2>2. w.cons \subseteq names(w)
    <3> SUFFICES ASSUME NEW n \in v.cons
                 PROVE  \E j \in DOMAIN w.cols : w.cols[j].name = n
      BY <1>2 DEF names
    <3>1. PICK i \in DOMAIN v.cols : v.cols[i].name = n
      BY <2>1 DEF names
    <3> QED  BY <1>1, <1>2, <3>1 DEF InPlace
  <2>3. \A i \in DOMAIN v.cols : w.cols[i].name \in w.cons => v.cols[i].name \in v.cons
    BY <1>1, <1>2, <2>1
  <2> QED  BY <1>2, <1>4, <2>2, <2>3, PlacesFit
<1> QED  BY <1>2, <1>3, <1>4

\* NOT NULL is set only on a column without a null in any row (kernel.py set_not_null).
LEMMA SetNullabilityFits ==
    ASSUME NEW v, NEW at \in Nat, VersionOk(v, at), NEW o, set_nullability_allowed(v, o),
           NEW w, w = set_nullability(v, o)
    PROVE  VersionOk(w, at) /\ Numbered(v, w, 0) /\ (RowsOk(v) => RowsOk(w))
<1>1. o.name \in names(v)
  BY DEF set_nullability_allowed
<1>2. /\ VersionOk(w, at) /\ InPlace(v, w) /\ SameNumbers(v, w) /\ SameNames(v, w)
      /\ w.cons = v.cons
      /\ \A i \in DOMAIN v.cols :
            w.cols[i].null = IF v.cols[i].name = o.name THEN o.null ELSE v.cols[i].null
  BY <1>1, SetNullabilityOk
<1>3. Numbered(v, w, 0)
  BY <1>2, PlacesNumbered DEF VersionOk, ColumnsOk
<1>4. ASSUME RowsOk(v) PROVE RowsOk(w)
  <2>1. w.cons \subseteq names(w)
    BY <1>2, <1>4 DEF RowsOk, names, InPlace, SameNames
  <2>2. \A f \in v.files : \A i \in DOMAIN v.cols :
          w.cols[i].null # v.cols[i].null => w.cols[i].null \/ Value(f, v.cols[i]) # "null"
    <3> TAKE f \in v.files
    <3> TAKE i \in DOMAIN v.cols
    <3> HAVE w.cols[i].null # v.cols[i].null
    <3>1. v.cols[i].name = o.name /\ w.cols[i].null = o.null /\ Column(v, o.name) = v.cols[i]
      BY <1>2, ColumnOf
    <3> QED  BY <3>1 DEF set_nullability_allowed
  <2> QED  BY <1>2, <1>4, <2>1, <2>2, PlacesFit DEF SameNames
<1> QED  BY <1>2, <1>3, <1>4

\* A type as wide and the properties change nothing the rows have to satisfy.
LEMMA TypeAndPropertiesFit ==
    ASSUME NEW v, NEW at \in Nat, VersionOk(v, at), NEW o, NEW w,
           \/ alter_column_type_allowed(v, o) /\ w = alter_column_type(v, o)
           \/ w = set_properties(v, o)
    PROVE  VersionOk(w, at) /\ Numbered(v, w, 0) /\ (RowsOk(v) => RowsOk(w))
<1>1. /\ VersionOk(w, at) /\ InPlace(v, w) /\ SameNumbers(v, w) /\ SameNames(v, w)
      /\ w.cons = v.cons /\ \A i \in DOMAIN v.cols : w.cols[i].null = v.cols[i].null
  BY AlterColumnTypeOk, SetPropertiesOk DEF alter_column_type_allowed
<1>2. Numbered(v, w, 0)
  BY <1>1, PlacesNumbered DEF VersionOk, ColumnsOk
<1>3. ASSUME RowsOk(v) PROVE RowsOk(w)
  <2>1. w.cons \subseteq names(w)
    BY <1>1, <1>3 DEF RowsOk, names, InPlace, SameNames
  <2> QED  BY <1>1, <1>3, <2>1, PlacesFit DEF SameNames
<1> QED  BY <1>1, <1>2, <1>3

\* A constraint is added only if every row satisfies it (kernel.py add_constraint); the other changes
\* ask nothing of the rows.
LEMMA ConstraintsAndProtocolFit ==
    ASSUME NEW v, NEW at \in Nat, VersionOk(v, at), NEW o, NEW w,
           \/ add_constraints_allowed(v, o) /\ w = add_constraints(v, o)
           \/ w \in {drop_constraint(v, o), cluster_by(v, o), add_feature(v, o),
                     unset_properties(v, o)}
    PROVE  VersionOk(w, at) /\ Numbered(v, w, 0) /\ (RowsOk(v) => RowsOk(w))
<1>1. /\ SameRest(v, w)
      /\ \/ w.cons \subseteq v.cons
         \/ add_constraints_allowed(v, o) /\ w.cons = v.cons \cup {o.name}
  <2>1. IsVersion(v)
    BY DEF VersionOk
  <2>2. CASE add_constraints_allowed(v, o) /\ w = add_constraints(v, o)
    BY <2>1, <2>2, ConstraintAdded
  <2>3. CASE w \in {drop_constraint(v, o), cluster_by(v, o), add_feature(v, o),
                   unset_properties(v, o)}
    BY <2>1, <2>3, SameColumns
  <2> QED  BY <2>2, <2>3
<1>2. VersionOk(w, at) /\ InPlace(v, w)
  BY <1>1, SameColumnsOk DEF SameRest
<1>3. Numbered(v, w, 0)
  BY <1>1, <1>2, PlacesNumbered DEF VersionOk, ColumnsOk, SameNumbers, SameRest
<1>4. ASSUME RowsOk(v) PROVE RowsOk(w)
  <2>1. CASE w.cons \subseteq v.cons
    BY <1>1, <1>2, <1>4, <2>1, PlacesFit DEF RowsOk, names, SameRest
  <2>2. CASE add_constraints_allowed(v, o) /\ w.cons = v.cons \cup {o.name}
    <3>1. o.name \in names(v)
      BY <2>2 DEF add_constraints_allowed
    <3>2. \A f \in v.files : \A i \in DOMAIN v.cols :
            v.cols[i].name = o.name => Value(f, v.cols[i]) # "bad"
      BY <2>2, ColumnOf DEF add_constraints_allowed
    <3>3. w.cons \subseteq names(w)
      BY <1>1, <1>4, <2>2, <3>1 DEF RowsOk, names, SameRest
    <3> QED  BY <1>1, <1>2, <1>4, <2>2, <3>2, <3>3, PlacesFit DEF SameRest
  <2> QED  BY <1>1, <2>1, <2>2
<1> QED  BY <1>2, <1>3, <1>4

\* RESTORE brings back files together with the columns and constraints they satisfied.
LEMMA RestoredFits ==
    ASSUME NEW v, NEW at \in Nat, VersionOk(v, at), NEW past, VersionOk(past, at),
           restore_allowed(v, past), NEW w, w = restored(v, past)
    PROVE  VersionOk(w, at) /\ Numbered(v, w, 0) /\ (RowsOk(past) => RowsOk(w))
<1>1. /\ IsVersion(w) /\ w.cols = past.cols /\ w.files = past.files /\ w.mode = past.mode
      /\ w.cons = past.cons
  <2>1. IsVersion(w)
    BY DEF VersionOk, IsVersion, restored
  <2>2. w.cols = past.cols /\ w.files = past.files /\ w.mode = past.mode /\ w.cons = past.cons
    BY DEF VersionOk, IsVersion, restored
  <2> QED  BY <2>1, <2>2
<1>2. VersionOk(w, at)
  BY <1>1, SameColumnsOk
<1>3. CASE past.cols = v.cols
  <2>1. \A i \in DOMAIN v.cols : v.cols[i].hwm \in Nat \cup {NotIdentity}
    BY DEF VersionOk, ColumnsOk, IsColumn
  <2>2. \A i \in IdentityColumn(w) : i \in IdentityColumn(v) /\ w.cols[i].hwm = v.cols[i].hwm + 0
    BY <1>1, <1>3, <2>1 DEF IdentityColumn
  <2>3. Numbered(v, w, 0)
    BY <2>2 DEF Numbered
  <2> QED  BY <1>1, <1>2, <2>3 DEF RowsOk, Fits, names
<1>4. CASE past.cols # v.cols
  <2>1. IdentityColumn(w) = {}
    BY <1>1, <1>4 DEF restore_allowed, IdentityColumn
  <2>2. Numbered(v, w, 0)
    BY <2>1 DEF Numbered
  <2> QED  BY <1>1, <1>2, <2>2 DEF RowsOk, Fits, names
<1> QED  BY <1>3, <1>4

-----------------------------------------------------------------------------
(* One commit. *)

\* The identity values a change hands out.
Taken(v, o) ==
    CASE o.kind = "reserve" -> o.count
      [] o.kind = "append" -> IF generates_identity(v, o) = {} THEN 0 ELSE 1
      [] OTHER -> 0

\* Every change leads from a sound version to a sound one, past the identity values it hands out,
\* where every row satisfies what is asked of it.
LEMMA MutateOk ==
    ASSUME NEW v, NEW at \in Nat, VersionOk(v, at), NEW o \in Ops, Allowed(v, o),
           o.kind = "restore" => VersionOk(log[o.target + 1], at),
           NEW w, w = Mutate(v, o, at + 1)
    PROVE  /\ VersionOk(w, at + 1) /\ Numbered(v, w, Taken(v, o))
           /\ RowsOk(v) /\ (o.kind = "restore" => RowsOk(log[o.target + 1])) => RowsOk(w)
<1>1. CASE o.kind = "add_column"
  <2>1. o.name \notin names(v) /\ w = add_columns(v, o, at + 1) /\ Taken(v, o) = 0
    BY <1>1 DEF Allowed, Mutate, add_columns_allowed, Taken
  <2> QED  BY <2>1, AddColumnsFit
<1>2. CASE o.kind = "drop_column"
  <2>1. drop_column_allowed(v, o) /\ w = drop_column(v, o) /\ Taken(v, o) = 0
    BY <1>2 DEF Allowed, Mutate, Taken
  <2> QED  BY <2>1, DropColumnFits, OkLater
<1>3. CASE o.kind = "rename_column"
  <2>1. rename_column_allowed(v, o) /\ w = rename_column(v, o) /\ Taken(v, o) = 0
    BY <1>3 DEF Allowed, Mutate, Taken
  <2> QED  BY <2>1, RenameColumnFits, OkLater
<1>4. CASE o.kind = "set_nullability"
  <2>1. set_nullability_allowed(v, o) /\ w = set_nullability(v, o) /\ Taken(v, o) = 0
    BY <1>4 DEF Allowed, Mutate, Taken
  <2> QED  BY <2>1, SetNullabilityFits, OkLater
<1>5. CASE o.kind = "alter_column_type"
  <2>1. alter_column_type_allowed(v, o) /\ w = alter_column_type(v, o) /\ Taken(v, o) = 0
    BY <1>5 DEF Allowed, Mutate, Taken
  <2> QED  BY <2>1, TypeAndPropertiesFit, OkLater
<1>6. CASE o.kind = "set_properties"
  <2>1. w = set_properties(v, o) /\ Taken(v, o) = 0
    BY <1>6 DEF Mutate, Taken
  <2> QED  BY <2>1, TypeAndPropertiesFit, OkLater
<1>7. CASE o.kind = "add_constraint"
  <2>1. add_constraints_allowed(v, o) /\ w = add_constraints(v, o) /\ Taken(v, o) = 0
    BY <1>7 DEF Allowed, Mutate, Taken
  <2> QED  BY <2>1, ConstraintsAndProtocolFit, OkLater
<1>8. CASE o.kind \in {"drop_constraint", "cluster_by", "add_feature", "unset_properties"}
  <2>1. /\ w \in {drop_constraint(v, o), cluster_by(v, o), add_feature(v, o), unset_properties(v, o)}
        /\ Taken(v, o) = 0
    BY <1>8 DEF Mutate, Taken
  <2> QED  BY <2>1, ConstraintsAndProtocolFit, OkLater
<1>9. CASE o.kind = "reserve"
  <2>1. w = reserve_identity(v, o.count) /\ Taken(v, o) = o.count /\ o.count \in Nat
    BY <1>9, CallsAssumption DEF Mutate, Taken
  <2>2. /\ VersionOk(w, at) /\ InPlace(v, w) /\ SameNames(v, w) /\ w.cons = v.cons
        /\ Numbered(v, w, o.count) /\ \A i \in DOMAIN v.cols : w.cols[i].null = v.cols[i].null
    BY <2>1, ReserveOk
  <2>3. ASSUME RowsOk(v) PROVE RowsOk(w)
    <3>1. w.cons \subseteq names(w)
      BY <2>2, <2>3 DEF RowsOk, names, InPlace, SameNames
    <3> QED  BY <2>2, <2>3, <3>1, PlacesFit DEF SameNames
  <2> QED  BY <2>1, <2>2, <2>3, OkLater
<1>10. CASE o.kind = "append"
  <2>1. /\ append_allowed(v, o) /\ w = append(v, o, at + 1)
        /\ Taken(v, o) = IF generates_identity(v, o) = {} THEN 0 ELSE 1
        /\ \A f, g \in o.batch : f.name = g.name => f = g
    BY <1>10, CallsAssumption DEF Allowed, Mutate, Taken
  <2>2. /\ VersionOk(w, at + 1) /\ (RowsOk(v) => RowsOk(w))
        /\ Numbered(v, w, IF generates_identity(v, o) = {} THEN 0 ELSE 1)
    BY <2>1, AppendOk
  <2> QED  BY <1>10, <2>1, <2>2
<1>11. CASE o.kind = "restore"
  <2>1. /\ restore_allowed(v, log[o.target + 1]) /\ w = restored(v, log[o.target + 1])
        /\ Taken(v, o) = 0
    BY <1>11 DEF Allowed, Mutate, Taken
  <2> QED  BY <1>11, <2>1, RestoredFits, OkLater
<1> QED  BY <1>1, <1>2, <1>3, <1>4, <1>5, <1>6, <1>7, <1>8, <1>9, <1>10, <1>11,
            CallsAssumption

\* The ids of version 0 tell its columns apart.
FirstIdsOk(v) ==
    v.mode = "name" =>
        /\ v.maxId \in Nat /\ \A i \in DOMAIN v.cols : v.cols[i].id \in 0..v.maxId
        /\ \A i, j \in DOMAIN v.cols : i # j => v.cols[i].id # v.cols[j].id

\* ... and so is version 0, whoever created it.
LEMMA FirstOk ==
    ASSUME NEW v \in Foreign \cup {initial_actions(d) : d \in Created}
    PROVE  VersionOk(v, 0) /\ RowsOk(v) /\ FirstIdsOk(v) /\ \A f \in v.files : FileOwn(f, v, 0)
<1>1. CASE v \in Foreign
  <2>1. /\ IsVersion(v) /\ FirstColumns(v.cols) /\ v.mode \in {"none", "name", "id"}
        /\ v.mode = "none" => \A i \in DOMAIN v.cols : v.cols[i].phys = <<v.cols[i].name, 0>>
        /\ v.cons \subseteq names(v) /\ FirstIdsOk(v)
        /\ \A f \in v.files : Fits(v, f)
        /\ \A f \in v.files : \A k \in f : \E i \in DOMAIN v.cols :
              k.phys = v.cols[i].phys /\ k.birth = v.cols[i].birth /\ k.type = v.cols[i].type
    BY <1>1, TablesAssumption DEF Fits, FirstIdsOk, Resolves
  <2>2. VersionOk(v, 0)
    BY <2>1 DEF VersionOk, ColumnsOk, FirstColumns
  <2>3. \A f \in v.files : FileOwn(f, v, 0)
    <3> TAKE f \in v.files
    <3> SUFFICES ASSUME NEW k \in f
                 PROVE  /\ k.phys[2] \in 0..0
                        /\ \E i \in DOMAIN v.cols : k.phys = v.cols[i].phys
                        /\ \A i \in DOMAIN v.cols : k.phys = v.cols[i].phys =>
                              k.birth = v.cols[i].birth /\ Widens(k.type, v.cols[i].type)
      BY DEF FileOwn
    <3>1. PICK j \in DOMAIN v.cols :
            k.phys = v.cols[j].phys /\ k.birth = v.cols[j].birth /\ k.type = v.cols[j].type
      BY <2>1
    <3>2. /\ k.phys[2] \in 0..0
          /\ \A i \in DOMAIN v.cols : k.phys = v.cols[i].phys => i = j
      BY <2>2, <3>1 DEF VersionOk, ColumnsOk
    <3> QED  BY <3>1, <3>2 DEF Widens
  <2> QED  BY <2>1, <2>2, <2>3 DEF RowsOk
<1>2. ASSUME NEW d \in Created, v = initial_actions(d)
      PROVE  VersionOk(v, 0) /\ RowsOk(v) /\ FirstIdsOk(v) /\ v.files = {}
  <2> DEFINE mapped == "columnMapping" \in d.on
             types == UNION {type_features(d.cols[i].type) \cup column_features(d.cols[i]) :
                                 i \in DOMAIN d.cols}
             cols == [i \in DOMAIN d.cols |-> IF mapped THEN [d.cols[i] EXCEPT !.id = i] ELSE d.cols[i]]
             empty == [reader |-> 1, writer |-> 1, rf |-> {}, wf |-> {}, parts |-> d.parts,
                       cons |-> {}, stats |-> {}, cfg |-> d.on \ {"columnMapping"}, clus |-> {},
                       files |-> {}, mode |-> IF mapped THEN "name" ELSE "none",
                       maxId |-> IF mapped THEN Len(d.cols) ELSE 0, cols |-> cols]
             p == with_features(empty, (d.on \cap (Enabling \cup {"columnMapping"})) \cup types
                                  \cup (IF d.keys = {} THEN {} ELSE {"clustering", "domainMetadata"}))
             clus == IF d.keys = {} THEN {} ELSE {PhysicalKeys(empty, d)}
  <2>1. v = [p EXCEPT !.reader = 3, !.writer = 7, !.rf = p.wf \cap ReaderWriterFeature, !.clus = clus]
    BY <1>2 DEF initial_actions
  <2>2. FirstColumns(d.cols) /\ \A i \in DOMAIN d.cols : d.cols[i].phys = <<d.cols[i].name, 0>>
    BY TablesAssumption
  <2>3. \A i \in DOMAIN d.cols :
          /\ IsColumn(cols[i]) /\ cols[i].phys = d.cols[i].phys /\ cols[i].name = d.cols[i].name
          /\ cols[i].hwm = d.cols[i].hwm /\ (mapped => cols[i].id = i)
    <3> TAKE i \in DOMAIN d.cols
    <3>1. IsColumn(d.cols[i])
      BY <2>2 DEF FirstColumns
    <3>2. ASSUME NEW c, c = [d.cols[i] EXCEPT !.id = i]
          PROVE  /\ IsColumn(c) /\ c.phys = d.cols[i].phys /\ c.name = d.cols[i].name
                 /\ c.hwm = d.cols[i].hwm /\ c.id = i
      BY <3>1, <3>2 DEF IsColumn
    <3>3. cols[i] = IF mapped THEN [d.cols[i] EXCEPT !.id = i] ELSE d.cols[i]
      OBVIOUS
    <3> HIDE DEF cols
    <3> QED  BY <3>1, <3>2, <3>3
  <2>4. DOMAIN cols = DOMAIN d.cols
    OBVIOUS
  <2>5. \E S : cols \in Seq(S)
    <3>1. cols = [i \in DOMAIN d.cols |-> cols[i]]
      OBVIOUS
    <3> HIDE DEF cols
    <3> QED  BY SMTT(30), <2>2, <3>1, OfAnySet DEF FirstColumns
  <2> HIDE DEF cols
  <2>6. /\ IsVersion(empty) /\ empty.cols = cols /\ empty.cons = {} /\ empty.files = {}
        /\ empty.mode = (IF mapped THEN "name" ELSE "none")
        /\ empty.maxId = (IF mapped THEN Len(d.cols) ELSE 0)
    BY DEF IsVersion
  <2> HIDE DEF empty, types
  <2>7. IsVersion(p) /\ p.cols = cols /\ p.cons = {} /\ p.files = {} /\ p.mode = empty.mode
        /\ p.maxId = empty.maxId
    BY <2>6, FeaturesOnly DEF SameTable
  <2> HIDE DEF p, clus, mapped
  <2>8. IsVersion(v) /\ v.cols = cols /\ v.cons = {} /\ v.files = {} /\ v.mode = p.mode
        /\ v.maxId = p.maxId
    BY <2>1, <2>7 DEF IsVersion
  <2>9. ColumnsOk(v, 0)
    <3>1. \A i \in DOMAIN v.cols :
            /\ IsColumn(v.cols[i]) /\ v.cols[i].phys = <<v.cols[i].name, 0>>
      BY <2>2, <2>3, <2>4, <2>8
    <3>2. \A i, j \in DOMAIN v.cols : i # j =>
            /\ v.cols[i].name # v.cols[j].name /\ v.cols[i].phys # v.cols[j].phys
            /\ v.cols[i].hwm = NotIdentity \/ v.cols[j].hwm = NotIdentity
      BY SMTT(30), <2>2, <2>3, <2>4, <2>8 DEF FirstColumns
    <3> QED  BY <2>5, <2>8, <3>1, <3>2 DEF ColumnsOk
  <2>10. v.mode \in {"none", "name"}
    BY <2>6, <2>7, <2>8
  <2>11. FirstIdsOk(v)
    <3> SUFFICES ASSUME v.mode = "name"
                 PROVE  /\ v.maxId \in Nat /\ \A i \in DOMAIN v.cols : v.cols[i].id \in 0..v.maxId
                        /\ \A i, j \in DOMAIN v.cols : i # j => v.cols[i].id # v.cols[j].id
      BY DEF FirstIdsOk
    <3>1. mapped /\ v.maxId = Len(d.cols)
      BY <2>6, <2>7, <2>8
    <3>2. DOMAIN d.cols = 1..Len(d.cols) /\ Len(d.cols) \in Nat
      BY <2>2 DEF FirstColumns
    <3>3. \A i \in DOMAIN v.cols : i \in 1..Len(d.cols) /\ v.cols[i].id = i
      BY <2>3, <2>4, <2>8, <3>1, <3>2
    <3> QED  BY <3>1, <3>2, <3>3
  <2> QED  BY <2>8, <2>9, <2>10, <2>11 DEF VersionOk, RowsOk
<1> QED  BY <1>1, <1>2

\* A sound version stays so.
LEMMA OkSince ==
    ASSUME NEW v, NEW at \in Nat, VersionOk(v, at), NEW n \in Nat, at <= n
    PROVE  VersionOk(v, n)
BY DEF VersionOk, ColumnsOk

-----------------------------------------------------------------------------
(* The inductive invariant. *)

\* Every version is sound, and has rows that fit it.
LogOk ==
    /\ (\E S : log \in Seq(S)) /\ log # <<>>
    /\ \A n \in DOMAIN log : VersionOk(log[n], n - 1) /\ RowsOk(log[n])

\* A call that may still commit was allowed on the version it is computed from.
JobOk(j) ==
    j # Idle =>
        /\ j = [op |-> j.op, base |-> j.base, left |-> j.left]
        /\ j.op \in Ops /\ j.base \in 1..Len(log)
        /\ j.base = Len(log) => Allowed(Latest, j.op)

JobsOk == job = [c \in Clients |-> job[c]] /\ \A c \in Clients : JobOk(job[c])

\* The identity column of the latest version, if there is one, has been numbered up to x at least.
Marked(v, x) == \A i \in IdentityColumn(v) : x <= v.cols[i].hwm

Row == Int \X Nat \X Nat \X Nat
Plan == [at : Nat, first : Int, count : Nat, used : [Tasks -> Nat], writes : [Tasks -> Nat],
         kept : [Tasks -> SUBSET Row]]

\* The values of a block.
InBlock(p, x) == p.first <= x /\ x < p.first + p.count

\* What the tasks of a plan kept was numbered from their slots, each value once.
PlanOk(p) ==
    \A t \in Tasks :
        /\ p.used[t] <= slot(p, t).size
        /\ \A r \in p.kept[t] :
              slot(p, t).first <= r[1] /\ r[1] < slot(p, t).first + p.used[t]
        /\ \A r, s \in p.kept[t] : r[1] = s[1] => r = s

\* The blocks that are handed out have been passed by the mark, and hold no value of the table
\* nor of one another.
BlocksOk ==
    /\ plan \in [Clients -> Plan]
    /\ \A c \in Clients : plan[c].at > 0 =>
          /\ PlanOk(plan[c]) /\ Marked(Latest, plan[c].first + plan[c].count - 1)
          /\ \A r \in rows : ~InBlock(plan[c], r[1])
    /\ \A c, d \in Clients : c # d /\ plan[c].at > 0 /\ plan[d].at > 0 =>
          \/ plan[c].first + plan[c].count <= plan[d].first
          \/ plan[d].first + plan[d].count <= plan[c].first

\* ... as have the values of the table.
ValuesOk == rows \subseteq Row /\ IdentityUnique /\ \A r \in rows : Marked(Latest, r[1])

-----------------------------------------------------------------------------
(* Every step keeps the log sound. *)

\* What the log is made of.
LEMMA LogFacts ==
    ASSUME LogOk
    PROVE  /\ Len(log) \in Nat \ {0} /\ DOMAIN log = 1..Len(log)
           /\ VersionOk(Latest, Len(log) - 1) /\ RowsOk(Latest)
<1>1. PICK S : log \in Seq(S)
  BY DEF LogOk
<1>2. Len(log) \in Nat \ {0} /\ DOMAIN log = 1..Len(log)
  BY <1>1 DEF LogOk
<1> QED  BY <1>2 DEF LogOk, Latest

\* A commit adds a sound version, on which the identity column has what it had and what the
\* change hands out behind it.
LEMMA CommitLogs ==
    ASSUME LogOk, JobsOk, NEW c \in Clients, Commit(c)
    PROVE  /\ LogOk' /\ Len(log') = Len(log) + 1 /\ job[c].op \in Ops
           /\ log[job[c].base] = Latest /\ Allowed(Latest, job[c].op)
           /\ Numbered(Latest, Latest', Taken(Latest, job[c].op))
<1> DEFINE o == job[c].op
           v == Latest
           at == Len(log) - 1
           w == Mutate(v, o, Len(log))
<1>1. /\ Len(log) \in Nat \ {0} /\ DOMAIN log = 1..Len(log) /\ VersionOk(v, at) /\ RowsOk(v)
  BY LogFacts
<1>2. /\ o \in Ops /\ Allowed(v, o) /\ log[job[c].base] = v
      /\ log' = Append(log, w)
  BY DEF JobsOk, JobOk, Commit, Latest
<1>3. ASSUME o.kind = "restore"
      PROVE  VersionOk(log[o.target + 1], at) /\ RowsOk(log[o.target + 1])
  <2>1. o.target < Len(log) - 1 /\ o.target \in Nat
    BY <1>2, <1>3, CallsAssumption DEF Allowed
  <2>2. o.target + 1 \in DOMAIN log /\ o.target <= at /\ at \in Nat
    BY <1>1, <2>1
  <2>3. VersionOk(log[o.target + 1], (o.target + 1) - 1) /\ RowsOk(log[o.target + 1])
    BY <2>2 DEF LogOk
  <2>4. (o.target + 1) - 1 = o.target
    BY <2>1
  <2> QED  BY <2>1, <2>2, <2>3, <2>4, OkSince
<1>4. VersionOk(w, at + 1) /\ Numbered(v, w, Taken(v, o)) /\ RowsOk(w)
  <2>1. at \in Nat /\ w = Mutate(v, o, at + 1)
    BY <1>1
  <2> HIDE DEF at, w
  <2> QED  BY <1>1, <1>2, <1>3, <2>1, MutateOk
<1> HIDE DEF w, o, v
<1>5. PICK S : log \in Seq(S)
  BY DEF LogOk
<1>6. /\ DOMAIN log' = 1..(Len(log) + 1) /\ \A i \in DOMAIN log : log'[i] = log[i]
      /\ log'[Len(log) + 1] = w /\ log' \in Seq(S \cup {w}) /\ Len(log') = Len(log) + 1
  <2>1. log \in Seq(S \cup {w})
    BY <1>5
  <2> QED  BY <1>2, <1>5, <2>1, Appended
<1>7. Latest' = w
  BY <1>6 DEF Latest
<1>8. LogOk'
  <2>1. \A n \in DOMAIN log' : VersionOk(log'[n], n - 1) /\ RowsOk(log'[n])
    <3> TAKE n \in DOMAIN log'
    <3>1. CASE n \in DOMAIN log
      BY <1>6, <3>1 DEF LogOk
    <3>2. CASE n = Len(log) + 1
      <4>1. n - 1 = at + 1
        BY <1>1, <3>2
      <4> QED  BY <1>4, <1>6, <3>2, <4>1
    <3> QED  BY <1>1, <1>6, <3>1, <3>2
  <2>2. log' # <<>>
    BY <1>1, <1>6
  <2> QED  BY <1>6, <2>1, <2>2 DEF LogOk
<1> QED  BY <1>2, <1>4, <1>6, <1>7, <1>8 DEF o, v

\* A call stays allowed while nobody commits, and one that has been overtaken cannot commit.
LEMMA JobStays ==
    ASSUME log' = log, NEW j, JobOk(j) PROVE JobOk(j)'
BY DEF JobOk, Latest, Allowed

\* Of a call that another version has overtaken nothing is said: it is computed again before it
\* commits.
LEMMA JobOvertaken ==
    ASSUME LogOk, Len(log') = Len(log) + 1, NEW j, JobOk(j) PROVE JobOk(j)'
<1>1. Len(log) \in Nat \ {0}
  BY LogFacts
<1> QED  BY <1>1 DEF JobOk

\* Every step keeps the versions well formed and what the clients have computed.
LEMMA LogStep ==
    ASSUME LogOk, JobsOk, [Next]_vars PROVE LogOk' /\ JobsOk'
<1>1. CASE UNCHANGED vars
  BY <1>1, JobStays DEF vars, LogOk, JobsOk
<1>2. ASSUME NEW c \in Clients, NEW o \in Ops, Begin(c, o) PROVE LogOk' /\ JobsOk'
  <2>1. log' = log /\ Allowed(Latest, o)
        /\ job' = [job EXCEPT ![c] = [op |-> o, base |-> Len(log), left |-> MaxAttempts - 1]]
    BY <1>2 DEF Begin
  <2>2. JobOk([op |-> o, base |-> Len(log), left |-> MaxAttempts - 1])
    BY <2>1, LogFacts DEF JobOk
  <2>3. \A d \in Clients : JobOk(job'[d])
    BY <2>1, <2>2 DEF JobsOk
  <2>4. \A d \in Clients : JobOk(job[d])'
    BY <2>1, <2>3, JobStays
  <2> QED  BY <2>1, <2>4 DEF LogOk, JobsOk
<1>3. ASSUME NEW c \in Clients, Commit(c) PROVE LogOk' /\ JobsOk'
  <2>1. LogOk' /\ Len(log') = Len(log) + 1
    BY <1>3, CommitLogs
  <2>2. job' = [job EXCEPT ![c] = Idle]
    BY <1>3 DEF Commit
  <2>3. \A d \in Clients : JobOk(job'[d])
    BY <2>2 DEF JobsOk, JobOk
  <2>4. \A d \in Clients : JobOk(job[d])'
    BY <2>1, <2>3, JobOvertaken
  <2> QED  BY <2>1, <2>2, <2>4 DEF JobsOk
<1>4. ASSUME NEW c \in Clients, Retry(c) PROVE LogOk' /\ JobsOk'
  <2>1. log' = log /\ job' = [job EXCEPT ![c] =
                  IF job[c].left > 0 /\ Allowed(Latest, job[c].op)
                  THEN [job[c] EXCEPT !.base = Len(log), !.left = job[c].left - 1] ELSE Idle]
    BY <1>4 DEF Retry
  <2>2. ASSUME job'[c] # Idle PROVE JobOk(job'[c])
    <3> DEFINE j == [job[c] EXCEPT !.base = Len(log), !.left = job[c].left - 1]
    <3>1. job'[c] = j /\ Allowed(Latest, job[c].op)
      BY <2>1, <2>2 DEF JobsOk
    <3>2. job[c] = [op |-> job[c].op, base |-> job[c].base, left |-> job[c].left]
          /\ job[c].op \in Ops
      BY <1>4 DEF JobsOk, JobOk, Retry
    <3>3. ASSUME NEW k, k = j
          PROVE  /\ k = [op |-> k.op, base |-> k.base, left |-> k.left]
                 /\ k.op = job[c].op /\ k.base = Len(log)
      BY <3>2, <3>3
    <3> HIDE DEF j
    <3> QED  BY <3>1, <3>2, <3>3, LogFacts DEF JobOk
  <2>3. \A d \in Clients : JobOk(job'[d])
    <3> TAKE d \in Clients
    <3>1. CASE d = c
      BY <2>2, <3>1 DEF JobOk
    <3>2. CASE d # c
      BY <2>1, <3>2 DEF JobsOk
    <3> QED  BY <3>1, <3>2
  <2>4. \A d \in Clients : JobOk(job[d])'
    BY <2>1, <2>3, JobStays
  <2>5. job' = [d \in Clients |-> job'[d]]
    BY <2>1 DEF JobsOk
  <2> QED  BY <2>1, <2>4, <2>5 DEF LogOk, JobsOk
<1>5. CASE log' = log /\ job' = job
  BY <1>5, JobStays DEF LogOk, JobsOk
<1> QED  BY ZenonT(60), <1>1, <1>2, <1>3, <1>4, <1>5 DEF Next, TaskWrite, TaskRestart, PlanEnds

\* A new log has one well-formed version without files.
LEMMA LogStart == Init => LogOk /\ JobsOk
<1> SUFFICES ASSUME Init PROVE LogOk /\ JobsOk
  OBVIOUS
<1>1. PICK v \in Foreign \cup {initial_actions(d) : d \in Created} : log = <<v>>
  BY DEF Init
<1>2. VersionOk(v, 0) /\ RowsOk(v)
  BY FirstOk
<1>3. log \in Seq({v}) /\ DOMAIN log = 1..1 /\ log[1] = v /\ log # <<>>
  BY <1>1
<1>4. LogOk
  BY <1>2, <1>3 DEF LogOk
<1>5. JobsOk
  BY DEF Init, JobsOk, JobOk
<1> QED  BY <1>4, <1>5

\* Every live row of every version satisfies the constraints and the NOT NULL columns of that
\* version, whoever raced whom: a change that lost the race is checked again on what the winner
\* left.
THEOREM RowsSatisfyHolds == Spec => []RowsSatisfy
<1>1. LogOk => RowsSatisfy
  BY DEF LogOk, RowsSatisfy, Versions, Columns, RowsOk, Fits
<1> QED  BY <1>1, LogStart, LogStep, PTL DEF Spec

-----------------------------------------------------------------------------
(* Every identity value is handed out once. *)

\* A block is made of slots, none of which reaches into another.
LEMMA Division ==
    ASSUME NEW n \in Nat \ {0}, NEW k \in Nat
    PROVE  k \div n \in Nat /\ n * (k \div n) <= k
BY SMT

\* Blocks of one size, counted from zero, lie beside each other.
LEMMA Multiples ==
    ASSUME NEW s \in Nat, NEW t \in Nat, NEW u \in Nat, t < u
    PROVE  t * s \in Nat /\ u * s \in Nat /\ t * s + s <= u * s
<1>1. PICK d \in Nat : u = t + 1 + d
  <2>1. u - (t + 1) \in Nat /\ u = t + 1 + (u - (t + 1))
    OBVIOUS
  <2> QED  BY <2>1
<1>2. u * s = t * s + s + d * s
  BY <1>1
<1>3. d * s \in Nat /\ t * s \in Nat
  OBVIOUS
<1> QED  BY <1>2, <1>3

\* Tasks are numbered from 0.
LEMMA TasksCounted == Cardinality(Tasks) \in Nat \ {0} /\ Tasks = 0..(Cardinality(Tasks) - 1)
<1>1. Cardinality(Tasks) \in Nat
  BY BoundsAssumption, FS_CardinalityType
<1>2. Cardinality(Tasks) # 0
  BY BoundsAssumption, FS_EmptySet
<1> QED  BY <1>1, <1>2, BoundsAssumption

\* The slots of a block lie in it, those of later tasks behind those of earlier ones (values.py
\* IdentityBlock.slot).
LEMMA Slots ==
    ASSUME NEW p, p.first \in Int, p.count \in Nat, NEW t \in Tasks
    PROVE  /\ slot(p, t).size \in Nat /\ slot(p, t).first \in Int
           /\ p.first <= slot(p, t).first
           /\ slot(p, t).first + slot(p, t).size <= p.first + p.count
           /\ \A u \in Tasks : t < u => slot(p, t).first + slot(p, t).size <= slot(p, u).first
<1> DEFINE n == Cardinality(Tasks)
           size == p.count \div n
<1>1. n \in Nat \ {0} /\ Tasks = 0..(n - 1)
  BY TasksCounted
<1> HIDE DEF n
<1>2. size \in Nat /\ n * size <= p.count
  BY <1>1, Division
<1>3. \A u \in Tasks : slot(p, u) = [first |-> p.first + u * size, size |-> size]
  BY DEF slot, n
<1> HIDE DEF size
<1>4. t \in Nat /\ t < n /\ t * size \in Nat
  BY <1>1, <1>2
<1>5. t * size + size <= n * size
  BY <1>1, <1>2, <1>4, Multiples
<1>6. \A u \in Tasks : t < u => u * size \in Nat /\ t * size + size <= u * size
  BY <1>1, <1>2, <1>4, Multiples
<1>7. n * size \in Nat
  BY <1>1, <1>2
<1>8. slot(p, t).size \in Nat /\ slot(p, t).first \in Int /\ p.first <= slot(p, t).first
  BY <1>2, <1>3, <1>4
<1>9. slot(p, t).first + slot(p, t).size <= p.first + p.count
  BY <1>2, <1>3, <1>4, <1>5, <1>7
<1>10. \A u \in Tasks : t < u => slot(p, t).first + slot(p, t).size <= slot(p, u).first
  BY <1>2, <1>3, <1>4, <1>6
<1> QED  BY <1>8, <1>9, <1>10

\* The mark only grows, and what is handed out next is past it.
LEMMA MarkedLater ==
    ASSUME NEW v, NEW at, VersionOk(v, at), NEW w, NEW n \in Nat, Numbered(v, w, n),
           NEW x \in Int, Marked(v, x)
    PROVE  Marked(w, x)
<1> SUFFICES ASSUME NEW j \in IdentityColumn(w) PROVE x <= w.cols[j].hwm
  BY DEF Marked
<1>1. PICK i \in IdentityColumn(v) : w.cols[j].hwm = v.cols[i].hwm + n
  BY DEF Numbered
<1>2. v.cols[i].hwm \in Nat /\ x <= v.cols[i].hwm
  BY DEF IdentityColumn, Marked, VersionOk, ColumnsOk, IsColumn
<1> QED  BY <1>1, <1>2

\* The values behind a version's mark are free, and the version with n more has its mark at the last of
\* the n (values.py IdentitySpec).
LEMMA NextValues ==
    ASSUME NEW v, NEW at, VersionOk(v, at), IdentityColumn(v) # {}
    PROVE  /\ FirstFree(v) \in Nat
           /\ \A x \in Int : Marked(v, x) => x < FirstFree(v)
           /\ \A n \in Nat : \A w : Numbered(v, w, n) => Marked(w, FirstFree(v) + n - 1)
<1> DEFINE i == CHOOSE k \in IdentityColumn(v) : TRUE
<1>1. i \in IdentityColumn(v) /\ FirstFree(v) = v.cols[i].hwm + 1
  BY DEF FirstFree
<1> HIDE DEF i
<1>2. \A k \in IdentityColumn(v) : k = i
  BY <1>1 DEF IdentityColumn, VersionOk, ColumnsOk
<1>3. v.cols[i].hwm \in Nat
  BY <1>1 DEF IdentityColumn, VersionOk, ColumnsOk, IsColumn
<1>4. \A x \in Int : Marked(v, x) => x < FirstFree(v)
  BY <1>1, <1>3 DEF Marked
<1>5. ASSUME NEW n \in Nat, NEW w, Numbered(v, w, n), NEW j \in IdentityColumn(w)
      PROVE  FirstFree(v) + n - 1 <= w.cols[j].hwm
  <2>1. w.cols[j].hwm = v.cols[i].hwm + n
    BY <1>2, <1>5 DEF Numbered
  <2> QED  BY <1>1, <1>3, <2>1
<1> QED  BY <1>1, <1>3, <1>4, <1>5 DEF Marked

\* What a plan is made of.
LEMMA PlanFacts ==
    ASSUME BlocksOk, NEW c \in Clients
    PROVE  /\ plan[c] \in Plan /\ plan[c].at \in Nat /\ plan[c].first \in Int
           /\ plan[c].count \in Nat /\ plan[c].first + plan[c].count - 1 \in Int
           /\ \A t \in Tasks : /\ plan[c].used[t] \in Nat /\ plan[c].writes[t] \in Nat
                               /\ plan[c].kept[t] \in SUBSET Row
<1>1. plan[c] \in Plan
  BY DEF BlocksOk
<1> QED  BY <1>1 DEF Plan

\* What a task kept is of the block.
LEMMA KeptInBlock ==
    ASSUME NEW p \in Plan, PlanOk(p), NEW t \in Tasks, NEW r \in p.kept[t]
    PROVE  r \in Row /\ r[1] \in Int /\ InBlock(p, r[1]) /\ r[1] <= p.first + p.count - 1
<1>1. p.first \in Int /\ p.count \in Nat /\ p.used[t] \in Nat /\ r \in Row
  BY DEF Plan
<1>2. r[1] \in Int
  BY <1>1 DEF Row
<1>3. /\ slot(p, t).first <= r[1] /\ r[1] < slot(p, t).first + p.used[t]
      /\ p.used[t] <= slot(p, t).size
  BY DEF PlanOk
<1>4. /\ slot(p, t).size \in Nat /\ slot(p, t).first \in Int /\ p.first <= slot(p, t).first
      /\ slot(p, t).first + slot(p, t).size <= p.first + p.count
  BY <1>1, Slots
<1> HIDE DEF Plan
<1> QED  BY <1>1, <1>2, <1>3, <1>4 DEF InBlock

\* No value is kept twice in a plan.
LEMMA KeptOnce ==
    ASSUME NEW p \in Plan, PlanOk(p), NEW t \in Tasks, NEW u \in Tasks,
           NEW r \in p.kept[t], NEW s \in p.kept[u], r[1] = s[1]
    PROVE  r = s
<1>1. CASE t = u
  BY <1>1 DEF PlanOk
<1>2. \A a, b \in Tasks : \A x \in p.kept[a], y \in p.kept[b] : a < b => x[1] < y[1]
  <2> TAKE a, b \in Tasks
  <2> TAKE x \in p.kept[a], y \in p.kept[b]
  <2> HAVE a < b
  <2>1. p.first \in Int /\ p.count \in Nat /\ p.used[a] \in Nat
    BY DEF Plan
  <2>2. /\ slot(p, a).size \in Nat /\ slot(p, a).first \in Int
        /\ slot(p, a).first + slot(p, a).size <= slot(p, b).first
    BY <2>1, Slots
  <2>3. slot(p, b).first \in Int
    BY <2>1, Slots
  <2>4. x[1] \in Int /\ y[1] \in Int
    BY KeptInBlock
  <2>5. /\ x[1] < slot(p, a).first + p.used[a] /\ p.used[a] <= slot(p, a).size
        /\ slot(p, b).first <= y[1]
    BY DEF PlanOk
  <2> QED  BY <2>1, <2>2, <2>3, <2>4, <2>5
<1>3. t \in Int /\ u \in Int
  BY TasksCounted
<1>4. r[1] \in Int /\ s[1] \in Int
  BY KeptInBlock
<1> QED  BY <1>1, <1>2, <1>3, <1>4

\* A commit hands out values that nobody has.
LEMMA CommitNumbers ==
    ASSUME LogOk, JobsOk, BlocksOk, ValuesOk, NEW c \in Clients, Commit(c)
    PROVE  BlocksOk' /\ ValuesOk'
<1> DEFINE o == job[c].op
           v == Latest
           n == Taken(v, o)
           new == <<FirstFree(v), Len(log), 0, 0>>
           block == Block(Len(log), FirstFree(v), o.count)
<1>1. /\ o \in Ops /\ log[job[c].base] = v /\ Allowed(v, o) /\ Numbered(v, Latest', n)
  BY CommitLogs
<1>2. VersionOk(v, Len(log) - 1) /\ Len(log) \in Nat \ {0}
  BY LogFacts
<1>3. n \in Nat
  BY <1>1, CallsAssumption DEF Taken
<1>4. \A x \in Int : Marked(v, x) => Marked(Latest', x)
  BY <1>1, <1>2, <1>3, MarkedLater
<1>5. /\ rows' \in {rows, rows \cup {new}}
      /\ rows' # rows => /\ o.kind = "append" /\ generates_identity(v, o) # {}
                         /\ IdentityColumn(v) # {} /\ rows' = rows \cup {new}
  BY <1>1 DEF Commit, generates_identity
<1>6. \/ plan' = plan
      \/ o.kind = "reserve" /\ plan' = [plan EXCEPT ![c] = block]
  BY <1>1 DEF Commit
<1>7. \A r \in rows : r \in Row /\ r[1] \in Int /\ Marked(v, r[1])
  BY DEF ValuesOk, Row
<1>8. ValuesOk'
  <2>1. CASE rows' = rows
    BY <1>4, <1>7, <2>1 DEF ValuesOk, IdentityUnique
  <2>2. CASE rows' # rows
    <3>1. n = 1 /\ rows' = rows \cup {new} /\ IdentityColumn(v) # {}
      BY <1>5, <2>2 DEF Taken
    <3>2. /\ FirstFree(v) \in Nat /\ Marked(Latest', FirstFree(v) + 1 - 1)
          /\ \A x \in Int : Marked(v, x) => x < FirstFree(v)
      BY <1>1, <1>2, <3>1, NextValues
    <3>3. new \in Row /\ new[1] = FirstFree(v) /\ Marked(Latest', new[1])
      <4>1. FirstFree(v) + 1 - 1 = FirstFree(v)
        BY <3>2
      <4> QED  BY <1>2, <3>2, <4>1 DEF Row
    <3> HIDE DEF new, v, n, o
    <3>4. \A r \in rows : r[1] # new[1]
      BY <1>7, <3>2, <3>3
    <3>5. IdentityUnique'
      BY <3>1, <3>4 DEF ValuesOk, IdentityUnique
    <3> QED  BY <1>4, <1>7, <3>1, <3>3, <3>5 DEF ValuesOk
  <2> QED  BY <2>1, <2>2
<1>9. ASSUME NEW p \in Plan, Marked(v, p.first + p.count - 1), NEW r \in rows',
             \A s \in rows : ~InBlock(p, s[1])
      PROVE  ~InBlock(p, r[1])
  <2>1. CASE r \in rows
    BY <1>9, <2>1
  <2>2. CASE r \notin rows
    <3>1. r = new /\ IdentityColumn(v) # {}
      BY <1>5, <1>9, <2>2
    <3>2. p.first \in Int /\ p.count \in Nat /\ p.first + p.count - 1 \in Int
      BY <1>9 DEF Plan
    <3>3. p.first + p.count - 1 < FirstFree(v) /\ FirstFree(v) \in Nat
      BY <1>2, <1>9, <3>1, <3>2, NextValues
    <3>4. r[1] = FirstFree(v)
      BY <3>1
    <3> HIDE DEF v, new
    <3> QED  BY <3>2, <3>3, <3>4 DEF InBlock
  <2> QED  BY <2>1, <2>2
<1>10. CASE plan' = plan
  <2>1. \A d \in Clients : plan[d].at > 0 =>
          /\ Marked(Latest', plan[d].first + plan[d].count - 1)
          /\ \A r \in rows' : ~InBlock(plan[d], r[1])
    <3> TAKE d \in Clients
    <3> HAVE plan[d].at > 0
    <3>1. plan[d] \in Plan /\ plan[d].first + plan[d].count - 1 \in Int
      BY PlanFacts
    <3>2. /\ Marked(v, plan[d].first + plan[d].count - 1)
          /\ \A r \in rows : ~InBlock(plan[d], r[1])
      BY DEF BlocksOk
    <3> HIDE DEF v
    <3> QED  BY <1>4, <1>9, <3>1, <3>2
  <2> QED  BY <1>8, <1>10, <2>1 DEF BlocksOk
<1>11. CASE o.kind = "reserve" /\ plan' = [plan EXCEPT ![c] = block]
  <2>1. IdentityColumn(v) # {} /\ n = o.count /\ o.count \in Nat /\ rows' = rows
    BY <1>1, <1>5, <1>11, CallsAssumption DEF Allowed, Taken
  <2>2. /\ FirstFree(v) \in Nat /\ Marked(Latest', FirstFree(v) + o.count - 1)
        /\ \A x \in Int : Marked(v, x) => x < FirstFree(v)
    BY <1>1, <1>2, <2>1, NextValues
  <2>3. /\ block \in Plan /\ block.first = FirstFree(v) /\ block.count = o.count
        /\ \A t \in Tasks : block.used[t] = 0 /\ block.kept[t] = {}
    BY <1>2, <2>1, <2>2 DEF Plan, Block
  <2> HIDE DEF block, v, o, n
  <2>4. PlanOk(block)
    <3>1. \A t \in Tasks : slot(block, t).size \in Nat
      BY <2>1, <2>2, <2>3, Slots
    <3> QED  BY <2>3, <3>1 DEF PlanOk
  <2>5. \A r \in rows : ~InBlock(block, r[1])
    BY <1>7, <2>2, <2>3 DEF InBlock
  <2>6. plan' \in [Clients -> Plan] /\ plan'[c] = block
        /\ \A d \in Clients : d # c => plan'[d] = plan[d]
    BY <1>11, <2>3 DEF BlocksOk
  <2>7. \A d \in Clients : d # c /\ plan[d].at > 0 =>
          /\ plan[d].first + plan[d].count <= block.first
          /\ Marked(Latest', plan[d].first + plan[d].count - 1)
          /\ PlanOk(plan[d]) /\ \A r \in rows : ~InBlock(plan[d], r[1])
    <3> TAKE d \in Clients
    <3> HAVE d # c /\ plan[d].at > 0
    <3>1. /\ Marked(v, plan[d].first + plan[d].count - 1)
          /\ PlanOk(plan[d]) /\ \A r \in rows : ~InBlock(plan[d], r[1])
      BY DEF BlocksOk, v
    <3>2. /\ plan[d].first + plan[d].count - 1 \in Int /\ plan[d].first \in Int
          /\ plan[d].count \in Nat
      BY PlanFacts
    <3>3. plan[d].first + plan[d].count - 1 < FirstFree(v)
      BY <2>2, <3>1, <3>2
    <3>4. plan[d].first + plan[d].count <= block.first
      BY <2>2, <2>3, <3>2, <3>3
    <3> QED  BY <1>4, <3>1, <3>2, <3>4
  <2>8. \A d \in Clients : plan'[d].at > 0 =>
          /\ PlanOk(plan'[d]) /\ Marked(Latest', plan'[d].first + plan'[d].count - 1)
          /\ \A r \in rows' : ~InBlock(plan'[d], r[1])
    <3> TAKE d \in Clients
    <3>1. CASE d = c
      BY <2>1, <2>2, <2>3, <2>4, <2>5, <2>6, <3>1
    <3>2. CASE d # c
      BY <2>1, <2>6, <2>7, <3>2
    <3> QED  BY <3>1, <3>2
  <2>9. \A d, e \in Clients : d # e /\ plan'[d].at > 0 /\ plan'[e].at > 0 =>
          \/ plan'[d].first + plan'[d].count <= plan'[e].first
          \/ plan'[e].first + plan'[e].count <= plan'[d].first
    <3> TAKE d, e \in Clients
    <3>1. CASE d = c
      BY <2>6, <2>7, <3>1
    <3>2. CASE e = c
      BY <2>6, <2>7, <3>2
    <3>3. CASE d # c /\ e # c
      BY <2>6, <3>3 DEF BlocksOk
    <3> QED  BY <3>1, <3>2, <3>3
  <2> QED  BY <1>8, <2>6, <2>8, <2>9 DEF BlocksOk
<1> QED  BY <1>6, <1>8, <1>10, <1>11

\* The blocks stay apart when a plan stays in its block.
LEMMA PlanStep ==
    ASSUME BlocksOk, ValuesOk, NEW c \in Clients, NEW q \in Plan, plan' = [plan EXCEPT ![c] = q],
           q.at = plan[c].at, q.first = plan[c].first, q.count = plan[c].count,
           plan[c].at > 0 => PlanOk(q), UNCHANGED <<log, rows>>
    PROVE  BlocksOk' /\ ValuesOk'
<1>1. plan' \in [Clients -> Plan] /\ plan'[c] = q /\ \A d \in Clients : d # c => plan'[d] = plan[d]
  BY DEF BlocksOk
<1>2. Latest' = Latest
  BY DEF Latest
<1>3. \A d \in Clients : /\ plan'[d].at = plan[d].at /\ plan'[d].first = plan[d].first
                         /\ plan'[d].count = plan[d].count
                         /\ plan[d].at > 0 => PlanOk(plan'[d])
  BY <1>1 DEF BlocksOk
<1>4. BlocksOk'
  BY <1>1, <1>2, <1>3 DEF BlocksOk, InBlock
<1> QED  BY <1>2, <1>4 DEF ValuesOk, IdentityUnique

\* A task writes the next value of its slot (values.py IdentityCursor).
LEMMA TaskWriteNumbers ==
    ASSUME BlocksOk, ValuesOk, NEW c \in Clients, NEW t \in Tasks, TaskWrite(c, t)
    PROVE  BlocksOk' /\ ValuesOk'
<1> DEFINE p == plan[c]
           s == slot(p, t)
           r == <<s.first + p.used[t], p.at, t + 1, p.writes[t]>>
           q == [p EXCEPT !.used = [@ EXCEPT ![t] = p.used[t] + 1],
                          !.writes = [@ EXCEPT ![t] = p.writes[t] + 1],
                          !.kept = [@ EXCEPT ![t] = p.kept[t] \cup {r}]]
<1>1. /\ p \in Plan /\ p.at \in Nat /\ p.first \in Int /\ p.count \in Nat
      /\ \A u \in Tasks : /\ p.used[u] \in Nat /\ p.writes[u] \in Nat
                          /\ p.kept[u] \in SUBSET Row
  BY PlanFacts
<1>2. p.at > 0 /\ p.used[t] < s.size /\ PlanOk(p)
  BY DEF TaskWrite, BlocksOk
<1>3. plan' = [plan EXCEPT ![c] = q]
  BY DEF TaskWrite
<1>4. UNCHANGED <<log, rows>>
  BY DEF TaskWrite
<1>5. s.first \in Int /\ s.size \in Nat /\ \A u \in Tasks : slot(p, u).size \in Nat
  BY <1>1, Slots
<1>6. t \in Nat
  BY TasksCounted
<1> HIDE DEF p, s
<1>7. r \in Row /\ r[1] = s.first + p.used[t]
  BY <1>1, <1>5, <1>6 DEF Row
<1> HIDE DEF r
<1>8. /\ q \in Plan /\ q.at = p.at /\ q.first = p.first /\ q.count = p.count
      /\ \A u \in Tasks : /\ q.used[u] = IF u = t THEN p.used[t] + 1 ELSE p.used[u]
                          /\ q.kept[u] = IF u = t THEN p.kept[t] \cup {r} ELSE p.kept[u]
  <2> DEFINE used == [p.used EXCEPT ![t] = p.used[t] + 1]
             writes == [p.writes EXCEPT ![t] = p.writes[t] + 1]
             kept == [p.kept EXCEPT ![t] = p.kept[t] \cup {r}]
  <2>1. /\ p.used \in [Tasks -> Nat] /\ p.writes \in [Tasks -> Nat]
        /\ p.kept \in [Tasks -> SUBSET Row]
    BY <1>1 DEF Plan
  <2>2. used \in [Tasks -> Nat] /\ writes \in [Tasks -> Nat] /\ kept \in [Tasks -> SUBSET Row]
    BY <1>7, <2>1
  <2>3. q = [p EXCEPT !.used = used, !.writes = writes, !.kept = kept]
    OBVIOUS
  <2>4. \A u \in Tasks : /\ used[u] = IF u = t THEN p.used[t] + 1 ELSE p.used[u]
                         /\ kept[u] = IF u = t THEN p.kept[t] \cup {r} ELSE p.kept[u]
    BY <2>1
  <2> HIDE DEF used, writes, kept, q
  <2>5. /\ q \in Plan /\ q.at = p.at /\ q.first = p.first /\ q.count = p.count
        /\ q.used = used /\ q.kept = kept
    BY <1>1, <2>2, <2>3 DEF Plan
  <2> QED  BY <2>4, <2>5
<1> HIDE DEF q
<1>9. PlanOk(q)
  <2>1. \A u \in Tasks : slot(q, u) = slot(p, u)
    BY <1>8 DEF slot
  <2>2. \A u \in Tasks : u # t =>
          /\ q.used[u] <= slot(q, u).size
          /\ \A x \in q.kept[u] :
                slot(q, u).first <= x[1] /\ x[1] < slot(q, u).first + q.used[u]
          /\ \A x, y \in q.kept[u] : x[1] = y[1] => x = y
    BY <1>2, <1>8, <2>1 DEF PlanOk
  <2>3. q.used[t] <= slot(q, t).size
    BY <1>1, <1>2, <1>5, <1>8, <2>1 DEF s
  <2>4. \A x \in p.kept[t] : x[1] \in Int /\ s.first <= x[1] /\ x[1] < s.first + p.used[t]
    BY <1>1, <1>2 DEF PlanOk, s, Row
  <2>5. \A x \in q.kept[t] : slot(q, t).first <= x[1] /\ x[1] < slot(q, t).first + q.used[t]
    BY <1>1, <1>5, <1>7, <1>8, <2>1, <2>4 DEF s
  <2>6. \A x \in p.kept[t] : x[1] # r[1]
    BY <1>1, <1>5, <1>7, <2>4
  <2>7. \A x, y \in q.kept[t] : x[1] = y[1] => x = y
    <3>1. \A x, y \in p.kept[t] : x[1] = y[1] => x = y
      BY <1>2 DEF PlanOk
    <3> QED  BY <1>8, <2>6, <3>1
  <2> QED  BY <2>2, <2>3, <2>5, <2>7 DEF PlanOk
<1> QED  BY <1>3, <1>4, <1>8, <1>9, PlanStep DEF p

\* A task that runs again begins its slot anew, and what its last run wrote is not kept (values.py
\* slot_cursor).
LEMMA TaskRestartNumbers ==
    ASSUME BlocksOk, ValuesOk, NEW c \in Clients, NEW t \in Tasks, TaskRestart(c, t)
    PROVE  BlocksOk' /\ ValuesOk'
<1> DEFINE p == plan[c]
           q == [p EXCEPT !.used = [@ EXCEPT ![t] = 0], !.kept = [@ EXCEPT ![t] = {}]]
<1>1. /\ p \in Plan /\ p.first \in Int /\ p.count \in Nat
      /\ \A u \in Tasks : p.used[u] \in Nat
  BY PlanFacts
<1>2. plan' = [plan EXCEPT ![c] = q] /\ UNCHANGED <<log, rows>>
  BY DEF TaskRestart
<1>3. p.at > 0 => PlanOk(p)
  BY DEF BlocksOk
<1> HIDE DEF p
<1>4. /\ q \in Plan /\ q.at = p.at /\ q.first = p.first /\ q.count = p.count
      /\ \A u \in Tasks : /\ q.used[u] = IF u = t THEN 0 ELSE p.used[u]
                          /\ q.kept[u] = IF u = t THEN {} ELSE p.kept[u]
  BY <1>1 DEF Plan
<1> HIDE DEF q
<1>5. ASSUME p.at > 0 PROVE PlanOk(q)
  <2>1. \A u \in Tasks : slot(q, u) = slot(p, u) /\ slot(p, u).size \in Nat
    BY <1>1, <1>4, Slots DEF slot
  <2> QED  BY <1>3, <1>4, <1>5, <2>1 DEF PlanOk
<1> QED  BY <1>2, <1>4, <1>5, PlanStep DEF p

\* The driver puts what the tasks kept into the table, or nothing of it.
LEMMA PlanEndsNumbers ==
    ASSUME LogOk, BlocksOk, ValuesOk, NEW c \in Clients, PlanEnds(c)
    PROVE  BlocksOk' /\ ValuesOk'
<1> DEFINE p == plan[c]
           kept == UNION {p.kept[t] : t \in Tasks}
<1>1. p \in Plan /\ p.at > 0 /\ PlanOk(p) /\ Marked(Latest, p.first + p.count - 1)
      /\ \A r \in rows : ~InBlock(p, r[1])
  BY PlanFacts DEF PlanEnds, BlocksOk
<1>2. /\ log' = log /\ rows' \in {rows, rows \cup kept}
      /\ plan' = [plan EXCEPT ![c] = NoPlan]
  BY DEF PlanEnds
<1>3. Latest' = Latest
  BY <1>2 DEF Latest
<1> HIDE DEF p
<1>4. \A r \in kept : r \in Row /\ r[1] \in Int /\ InBlock(p, r[1])
                      /\ r[1] <= p.first + p.count - 1
  BY <1>1, KeptInBlock
<1>5. \A r, s \in kept : r[1] = s[1] => r = s
  BY <1>1, KeptOnce
<1> HIDE DEF kept
<1>6. \A r \in kept : Marked(Latest, r[1])
  <2> TAKE r \in kept
  <2> SUFFICES ASSUME NEW i \in IdentityColumn(Latest) PROVE r[1] <= Latest.cols[i].hwm
    BY DEF Marked
  <2>1. Latest.cols[i].hwm \in Nat
    BY LogFacts DEF IdentityColumn, VersionOk, ColumnsOk, IsColumn
  <2>2. p.first + p.count - 1 <= Latest.cols[i].hwm /\ p.first + p.count - 1 \in Int
    BY <1>1 DEF Marked, Plan
  <2> QED  BY <1>4, <2>1, <2>2
<1>7. IdentityUnique'
  BY <1>1, <1>2, <1>4, <1>5 DEF ValuesOk, IdentityUnique
<1>8. ValuesOk'
  BY <1>2, <1>3, <1>4, <1>6, <1>7 DEF ValuesOk
<1>9. plan' \in [Clients -> Plan] /\ plan'[c].at = 0
      /\ \A d \in Clients : d # c => plan'[d] = plan[d]
  <2>1. NoPlan \in Plan /\ NoPlan.at = 0
    BY DEF NoPlan, Block, Plan
  <2> HIDE DEF NoPlan
  <2> QED  BY <1>2, <2>1 DEF BlocksOk
<1>10. ASSUME NEW d \in Clients, d # c, plan[d].at > 0, NEW r \in rows'
       PROVE  ~InBlock(plan[d], r[1])
  <2>1. CASE r \in rows
    BY <1>10, <2>1 DEF BlocksOk
  <2>2. CASE r \in kept
    <3>1. /\ plan[d].first \in Int /\ plan[d].count \in Nat
          /\ p.first \in Int /\ p.count \in Nat
      BY <1>1, PlanFacts DEF p
    <3>2. \/ p.first + p.count <= plan[d].first
          \/ plan[d].first + plan[d].count <= p.first
      BY <1>1, <1>10 DEF BlocksOk, p
    <3> QED  BY <1>4, <2>2, <3>1, <3>2 DEF InBlock
  <2> QED  BY <1>2, <2>1, <2>2
<1>11. BlocksOk'
  BY <1>3, <1>9, <1>10 DEF BlocksOk
<1> QED  BY <1>8, <1>11

\* Every step keeps the blocks apart and the values below the marks.
LEMMA NumbersStep ==
    ASSUME LogOk, JobsOk, BlocksOk, ValuesOk, [Next]_vars PROVE BlocksOk' /\ ValuesOk'
<1>1. CASE UNCHANGED <<log, plan, rows>>
  <2>1. Latest' = Latest
    BY <1>1 DEF Latest
  <2> QED  BY <1>1, <2>1 DEF BlocksOk, ValuesOk, IdentityUnique
<1>2. CASE UNCHANGED vars
  BY <1>1, <1>2 DEF vars
<1>3. ASSUME NEW c \in Clients, NEW o \in Ops, Begin(c, o) PROVE BlocksOk' /\ ValuesOk'
  BY <1>1, <1>3 DEF Begin
<1>4. ASSUME NEW c \in Clients, Retry(c) PROVE BlocksOk' /\ ValuesOk'
  BY <1>1, <1>4 DEF Retry
<1> QED  BY <1>2, <1>3, <1>4, CommitNumbers, TaskWriteNumbers, TaskRestartNumbers,
            PlanEndsNumbers DEF Next

\* There are no blocks and no values at first.
LEMMA NumbersStart == Init => BlocksOk /\ ValuesOk
<1> SUFFICES ASSUME Init PROVE BlocksOk /\ ValuesOk
  OBVIOUS
<1>1. rows = {} /\ plan = [c \in Clients |-> NoPlan]
  BY DEF Init
<1>2. NoPlan \in Plan /\ NoPlan.at = 0
  BY DEF NoPlan, Block, Plan
<1> HIDE DEF NoPlan
<1>3. plan \in [Clients -> Plan] /\ \A c \in Clients : plan[c].at = 0
  BY <1>1, <1>2
<1> QED  BY <1>1, <1>3 DEF BlocksOk, ValuesOk, IdentityUnique

\* No value is generated twice for the identity column: by an append that was computed on the
\* version before it, a task of a distributed write that ran again, or a driver whose blocks
\* another driver reserved between.
THEOREM IdentityUniqueHolds == Spec => []IdentityUnique
<1>1. LogOk /\ JobsOk /\ BlocksOk /\ ValuesOk => IdentityUnique
  BY DEF ValuesOk
<1>2. Init => LogOk /\ JobsOk /\ BlocksOk /\ ValuesOk
  BY LogStart, NumbersStart
<1>3. LogOk /\ JobsOk /\ BlocksOk /\ ValuesOk /\ [Next]_vars
          => (LogOk /\ JobsOk /\ BlocksOk /\ ValuesOk)'
  BY LogStep, NumbersStep
<1> QED  BY <1>1, <1>2, <1>3, PTL DEF Spec

-----------------------------------------------------------------------------
(* A column reads what was written for it. *)

\* Whatever a call changes, the columns and their ids descend from those there were, and a file is
\* one there was or the one it writes. (A RESTORE takes both from an earlier version.)
LEMMA ChangeDescends ==
    ASSUME NEW v, NEW at \in Nat, VersionOk(v, at), NEW o \in Ops, Allowed(v, o),
           o.kind # "restore", NEW w, w = Mutate(v, o, at + 1)
    PROVE  /\ Descends(v, w, at + 1) /\ IdsDescend(v, w, at + 1)
           /\ \A f \in w.files : f \in v.files \/ f = NewFile(w, o)
<1>1. CASE InPlace(v, w)
  BY <1>1, InPlaceDescends DEF InPlace
<1>2. CASE o.kind = "add_column"
  <2>1. o.name \notin names(v) /\ w = add_columns(v, o, at + 1)
    BY <1>2 DEF Allowed, Mutate, add_columns_allowed
  <2>2. w.files = v.files
    BY <2>1, AddColumnsOk
  <2>3. InPlace(v, v) /\ SameNames(v, v)
    BY DEF VersionOk, ColumnsOk, InPlace, SameNames, SameIds, Widens
  <2> QED  BY <2>1, <2>2, <2>3, AddedDescends
<1>3. CASE o.kind = "drop_column"
  <2>1. o.name \in names(v) /\ w = drop_column(v, o) /\ v.mode # "none"
    BY <1>3 DEF Allowed, Mutate, drop_column_allowed, require_column_mapping
  <2>2. /\ w.files = v.files /\ w.mode = v.mode /\ w.maxId = v.maxId
        /\ \A j \in DOMAIN w.cols : \E i \in DOMAIN v.cols : w.cols[j] = v.cols[i]
    BY <2>1, DropColumnOk
  <2>3. Descends(v, w, at + 1)
    BY <2>1, <2>2 DEF Descends, Continues, Widens
  <2>4. IdsDescend(v, w, at + 1)
    BY <2>2 DEF IdsDescend
  <2> QED  BY <2>2, <2>3, <2>4
<1>4. CASE o.kind = "append"
  <2>1. /\ append_allowed(v, o) /\ w = append(v, o, at + 1)
        /\ \A f, g \in o.batch : f.name = g.name => f = g
    BY <1>4, CallsAssumption DEF Allowed, Mutate
  <2> QED  BY <2>1, AppendOk
<1>5. CASE o.kind = "rename_column"
  <2>1. rename_column_allowed(v, o) /\ w = rename_column(v, o)
    BY <1>5 DEF Allowed, Mutate
  <2>2. InPlace(v, w)
    BY <2>1, RenameColumnOk DEF rename_column_allowed
  <2> QED  BY <1>1, <2>2
<1>6. CASE o.kind = "set_nullability"
  <2>1. o.name \in names(v) /\ w = set_nullability(v, o)
    BY <1>6 DEF Allowed, Mutate, set_nullability_allowed
  <2> QED  BY <1>1, <2>1, SetNullabilityOk
<1>7. CASE o.kind = "alter_column_type"
  <2>1. /\ o.name \in names(v) /\ widening_allowed(Column(v, o.name).type, o.type)
        /\ w = alter_column_type(v, o)
    BY <1>7 DEF Allowed, Mutate, alter_column_type_allowed
  <2> QED  BY <1>1, <2>1, AlterColumnTypeOk
<1>8. CASE o.kind = "set_properties"
  <2>1. w = set_properties(v, o)
    BY <1>8 DEF Mutate
  <2> QED  BY <1>1, <2>1, SetPropertiesOk
<1>9. CASE o.kind = "reserve"
  <2>1. w = reserve_identity(v, o.count) /\ o.count \in Nat
    BY <1>9, CallsAssumption DEF Mutate
  <2> QED  BY <1>1, <2>1, ReserveOk
<1>10. CASE o.kind \in {"add_constraint", "drop_constraint", "cluster_by", "add_feature",
                        "unset_properties"}
  <2>1. \/ w = add_constraints(v, o)
        \/ w \in {drop_constraint(v, o), cluster_by(v, o), add_feature(v, o),
                  unset_properties(v, o)}
    BY <1>10 DEF Mutate
  <2>2. SameRest(v, w)
    BY <2>1, ConstraintAdded, SameColumns DEF VersionOk
  <2> QED  BY <1>1, <2>2, SameColumnsOk DEF SameRest
<1> QED  BY <1>2, <1>3, <1>4, <1>5, <1>6, <1>7, <1>8, <1>9, <1>10, CallsAssumption

\* What a file holds for the columns it goes on holding for those that descend from them.
LEMMA OwnStays ==
    ASSUME NEW v, NEW at \in Nat, VersionOk(v, at), NEW w, Descends(v, w, at + 1),
           NEW f, FileOwn(f, v, at)
    PROVE  FileOwn(f, w, at + 1)
<1> SUFFICES ASSUME NEW k \in f
             PROVE  /\ k.phys[2] \in 0..(at + 1)
                    /\ w.mode = "none" => \E j \in DOMAIN w.cols : k.phys = w.cols[j].phys
                    /\ \A j \in DOMAIN w.cols :
                          k.phys = w.cols[j].phys =>
                             k.birth = w.cols[j].birth /\ Widens(k.type, w.cols[j].type)
  BY DEF FileOwn
<1>1. /\ k.phys[2] \in 0..at
      /\ v.mode = "none" => \E i \in DOMAIN v.cols : k.phys = v.cols[i].phys
      /\ \A i \in DOMAIN v.cols : k.phys = v.cols[i].phys =>
            k.birth = v.cols[i].birth /\ Widens(k.type, v.cols[i].type)
  BY DEF FileOwn
<1>2. w.mode = "none" => \E j \in DOMAIN w.cols : k.phys = w.cols[j].phys
  BY <1>1 DEF Descends
<1>3. ASSUME NEW j \in DOMAIN w.cols, k.phys = w.cols[j].phys
      PROVE  k.birth = w.cols[j].birth /\ Widens(k.type, w.cols[j].type)
  <2>1. ASSUME NEW i \in DOMAIN v.cols, Continues(v.cols[i], w.cols[j])
        PROVE  k.birth = w.cols[j].birth /\ Widens(k.type, w.cols[j].type)
    <3>1. k.birth = v.cols[i].birth /\ Widens(k.type, v.cols[i].type)
      BY <1>1, <1>3, <2>1 DEF Continues
    <3> QED  BY <2>1, <3>1 DEF Continues, Widens, widening_allowed
  <2>2. ~NewTo(v, w.cols[j], at + 1)
    <3> SUFFICES ASSUME NewTo(v, w.cols[j], at + 1) PROVE FALSE
      OBVIOUS
    <3>1. CASE MappedColumns(v)
      <4>1. k.phys = <<"col", at + 1>>
        BY <1>3, <3>1 DEF NewTo
      <4> QED  BY <1>1, <4>1
    <3>2. CASE ~MappedColumns(v)
      <4>1. v.mode = "none" /\ k.phys = <<w.cols[j].name, 0>> /\ w.cols[j].name \notin names(v)
        BY <1>3, <3>2 DEF NewTo, MappedColumns, VersionOk
      <4>2. PICK i \in DOMAIN v.cols : k.phys = v.cols[i].phys
        BY <1>1, <4>1
      <4>3. k.phys = <<v.cols[i].name, 0>>
        BY <4>1, <4>2 DEF VersionOk, ColumnsOk
      <4> QED  BY <4>1, <4>3 DEF names
    <3> QED  BY <3>1, <3>2
  <2> QED  BY <2>1, <2>2 DEF Descends
<1> QED  BY <1>1, <1>2, <1>3

\* ... and for those that come back.
LEMMA OwnThere ==
    ASSUME NEW v, NEW w, w.cols = v.cols, w.mode = v.mode, NEW at, NEW n,
           \A x \in 0..at : x \in 0..n, NEW f, FileOwn(f, v, at)
    PROVE  FileOwn(f, w, n)
BY DEF FileOwn

\* An append writes its chunks for the columns of its version.
LEMMA NewFileOwn ==
    ASSUME NEW w, NEW at \in Nat, VersionOk(w, at), NEW o PROVE FileOwn(NewFile(w, o), w, at)
<1> SUFFICES ASSUME NEW k \in NewFile(w, o)
             PROVE  /\ k.phys[2] \in 0..at
                    /\ \E i \in DOMAIN w.cols : k.phys = w.cols[i].phys
                    /\ \A i \in DOMAIN w.cols : k.phys = w.cols[i].phys =>
                          k.birth = w.cols[i].birth /\ Widens(k.type, w.cols[i].type)
  BY DEF FileOwn
<1>1. PICK j \in DOMAIN w.cols : k.phys = w.cols[j].phys /\ k.birth = w.cols[j].birth
                                 /\ k.type = w.cols[j].type
  BY DEF NewFile
<1>2. \A i \in DOMAIN w.cols : k.phys = w.cols[i].phys => i = j
  BY <1>1 DEF VersionOk, ColumnsOk
<1>3. k.phys[2] \in 0..at
  BY <1>1 DEF VersionOk, ColumnsOk
<1> QED  BY <1>1, <1>2, <1>3 DEF Widens

\* The largest id of a version that hands them out in order.
LEMMA MaxId ==
    ASSUME NEW v, v.maxId \in Nat, \A i \in DOMAIN v.cols : v.cols[i].id \in 0..v.maxId
    PROVE  max_column_id(v) = v.maxId
<1> DEFINE S == {v.maxId} \cup {v.cols[i].id : i \in DOMAIN v.cols}
<1>1. v.maxId \in S /\ \A x \in S : x \in Nat /\ x <= v.maxId
  OBVIOUS
<1> HIDE DEF S
<1>2. \A x \in S : (\A y \in S : x >= y) => x = v.maxId
  BY <1>1
<1>3. (CHOOSE x \in S : \A y \in S : x >= y) = v.maxId
  BY <1>1, <1>2
<1> QED  BY <1>3 DEF max_column_id, Max, S

\* A column of a mapped version there is has this id and this birth.
HandedOut(d) ==
    \E n \in DOMAIN log : \E i \in DOMAIN log[n].cols :
        /\ log[n].mode = "name" /\ d.id = log[n].cols[i].id /\ d.birth = log[n].cols[i].birth

\* An id means one column in the next version too.
LEMMA IdsNext ==
    ASSUME LogOk, IdsOk, NEW w, log' = Append(log, w), VersionOk(w, Len(log)),
           \/ IdsDescend(Latest, w, Len(log))
           \/ \E n \in DOMAIN log : /\ w.mode = log[n].mode /\ w.mode = Latest.mode
                                    /\ w.cols = log[n].cols /\ w.maxId = Latest.maxId
    PROVE  IdsOk'
<1> DEFINE v == Latest
           at == Len(log)
<1>1. at \in Nat \ {0} /\ DOMAIN log = 1..at /\ v = log[at]
  BY LogFacts DEF Latest
<1>2. /\ DOMAIN log' = 1..(at + 1) /\ \A n \in DOMAIN log : log'[n] = log[n]
      /\ log'[at + 1] = w /\ Len(log') = at + 1 /\ Latest' = w
  <2>1. PICK S : log \in Seq(S)
    BY DEF LogOk
  <2>2. /\ DOMAIN log' = 1..(at + 1) /\ \A n \in DOMAIN log : log'[n] = log[n]
        /\ log'[at + 1] = w
    BY <2>1, Appended
  <2>3. Len(log') = at + 1
    BY <2>1
  <2> QED  BY <2>2, <2>3 DEF Latest
<1>3. CASE v.mode # "name"
  <2>1. \A n \in DOMAIN log : log[n].mode # "name"
    BY <1>3 DEF IdsOk
  <2>2. CASE w.mode # "name"
    BY <1>1, <1>2, <2>1, <2>2 DEF IdsOk
  <2>3. CASE w.mode = "name"
    <3>1. w.maxId = Len(w.cols) /\ \A j \in DOMAIN w.cols : w.cols[j].id = j
      BY <1>3, <2>3 DEF IdsDescend
    <3>2. PICK S : w.cols \in Seq(S)
      BY DEF VersionOk, ColumnsOk
    <3>3. w.maxId \in Nat /\ \A j \in DOMAIN w.cols : w.cols[j].id \in 0..w.maxId
      BY <3>1, <3>2
    <3>4. \A n \in DOMAIN log' : log'[n].mode = "name" => log'[n] = w
      BY <1>1, <1>2, <2>1
    <3> QED  BY SMTT(30), <1>2, <2>3, <3>1, <3>3, <3>4 DEF IdsOk
  <2> QED  BY <2>2, <2>3
<1>4. CASE v.mode = "name"
  <2>1. v.maxId \in Nat /\ \A i \in DOMAIN v.cols : v.cols[i].id \in 0..v.maxId
    BY <1>1, <1>4 DEF IdsOk
  <2>2. max_column_id(v) = v.maxId
    BY <2>1, MaxId
  <2>3. /\ w.mode = "name" /\ w.maxId \in {v.maxId, v.maxId + 1}
        /\ \A j \in DOMAIN w.cols :
              \/ HandedOut(w.cols[j])
              \/ w.cols[j].id = v.maxId + 1 /\ w.cols[j].birth = at /\ w.maxId = v.maxId + 1
    <3>1. CASE IdsDescend(v, w, at)
      BY <1>1, <1>4, <2>2, <3>1 DEF IdsDescend, HandedOut
    <3>2. ASSUME NEW n \in DOMAIN log, w.mode = log[n].mode, w.mode = v.mode,
                 w.cols = log[n].cols, w.maxId = v.maxId
          PROVE  /\ w.mode = "name" /\ w.maxId = v.maxId
                 /\ \A j \in DOMAIN w.cols : HandedOut(w.cols[j])
      BY <1>4, <3>2 DEF HandedOut
    <3> QED  BY <3>1, <3>2
  <2> HIDE DEF v
  <2>4. ASSUME NEW d, HandedOut(d)
        PROVE  /\ d.id \in 0..v.maxId
               /\ \A n \in DOMAIN log : \A i \in DOMAIN log[n].cols :
                     log[n].mode = "name" /\ log[n].cols[i].id = d.id =>
                        log[n].cols[i].birth = d.birth
    <3>1. PICK n \in DOMAIN log : \E i \in DOMAIN log[n].cols :
            /\ log[n].mode = "name" /\ d.id = log[n].cols[i].id /\ d.birth = log[n].cols[i].birth
      BY <2>4 DEF HandedOut
    <3>2. PICK i \in DOMAIN log[n].cols :
            /\ log[n].mode = "name" /\ d.id = log[n].cols[i].id /\ d.birth = log[n].cols[i].birth
      BY <3>1
    <3>3. log[n].maxId \in Nat /\ log[n].maxId <= v.maxId /\ d.id \in 0..log[n].maxId
      BY <3>2 DEF IdsOk, v
    <3> QED  BY <2>1, <3>2, <3>3 DEF IdsOk
  <2>5. \A j \in DOMAIN w.cols : w.cols[j].id \in 0..w.maxId
    BY <2>1, <2>3, <2>4
  <2>6. \A n \in DOMAIN log : \A i \in DOMAIN log[n].cols : \A j \in DOMAIN w.cols :
          log[n].mode = "name" /\ log[n].cols[i].id = w.cols[j].id =>
             log[n].cols[i].birth = w.cols[j].birth
    <3> TAKE n \in DOMAIN log
    <3> TAKE i \in DOMAIN log[n].cols
    <3> TAKE j \in DOMAIN w.cols
    <3> HAVE log[n].mode = "name" /\ log[n].cols[i].id = w.cols[j].id
    <3>1. HandedOut(log[n].cols[i])
      BY DEF HandedOut
    <3>2. log[n].cols[i].id # v.maxId + 1
      BY <2>1, <2>4, <3>1
    <3> QED  BY <2>3, <2>4, <3>2
  <2>7. \A i, j \in DOMAIN w.cols : w.cols[i].id = w.cols[j].id => w.cols[i].birth = w.cols[j].birth
    <3> TAKE i, j \in DOMAIN w.cols
    <3> HAVE w.cols[i].id = w.cols[j].id
    <3>1. CASE HandedOut(w.cols[i])
      BY <2>6, <3>1 DEF HandedOut
    <3>2. CASE HandedOut(w.cols[j])
      BY <2>6, <3>2 DEF HandedOut
    <3> QED  BY <2>3, <3>1, <3>2
  <2>8. \A n \in DOMAIN log : log[n].mode = "name" =>
          /\ log[n].maxId \in Nat /\ log[n].maxId <= w.maxId
          /\ \A i \in DOMAIN log[n].cols : log[n].cols[i].id \in 0..log[n].maxId
    BY <2>1, <2>3 DEF IdsOk, v
  <2>9. \A n \in DOMAIN log' : n \in DOMAIN log \/ n = at + 1
    BY <1>1, <1>2
  <2>10. w.maxId \in Nat
    BY <2>1, <2>3
  <2>11. \A m, n \in DOMAIN log : log[m].mode = "name" /\ log[n].mode = "name" =>
          \A i \in DOMAIN log[m].cols : \A j \in DOMAIN log[n].cols :
             log[m].cols[i].id = log[n].cols[j].id => log[m].cols[i].birth = log[n].cols[j].birth
    BY DEF IdsOk
  <2>12. \A m, n \in DOMAIN log' : log'[m].mode = "name" /\ log'[n].mode = "name" =>
          \A i \in DOMAIN log'[m].cols : \A j \in DOMAIN log'[n].cols :
             log'[m].cols[i].id = log'[n].cols[j].id => log'[m].cols[i].birth = log'[n].cols[j].birth
    <3> TAKE m, n \in DOMAIN log'
    <3>1. CASE m \in DOMAIN log /\ n \in DOMAIN log
      BY <1>2, <2>11, <3>1
    <3>2. CASE m \in DOMAIN log /\ n = at + 1
      BY <1>2, <2>6, <3>2
    <3>3. CASE m = at + 1 /\ n \in DOMAIN log
      BY <1>2, <2>6, <3>3
    <3>4. CASE m = at + 1 /\ n = at + 1
      BY <1>2, <2>7, <3>4
    <3> QED  BY <2>9, <3>1, <3>2, <3>3, <3>4
  <2>13. \A n \in DOMAIN log' : log'[n].mode = "name" =>
          /\ log'[n].maxId \in Nat /\ log'[n].maxId <= w.maxId
          /\ \A i \in DOMAIN log'[n].cols : log'[n].cols[i].id \in 0..log'[n].maxId
    <3> TAKE n \in DOMAIN log'
    <3>1. CASE n \in DOMAIN log
      BY <1>2, <2>8, <3>1
    <3>2. CASE n = at + 1
      BY <1>2, <2>5, <2>10, <3>2
    <3> QED  BY <2>9, <3>1, <3>2
  <2> QED  BY <1>2, <2>3, <2>10, <2>12, <2>13 DEF IdsOk
<1> QED  BY <1>3, <1>4

\* Every step leaves each column what was written for it, and each id its column.
LEMMA OwnStep ==
    ASSUME LogOk, JobsOk, FilesOwn, IdsOk, [Next]_vars PROVE FilesOwn' /\ IdsOk'
<1>1. CASE log' = log
  BY <1>1 DEF FilesOwn, IdsOk, Latest
<1>2. ASSUME NEW c \in Clients, Commit(c) PROVE FilesOwn' /\ IdsOk'
  <2> DEFINE o == job[c].op
             at == Len(log) - 1
             w == Mutate(Latest, o, Len(log))
  <2>1. /\ Len(log) \in Nat \ {0} /\ DOMAIN log = 1..Len(log) /\ VersionOk(Latest, at)
        /\ at \in Nat /\ Len(log) = at + 1
    BY LogFacts
  <2>2. /\ LogOk' /\ o \in Ops /\ log[job[c].base] = Latest /\ Allowed(Latest, o)
    BY <1>2, CommitLogs
  <2>3. log' = Append(log, w)
    BY <1>2, <2>2 DEF Commit
  <2>4. w = Mutate(Latest, o, at + 1)
    BY <2>1
  <2> HIDE DEF w, o, at
  <2>5. /\ DOMAIN log' = 1..(Len(log) + 1) /\ \A n \in DOMAIN log : log'[n] = log[n]
        /\ log'[Len(log) + 1] = w
    <3>1. PICK S : log \in Seq(S)
      BY DEF LogOk
    <3> QED  BY <2>3, <3>1, Appended
  <2>6. VersionOk(w, Len(log))
    <3>1. VersionOk(log'[Len(log) + 1], (Len(log) + 1) - 1)
      BY <2>1, <2>2, <2>5 DEF LogOk
    <3>2. (Len(log) + 1) - 1 = Len(log)
      BY <2>1
    <3> QED  BY <2>5, <3>1, <3>2
  <2>7. ASSUME o.kind = "restore"
        PROVE  /\ o.target \in Nat /\ o.target + 1 \in DOMAIN log /\ o.target <= Len(log)
               /\ w.mode = log[o.target + 1].mode /\ w.mode = Latest.mode
               /\ w.cols = log[o.target + 1].cols /\ w.files = log[o.target + 1].files
               /\ w.maxId = Latest.maxId
    <3>1. /\ o.target < Len(log) - 1 /\ restore_allowed(Latest, log[o.target + 1])
          /\ o.target \in Nat /\ w = restored(Latest, log[o.target + 1])
      BY <2>2, <2>4, <2>7, CallsAssumption DEF Allowed, Mutate
    <3>2. o.target + 1 \in DOMAIN log /\ o.target <= Len(log)
      BY <2>1, <3>1
    <3>3. IsVersion(log[o.target + 1])
      BY <3>2 DEF LogOk, VersionOk
    <3>4. /\ w.mode = log[o.target + 1].mode /\ w.cols = log[o.target + 1].cols
          /\ w.files = log[o.target + 1].files /\ w.maxId = Latest.maxId
      BY <3>1, <3>3 DEF restored, IsVersion
    <3> QED  BY <3>1, <3>2, <3>4 DEF restore_allowed
  <2>8. ASSUME o.kind # "restore"
        PROVE  /\ Descends(Latest, w, at + 1) /\ IdsDescend(Latest, w, at + 1)
               /\ \A f \in w.files : f \in Latest.files \/ f = NewFile(w, o)
    BY <2>1, <2>2, <2>4, <2>8, ChangeDescends
  <2>9. IdsOk'
    <3>1. CASE o.kind = "restore"
      BY <2>3, <2>6, <2>7, <3>1, IdsNext
    <3>2. CASE o.kind # "restore"
      BY <2>1, <2>3, <2>6, <2>8, <3>2, IdsNext
    <3> QED  BY <3>1, <3>2
  <2>10. \A f \in w.files : FileOwn(f, w, Len(log))
    <3>1. CASE o.kind = "restore"
      <4>1. \A f \in w.files : FileOwn(f, log[o.target + 1], (o.target + 1) - 1)
        BY <2>7, <3>1 DEF FilesOwn
      <4>2. \A x \in 0..((o.target + 1) - 1) : x \in 0..Len(log)
        BY <2>1, <2>7, <3>1
      <4> QED  BY <2>7, <3>1, <4>1, <4>2, OwnThere
    <3>2. CASE o.kind # "restore"
      <4>1. \A f \in Latest.files : FileOwn(f, Latest, at)
        BY <2>1 DEF FilesOwn, Latest, at
      <4>2. \A f \in Latest.files : FileOwn(f, w, at + 1)
        BY <2>1, <2>8, <3>2, <4>1, OwnStays
      <4>3. FileOwn(NewFile(w, o), w, Len(log))
        BY <2>1, <2>6, NewFileOwn
      <4> QED  BY <2>1, <2>8, <3>2, <4>2, <4>3
    <3> QED  BY <3>1, <3>2
  <2>11. FilesOwn'
    <3> SUFFICES ASSUME NEW n \in DOMAIN log'
                 PROVE  \A f \in log'[n].files : FileOwn(f, log'[n], n - 1)
      BY DEF FilesOwn
    <3>1. CASE n \in DOMAIN log
      BY <2>5, <3>1 DEF FilesOwn
    <3>2. CASE n = Len(log) + 1
      <4>1. n - 1 = Len(log)
        BY <2>1, <3>2
      <4> QED  BY <2>5, <2>10, <3>2, <4>1
    <3> QED  BY <2>1, <2>5, <3>1, <3>2
  <2> QED  BY <2>9, <2>11
<1> QED  BY ZenonT(60), <1>1, <1>2 DEF Next, vars, Begin, Retry, TaskWrite, TaskRestart, PlanEnds

\* ... as the first version does.
LEMMA OwnStart == Init => FilesOwn /\ IdsOk
<1> SUFFICES ASSUME Init PROVE FilesOwn /\ IdsOk
  OBVIOUS
<1>1. PICK v \in Foreign \cup {initial_actions(d) : d \in Created} : log = <<v>>
  BY DEF Init
<1>2. VersionOk(v, 0) /\ FirstIdsOk(v) /\ \A f \in v.files : FileOwn(f, v, 0)
  BY FirstOk
<1>3. DOMAIN log = {1} /\ log[1] = v /\ Latest = v /\ 1 - 1 = 0
  BY <1>1 DEF Latest
<1>4. FilesOwn
  BY <1>2, <1>3 DEF FilesOwn
<1>5. IdsOk
  <2>1. v.mode = "name" => /\ v.maxId \in Nat /\ v.maxId <= v.maxId
                           /\ \A i \in DOMAIN v.cols : v.cols[i].id \in 0..v.maxId
    BY <1>2 DEF FirstIdsOk
  <2>2. v.mode = "name" => \A i, j \in DOMAIN v.cols :
          v.cols[i].id = v.cols[j].id => v.cols[i].birth = v.cols[j].birth
    BY <1>2 DEF FirstIdsOk
  <2> QED  BY <1>3, <2>1, <2>2 DEF IdsOk
<1> QED  BY <1>4, <1>5

\* A chunk found under a column's Parquet name was written for that column, in a type it has been
\* widened from, and a field id means one column in every version: whatever two clients add, drop,
\* rename, widen, map, merge and restore, computed on whatever the other left.
THEOREM ReadsOwnColumnHolds == Spec => []ReadsOwnColumn
<1> DEFINE Inv == LogOk /\ JobsOk /\ FilesOwn /\ IdsOk
<1>1. FilesOwn /\ IdsOk => ReadsOwnColumn
  <2> SUFFICES ASSUME FilesOwn, IdsOk PROVE ReadsOwnColumn
    OBVIOUS
  <2>1. \A v \in Versions : \A f \in v.files : \A k \in f : \A c \in Columns(v) :
          k.phys = c.phys =>
             k.birth = c.birth /\ (k.type = c.type \/ widening_allowed(k.type, c.type))
    BY DEF FilesOwn, FileOwn, Versions, Columns, Widens
  <2>2. \A v, w \in Versions : \A c \in Columns(v), d \in Columns(w) :
          v.mode = "name" /\ w.mode = "name" /\ c.id = d.id => c.birth = d.birth
    BY DEF IdsOk, Versions, Columns
  <2> QED  BY <2>1, <2>2 DEF ReadsOwnColumn
<1>2. Init => Inv
  BY LogStart, OwnStart
<1>3. Inv /\ [Next]_vars => Inv'
  BY LogStep, OwnStep
<1> QED  BY <1>1, <1>2, <1>3, PTL DEF Spec

-----------------------------------------------------------------------------
(* What a version says of itself. *)

\* The features its readers must know and are not asked to.
Unread(v) == Binding(v) \ effective_reader_features(v)

\* w lists every feature that v lists, and leaves none unread that v does not.
Upgrades(v, w) ==
    /\ w.reader \in Nat /\ w.writer \in Nat
    /\ effective_writer_features(v) \subseteq effective_writer_features(w)
    /\ Unread(w) \subseteq Unread(v)

\* w asks of readers and writers what v does.
SameProtocol(v, w) == w.reader = v.reader /\ w.writer = v.writer /\ w.rf = v.rf /\ w.wf = v.wf

\* v refers to what it has, and lists what it needs.
Sound(v) ==
    /\ v.reader \in Nat /\ v.writer \in Nat
    /\ Resolves(v) /\ Required(v) \subseteq effective_writer_features(v)

\* Upgrades follow each other.
LEMMA UpgradesOn ==
    ASSUME NEW u, NEW v, NEW w, Upgrades(u, v), Upgrades(v, w) PROVE Upgrades(u, w)
BY DEF Upgrades

\* The same protocol is an upgrade of itself.
LEMMA ProtocolKept ==
    ASSUME NEW v, v.reader \in Nat, v.writer \in Nat, NEW w, SameProtocol(v, w)
    PROVE  Upgrades(v, w)
BY DEF SameProtocol, Upgrades, Unread, Binding, effective_writer_features, effective_reader_features

\* with_features lists what it is given, and asks the readers for what binds them.
LEMMA FeaturesListed ==
    ASSUME NEW p, IsVersion(p), p.reader \in Nat, p.writer \in Nat, NEW S,
           NEW w, w = with_features(p, S)
    PROVE  Upgrades(p, w) /\ S \subseteq effective_writer_features(w)
<1> DEFINE have == p.wf \cup ImpliedWriter(p.writer)
           One(T) == T \cup UNION {FEATURE_DEPENDENCIES(f) : f \in T}
           wanted == One(One(S))
           all == have \cup wanted
           binding == all \cap ReaderWriterFeature
<1>1. S \subseteq wanted
  OBVIOUS
<1>2. w = IF wanted \subseteq have THEN p
          ELSE IF p.reader >= 3 THEN [p EXCEPT !.writer = 7, !.wf = all, !.rf = @ \cup binding]
          ELSE IF (binding \cap wanted) \subseteq ImpliedReader(p.reader)
          THEN [p EXCEPT !.writer = 7, !.wf = all]
          ELSE [p EXCEPT !.reader = 3, !.writer = 7, !.wf = all, !.rf = binding]
  BY DEF with_features
<1>3. /\ have = effective_writer_features(p)
      /\ effective_reader_features(p) = p.rf \cup ImpliedReader(p.reader)
  BY DEF effective_writer_features, effective_reader_features
<1>4. ImpliedWriter(7) = {} /\ ImpliedReader(3) = {}
  BY DEF ImpliedWriter, ImpliedReader
<1> HIDE DEF have, wanted
<1>5. CASE wanted \subseteq have
  BY <1>1, <1>2, <1>3, <1>5, ProtocolKept DEF SameProtocol
<1> HIDE DEF all
<1>6. ASSUME w.writer = 7, w.wf = all, w.reader \in Nat,
             binding \ effective_reader_features(w) \subseteq Unread(p)
      PROVE  Upgrades(p, w) /\ S \subseteq effective_writer_features(w)
  <2>1. effective_writer_features(w) = all
    BY <1>4, <1>6 DEF effective_writer_features
  <2>2. Binding(w) = binding
    BY <2>1 DEF Binding
  <2> QED  BY <1>1, <1>3, <1>6, <2>1, <2>2 DEF Upgrades, Unread, all
<1> HIDE DEF binding
<1>7. CASE ~(wanted \subseteq have) /\ p.reader >= 3
  <2>1. w = [p EXCEPT !.writer = 7, !.wf = all, !.rf = @ \cup binding]
    BY <1>2, <1>7
  <2>2. w.writer = 7 /\ w.wf = all /\ w.reader = p.reader /\ w.rf = p.rf \cup binding
    BY <2>1 DEF IsVersion
  <2> QED  BY <1>6, <2>2 DEF effective_reader_features
<1>8. CASE ~(wanted \subseteq have) /\ p.reader < 3 /\ (binding \cap wanted) \subseteq ImpliedReader(p.reader)
  <2>1. w = [p EXCEPT !.writer = 7, !.wf = all]
    BY <1>2, <1>8
  <2>2. w.writer = 7 /\ w.wf = all /\ w.reader = p.reader /\ w.rf = p.rf
    BY <2>1 DEF IsVersion
  <2>3. effective_reader_features(w) = effective_reader_features(p)
    BY <2>2 DEF effective_reader_features
  <2>4. binding \ effective_reader_features(w) \subseteq Unread(p)
    BY <1>3, <1>8, <2>3 DEF Unread, Binding, binding, all
  <2> QED  BY <1>6, <2>2, <2>4
<1>9. CASE ~(wanted \subseteq have) /\ p.reader < 3 /\ ~((binding \cap wanted) \subseteq ImpliedReader(p.reader))
  <2>1. w = [p EXCEPT !.reader = 3, !.writer = 7, !.wf = all, !.rf = binding]
    BY <1>2, <1>9
  <2>2. w.writer = 7 /\ w.wf = all /\ w.reader = 3 /\ w.rf = binding
    BY <2>1 DEF IsVersion
  <2> QED  BY <1>6, <2>2 DEF effective_reader_features
<1> QED  BY <1>5, <1>7, <1>8, <1>9

\* A protocol that changes is of the writers that list their features.
LEMMA WriterVersion ==
    ASSUME NEW p, IsVersion(p), NEW S PROVE with_features(p, S).writer \in {p.writer, 7}
BY DEF IsVersion, with_features

\* What a version needs.
LEMMA RequiredParts ==
    ASSUME NEW v, NEW R
    PROVE  Required(v) \subseteq R <=>
              /\ v.cfg \subseteq R
              /\ v.mode = "name" => "columnMapping" \in R
              /\ v.cons # {} => "checkConstraints" \in R
              /\ v.clus # {} => "clustering" \in R /\ "domainMetadata" \in R
              /\ \A i \in DOMAIN v.cols :
                    type_features(v.cols[i].type) \subseteq R /\ column_features(v.cols[i]) \subseteq R
<1> DEFINE F(i) == type_features(v.cols[i].type) \cup column_features(v.cols[i])
           U == UNION {F(i) : i \in DOMAIN v.cols}
<1>1. U \subseteq R <=> \A i \in DOMAIN v.cols : F(i) \subseteq R
  <2> HIDE DEF F
  <2> QED  OBVIOUS
<1>2. Required(v) = v.cfg \cup (IF v.mode = "name" THEN {"columnMapping"} ELSE {})
        \cup (IF v.cons # {} THEN {"checkConstraints"} ELSE {})
        \cup (IF v.clus # {} THEN {"clustering", "domainMetadata"} ELSE {}) \cup U
  BY DEF Required
<1>3. \A i \in DOMAIN v.cols : F(i) \subseteq R <=>
        type_features(v.cols[i].type) \subseteq R /\ column_features(v.cols[i]) \subseteq R
  OBVIOUS
<1> HIDE DEF U, F
<1> QED  BY <1>1, <1>2, <1>3

\* Another protocol and other files change neither what a version says nor what it needs.
LEMMA SaysTheSame ==
    ASSUME NEW v, NEW w, w.cols = v.cols, w.parts = v.parts, w.clus = v.clus, w.cons = v.cons,
           w.stats = v.stats, w.cfg = v.cfg, w.mode = v.mode
    PROVE  /\ Resolves(v) => Resolves(w)
           /\ Required(w) = Required(v)
BY DEF Resolves, Required, names, clustering_columns, ClusteringKeepsStats

\* A version changed under the same protocol, then given the features that the change needs.
LEMMA SoundWith ==
    ASSUME NEW v, Sound(v), NEW u, IsVersion(u), SameProtocol(v, u), Resolves(u), NEW S,
           Required(u) \subseteq Required(v) \cup S, NEW w, w = with_features(u, S)
    PROVE  Sound(w) /\ Upgrades(v, w)
<1>1. Upgrades(v, u) /\ u.reader \in Nat /\ u.writer \in Nat
  BY ProtocolKept DEF Sound, SameProtocol
<1>2. Upgrades(u, w) /\ S \subseteq effective_writer_features(w)
  BY <1>1, FeaturesListed
<1>3. SameTable(u, w)
  BY FeaturesOnly
<1>4. Resolves(w) /\ Required(w) = Required(u)
  BY <1>3, SaysTheSame DEF SameTable
<1>5. Upgrades(v, w)
  BY <1>1, <1>2, UpgradesOn
<1> QED  BY <1>2, <1>4, <1>5 DEF Sound, Upgrades

\* A version changed under the same protocol that needs no feature more.
LEMMA SoundStill ==
    ASSUME NEW v, Sound(v), NEW w, SameProtocol(v, w), Resolves(w),
           Required(w) \subseteq Required(v)
    PROVE  Sound(w) /\ Upgrades(v, w)
<1>1. effective_writer_features(w) = effective_writer_features(v)
  BY DEF SameProtocol, effective_writer_features
<1> QED  BY <1>1, ProtocolKept DEF Sound, SameProtocol

\* w is v, but for its columns.
SameAround(v, w) ==
    /\ SameProtocol(v, w) /\ w.parts = v.parts /\ w.clus = v.clus /\ w.cons = v.cons
    /\ w.stats = v.stats /\ w.cfg = v.cfg /\ w.mode = v.mode

\* Replacing the columns keeps the rest.
LEMMA OtherColumns ==
    ASSUME NEW v, IsVersion(v), NEW cols, NEW w, w = [v EXCEPT !.cols = cols]
    PROVE  IsVersion(w) /\ w.cols = cols /\ SameAround(v, w)
BY DEF IsVersion, SameAround, SameProtocol

\* A column that keeps its name, its Parquet name and its expression is referred to as before.
SamePlace(c, d) == d.name = c.name /\ d.phys = c.phys /\ d.gen = c.gen

\* Columns that keep their places resolve as before, and need what their new types do.
LEMMA PlacesSound ==
    ASSUME NEW v, Sound(v), NEW w, SameAround(v, w), DOMAIN w.cols = DOMAIN v.cols, NEW S,
           \A i \in DOMAIN v.cols :
              /\ SamePlace(v.cols[i], w.cols[i])
              /\ w.cols[i].hwm = NotIdentity <=> v.cols[i].hwm = NotIdentity
              /\ w.cols[i].type = v.cols[i].type \/ type_features(w.cols[i].type) \subseteq S
    PROVE  Resolves(w) /\ Required(w) \subseteq Required(v) \cup S
<1>1. names(w) = names(v)
  BY DEF names, SamePlace
<1>2. {w.cols[i].phys : i \in DOMAIN w.cols} = {v.cols[i].phys : i \in DOMAIN v.cols}
  BY DEF SamePlace
<1>3. ClusteringKeepsStats(w, w.stats)
  BY DEF Sound, Resolves, ClusteringKeepsStats, SameAround, SamePlace, clustering_columns
<1>4. \A i \in DOMAIN w.cols : w.cols[i].gen \in names(w) \cup {"none"}
  BY <1>1 DEF Sound, Resolves, SamePlace
<1>5. Resolves(w)
  BY <1>1, <1>2, <1>3, <1>4 DEF Sound, Resolves, SameAround, clustering_columns
<1> DEFINE R == Required(v) \cup S
<1>6. Required(v) \subseteq R
  OBVIOUS
<1>7. /\ v.cfg \subseteq R
      /\ v.mode = "name" => "columnMapping" \in R
      /\ v.cons # {} => "checkConstraints" \in R
      /\ v.clus # {} => "clustering" \in R /\ "domainMetadata" \in R
      /\ \A i \in DOMAIN v.cols :
            type_features(v.cols[i].type) \subseteq R /\ column_features(v.cols[i]) \subseteq R
  BY <1>6, RequiredParts
<1>8. \A i \in DOMAIN w.cols :
        type_features(w.cols[i].type) \subseteq R /\ column_features(w.cols[i]) \subseteq R
  <2> TAKE i \in DOMAIN w.cols
  <2>1. column_features(w.cols[i]) = column_features(v.cols[i])
    BY DEF column_features, SamePlace
  <2> QED  BY <1>7, <2>1
<1> HIDE DEF R
<1>9. Required(w) \subseteq R
  <2>1. w.cfg = v.cfg /\ w.mode = v.mode /\ w.cons = v.cons /\ w.clus = v.clus
    BY DEF SameAround
  <2> QED  BY <1>7, <1>8, <2>1, RequiredParts
<1> QED  BY <1>5, <1>9 DEF R

\* SET and DROP NOT NULL need nothing.
LEMMA NullabilitySound ==
    ASSUME NEW v, NEW at \in Nat, VersionOk(v, at), Sound(v), NEW o, o.name \in names(v),
           NEW w, w = set_nullability(v, o)
    PROVE  Sound(w) /\ Upgrades(v, w)
<1> DEFINE c == [Column(v, o.name) EXCEPT !.null = o.null]
           cols == [i \in DOMAIN v.cols |-> IF v.cols[i].name = o.name THEN c ELSE v.cols[i]]
<1>1. \A i \in DOMAIN v.cols : IsColumn(v.cols[i]) /\ (v.cols[i].name = o.name => Column(v, o.name) = v.cols[i])
  BY ZenonT(60), ColumnOf DEF VersionOk, ColumnsOk
<1>2. \A i \in DOMAIN v.cols :
        /\ SamePlace(v.cols[i], cols[i]) /\ cols[i].hwm = v.cols[i].hwm
        /\ cols[i].type = v.cols[i].type
  <2> TAKE i \in DOMAIN v.cols
  <2>1. cols[i] = IF v.cols[i].name = o.name THEN [v.cols[i] EXCEPT !.null = o.null] ELSE v.cols[i]
    BY <1>1
  <2> HIDE DEF cols
  <2> QED  BY <1>1, <2>1, ColumnEdits DEF SamePlace
<1>3. w = [v EXCEPT !.cols = cols] /\ DOMAIN cols = DOMAIN v.cols
  BY DEF set_nullability, WithColumn
<1> HIDE DEF cols
<1>4. IsVersion(w) /\ w.cols = cols /\ SameAround(v, w)
  BY <1>3, OtherColumns DEF VersionOk
<1>5. Resolves(w) /\ Required(w) \subseteq Required(v) \cup {}
  BY <1>2, <1>3, <1>4, PlacesSound
<1> QED  BY <1>4, <1>5, SoundStill DEF SameAround

\* ALTER COLUMN TYPE lists what the new type needs, and typeWidening.
LEMMA TypeSound ==
    ASSUME NEW v, NEW at \in Nat, VersionOk(v, at), Sound(v), NEW o, o.name \in names(v),
           NEW w, w = alter_column_type(v, o)
    PROVE  Sound(w) /\ Upgrades(v, w)
<1> DEFINE c == [Column(v, o.name) EXCEPT !.type = o.type]
           cols == [i \in DOMAIN v.cols |-> IF v.cols[i].name = o.name THEN c ELSE v.cols[i]]
           u == [v EXCEPT !.cols = cols]
           S == {"typeWidening"} \cup type_features(o.type)
<1>1. \A i \in DOMAIN v.cols : IsColumn(v.cols[i]) /\ (v.cols[i].name = o.name => Column(v, o.name) = v.cols[i])
  BY ZenonT(60), ColumnOf DEF VersionOk, ColumnsOk
<1>2. \A i \in DOMAIN v.cols :
        /\ SamePlace(v.cols[i], cols[i]) /\ cols[i].hwm = v.cols[i].hwm
        /\ cols[i].type = v.cols[i].type \/ cols[i].type = o.type
  <2> TAKE i \in DOMAIN v.cols
  <2>1. cols[i] = IF v.cols[i].name = o.name THEN [v.cols[i] EXCEPT !.type = o.type] ELSE v.cols[i]
    BY <1>1
  <2> HIDE DEF cols
  <2> QED  BY <1>1, <2>1, ColumnEdits DEF SamePlace
<1>3. w = with_features(u, S) /\ DOMAIN cols = DOMAIN v.cols
  BY DEF alter_column_type, WithColumn
<1> HIDE DEF cols
<1>4. IsVersion(u) /\ u.cols = cols /\ SameAround(v, u)
  BY OtherColumns DEF VersionOk
<1>5. type_features(o.type) \subseteq S
  OBVIOUS
<1> HIDE DEF u, S
<1>6. Resolves(u) /\ Required(u) \subseteq Required(v) \cup S
  BY <1>2, <1>3, <1>4, <1>5, PlacesSound
<1> QED  BY <1>3, <1>4, <1>6, SoundWith DEF SameAround

\* Reserving identity values needs nothing.
LEMMA ReserveSound ==
    ASSUME NEW v, NEW at \in Nat, VersionOk(v, at), Sound(v), NEW count \in Nat,
           NEW w, w = reserve_identity(v, count)
    PROVE  Sound(w) /\ Upgrades(v, w)
<1> DEFINE cols == [i \in DOMAIN v.cols |->
                IF i \in IdentityColumn(v) THEN [v.cols[i] EXCEPT !.hwm = @ + count] ELSE v.cols[i]]
<1>1. w = [v EXCEPT !.cols = cols] /\ DOMAIN cols = DOMAIN v.cols
  BY DEF reserve_identity
<1>2. \A i \in DOMAIN v.cols :
        /\ SamePlace(v.cols[i], cols[i]) /\ cols[i].type = v.cols[i].type
        /\ cols[i].hwm = NotIdentity <=> v.cols[i].hwm = NotIdentity
  <2> TAKE i \in DOMAIN v.cols
  <2>1. IsColumn(v.cols[i])
    BY DEF VersionOk, ColumnsOk
  <2>2. IF v.cols[i].hwm = NotIdentity THEN cols[i] = v.cols[i]
        ELSE cols[i] = [v.cols[i] EXCEPT !.hwm = v.cols[i].hwm + count]
    BY DEF IdentityColumn
  <2> HIDE DEF cols
  <2>3. CASE v.cols[i].hwm = NotIdentity
    BY <2>2, <2>3 DEF SamePlace
  <2>4. CASE v.cols[i].hwm # NotIdentity
    <3>1. v.cols[i].hwm + count \in Nat /\ v.cols[i].hwm + count # NotIdentity
      BY <2>1, <2>4 DEF IsColumn, NotIdentity
    <3> QED  BY <2>1, <2>2, <2>4, <3>1, ColumnEdits DEF SamePlace
  <2> QED  BY <2>3, <2>4
<1> HIDE DEF cols
<1>3. IsVersion(w) /\ w.cols = cols /\ SameAround(v, w)
  BY <1>1, OtherColumns DEF VersionOk
<1>4. Resolves(w) /\ Required(w) \subseteq Required(v) \cup {}
  BY <1>1, <1>2, <1>3, PlacesSound
<1> QED  BY <1>3, <1>4, SoundStill DEF SameAround

\* A column that nothing but a partition refers to may have another name.
LEMMA RenameSound ==
    ASSUME NEW v, NEW at \in Nat, VersionOk(v, at), Sound(v), NEW o, rename_column_allowed(v, o),
           NEW w, w = rename_column(v, o)
    PROVE  Sound(w) /\ Upgrades(v, w)
<1> DEFINE c == [Column(v, o.name) EXCEPT !.name = o.to]
           cols == [i \in DOMAIN v.cols |-> IF v.cols[i].name = o.name THEN c ELSE v.cols[i]]
           u == [v EXCEPT !.cols = cols]
           to(n) == IF n = o.name THEN o.to ELSE n
<1>1. \A i \in DOMAIN v.cols :
        IsColumn(v.cols[i]) /\ (v.cols[i].name = o.name => Column(v, o.name) = v.cols[i])
  BY ZenonT(60), ColumnOf DEF VersionOk, ColumnsOk
<1>2. \A i \in DOMAIN v.cols :
        /\ cols[i].name = to(v.cols[i].name) /\ cols[i].phys = v.cols[i].phys
        /\ cols[i].gen = v.cols[i].gen /\ cols[i].hwm = v.cols[i].hwm
        /\ cols[i].type = v.cols[i].type
  <2> TAKE i \in DOMAIN v.cols
  <2>1. cols[i] = IF v.cols[i].name = o.name THEN [v.cols[i] EXCEPT !.name = o.to] ELSE v.cols[i]
    BY <1>1
  <2> HIDE DEF cols
  <2> QED  BY <1>1, <2>1, ColumnEdits
<1>3. /\ w = [u EXCEPT !.parts = {IF p = o.name THEN o.to ELSE p : p \in u.parts}]
      /\ DOMAIN cols = DOMAIN v.cols
  BY DEF rename_column, WithColumn
<1> HIDE DEF cols, c
<1>4. IsVersion(u) /\ u.cols = cols /\ SameAround(v, u)
  BY OtherColumns DEF VersionOk
<1> HIDE DEF u
<1>5. /\ w.cols = cols /\ w.parts = {IF p = o.name THEN o.to ELSE p : p \in v.parts}
      /\ SameProtocol(v, w) /\ w.clus = v.clus /\ w.cons = v.cons /\ w.stats = v.stats
      /\ w.cfg = v.cfg /\ w.mode = v.mode
  BY <1>3, <1>4 DEF IsVersion, SameAround, SameProtocol
<1>6. /\ o.name \in names(v) /\ o.name \notin v.cons /\ o.name \notin v.stats
      /\ \A i \in DOMAIN v.cols : v.cols[i].gen # o.name
      /\ "changeDataFeed" \in v.cfg => o.to # Reserved
  <2>1. dependents(v, o.name) = {}
    BY DEF rename_column_allowed
  <2>2. \A i \in DOMAIN v.cols : v.cols[i].gen # o.name
    <3> SUFFICES ASSUME NEW i \in DOMAIN v.cols, v.cols[i].gen = o.name PROVE FALSE
      OBVIOUS
    <3>1. v.cols[i].name \in dependents(v, o.name)
      BY DEF dependents
    <3> QED  BY <2>1, <3>1
  <2> QED  BY <2>1, <2>2 DEF dependents, rename_column_allowed
<1>7. \A n \in names(v) : to(n) \in names(w)
  BY <1>2, <1>3, <1>5 DEF names
<1> HIDE DEF to
<1>8. w.parts \cup w.cons \cup w.stats \subseteq names(w)
  <2>1. v.parts \cup v.cons \cup v.stats \subseteq names(v)
    BY DEF Sound, Resolves
  <2>2. w.parts \subseteq names(w)
    BY <1>5, <1>7, <2>1 DEF to
  <2> QED  BY <1>5, <1>6, <1>7, <2>1, <2>2 DEF to
<1>9. \A i \in DOMAIN w.cols : w.cols[i].gen \in names(w) \cup {"none"}
  <2> TAKE i \in DOMAIN w.cols
  <2>1. v.cols[i].gen \in names(v) \cup {"none"} /\ v.cols[i].gen # o.name
    BY <1>3, <1>5, <1>6 DEF Sound, Resolves
  <2> QED  BY <1>2, <1>3, <1>5, <1>7, <2>1 DEF to
<1>10. clustering_columns(w) \subseteq {w.cols[i].phys : i \in DOMAIN w.cols}
  <2>1. {w.cols[i].phys : i \in DOMAIN w.cols} = {v.cols[i].phys : i \in DOMAIN v.cols}
    BY <1>2, <1>3, <1>5
  <2> QED  BY <1>5, <2>1 DEF Sound, Resolves, clustering_columns
<1>11. ClusteringKeepsStats(w, w.stats)
  <2> SUFFICES ASSUME NEW i \in DOMAIN w.cols, w.cols[i].phys \in clustering_columns(w)
               PROVE  has_stats(w.stats, w.cols[i].name)
    BY DEF ClusteringKeepsStats
  <2>1. has_stats(v.stats, v.cols[i].name)
    BY <1>2, <1>3, <1>5 DEF Sound, Resolves, ClusteringKeepsStats, clustering_columns
  <2> QED  BY <1>2, <1>3, <1>5, <1>6, <2>1 DEF has_stats, to
<1>12. "changeDataFeed" \in w.cfg => Reserved \notin names(w)
  <2> SUFFICES ASSUME "changeDataFeed" \in w.cfg, NEW i \in DOMAIN w.cols
               PROVE  w.cols[i].name # Reserved
    BY DEF names
  <2>1. v.cols[i].name # Reserved
    BY <1>3, <1>5 DEF Sound, Resolves, names
  <2> QED  BY SMTT(30), <1>2, <1>3, <1>5, <1>6, <2>1 DEF to
<1>13. Required(w) = Required(v)
  <2>1. \A i \in DOMAIN v.cols :
          /\ type_features(w.cols[i].type) = type_features(v.cols[i].type)
          /\ column_features(w.cols[i]) = column_features(v.cols[i])
    BY <1>2, <1>5 DEF column_features
  <2>2. DOMAIN w.cols = DOMAIN v.cols
    BY <1>3, <1>5
  <2>3. \A R : Required(w) \subseteq R <=> Required(v) \subseteq R
    BY <1>5, <2>1, <2>2, RequiredParts
  <2> QED  BY <2>3
<1> QED  BY <1>5, <1>8, <1>9, <1>10, <1>11, <1>12, <1>13, SoundStill DEF Resolves

\* A column that nothing refers to may go.
LEMMA DropSound ==
    ASSUME NEW v, NEW at \in Nat, VersionOk(v, at), Sound(v), NEW o, drop_column_allowed(v, o),
           NEW w, w = drop_column(v, o)
    PROVE  Sound(w) /\ Upgrades(v, w)
<1>1. o.name \in names(v) /\ o.name \notin v.parts
  BY DEF drop_column_allowed
<1>2. /\ \A j \in DOMAIN w.cols : \E i \in DOMAIN v.cols : w.cols[j] = v.cols[i]
      /\ \A i \in DOMAIN v.cols :
            v.cols[i].name # o.name => \E j \in DOMAIN w.cols : w.cols[j] = v.cols[i]
  BY <1>1, DropColumnOk
<1>3. SameAround(v, w)
  BY OtherColumns DEF drop_column, VersionOk
<1>4. /\ o.name \notin v.cons /\ o.name \notin v.stats
      /\ \A i \in DOMAIN v.cols : v.cols[i].gen # o.name
  <2>1. dependents(v, o.name) = {}
    BY DEF drop_column_allowed
  <2>2. \A i \in DOMAIN v.cols : v.cols[i].gen # o.name
    <3> SUFFICES ASSUME NEW i \in DOMAIN v.cols, v.cols[i].gen = o.name PROVE FALSE
      OBVIOUS
    <3>1. v.cols[i].name \in dependents(v, o.name)
      BY DEF dependents
    <3> QED  BY <2>1, <3>1
  <2> QED  BY <2>1, <2>2 DEF dependents
<1>5. \A n \in names(v) : n # o.name => n \in names(w)
  BY <1>2 DEF names
<1>6. w.parts \cup w.cons \cup w.stats \subseteq names(w)
  BY <1>1, <1>3, <1>4, <1>5 DEF Sound, Resolves, SameAround
<1>7. \A j \in DOMAIN w.cols : w.cols[j].gen \in names(w) \cup {"none"}
  BY <1>2, <1>4, <1>5 DEF Sound, Resolves
<1>8. clustering_columns(w) \subseteq {w.cols[i].phys : i \in DOMAIN w.cols}
  <2> SUFFICES ASSUME NEW p \in clustering_columns(v)
               PROVE  \E j \in DOMAIN w.cols : w.cols[j].phys = p
    BY <1>3 DEF SameAround, clustering_columns
  <2>1. PICK i \in DOMAIN v.cols : v.cols[i].phys = p
    BY DEF Sound, Resolves
  <2>2. v.cols[i].name # o.name
    BY <2>1, ColumnOf DEF drop_column_allowed
  <2> QED  BY <1>2, <2>1, <2>2
<1>9. ClusteringKeepsStats(w, w.stats)
  BY <1>2, <1>3 DEF Sound, Resolves, ClusteringKeepsStats, SameAround, clustering_columns
<1>10. "changeDataFeed" \in w.cfg => Reserved \notin names(w)
  BY <1>2, <1>3 DEF Sound, Resolves, SameAround, names
<1>11. Required(w) \subseteq Required(v)
  <2> DEFINE R == Required(v)
  <2>1. Required(v) \subseteq R
    OBVIOUS
  <2> HIDE DEF R
  <2>2. /\ v.cfg \subseteq R
        /\ v.mode = "name" => "columnMapping" \in R
        /\ v.cons # {} => "checkConstraints" \in R
        /\ v.clus # {} => "clustering" \in R /\ "domainMetadata" \in R
        /\ \A i \in DOMAIN v.cols :
              type_features(v.cols[i].type) \subseteq R /\ column_features(v.cols[i]) \subseteq R
    BY <2>1, RequiredParts
  <2>3. \A j \in DOMAIN w.cols :
          type_features(w.cols[j].type) \subseteq R /\ column_features(w.cols[j]) \subseteq R
    BY <1>2, <2>2
  <2>4. w.cfg = v.cfg /\ w.mode = v.mode /\ w.cons = v.cons /\ w.clus = v.clus
    BY <1>3 DEF SameAround
  <2>5. Required(w) \subseteq R
    BY <2>2, <2>3, <2>4, RequiredParts
  <2> QED  BY <2>5 DEF R
<1> QED  BY <1>3, <1>6, <1>7, <1>8, <1>9, <1>10, <1>11, SoundStill DEF SameAround, Resolves

\* A column more, whose name and Parquet name nobody refers to.
LEMMA AddSound ==
    ASSUME NEW v, NEW at \in Nat, VersionOk(v, at), Sound(v), NEW o, add_columns_allowed(v, o),
           NEW w, w = add_columns(v, o, at + 1)
    PROVE  Sound(w) /\ Upgrades(v, w)
<1> DEFINE c == NewColumn(v, o.name, o.type, at + 1)
           u == [v EXCEPT !.cols = Append(@, c), !.maxId = IF MappedColumns(v) THEN c.id ELSE @]
           S == type_features(o.type)
<1>1. /\ c.name = o.name /\ c.gen = "none" /\ c.hwm = NotIdentity /\ c.type = o.type
  BY DEF NewColumn
<1>2. w = with_features(u, S)
  BY DEF add_columns
<1> HIDE DEF c
<1>3. IsVersion(u) /\ u.cols = Append(v.cols, c) /\ SameAround(v, u)
  <2>1. ASSUME NEW id, NEW x, x = [v EXCEPT !.cols = Append(@, c), !.maxId = id]
        PROVE  IsVersion(x) /\ x.cols = Append(v.cols, c) /\ SameAround(v, x)
    BY <2>1 DEF VersionOk, IsVersion, SameAround, SameProtocol
  <2>2. u = [v EXCEPT !.cols = Append(@, c), !.maxId = IF MappedColumns(v) THEN c.id ELSE v.maxId]
    OBVIOUS
  <2> HIDE DEF u
  <2> QED  BY <2>1, <2>2
<1> HIDE DEF u
<1>4. VersionOk(w, at + 1) /\ w.cols = Append(v.cols, c)
  BY AddColumnsOk DEF add_columns_allowed, c
<1> DEFINE n == Len(v.cols) + 1
<1>5. PICK T : v.cols \in Seq(T)
  BY DEF VersionOk, ColumnsOk
<1>6. /\ DOMAIN u.cols = 1..n /\ DOMAIN v.cols = 1..Len(v.cols) /\ Len(v.cols) \in Nat
      /\ \A i \in DOMAIN v.cols : u.cols[i] = v.cols[i] /\ i \in DOMAIN u.cols /\ i # n
      /\ u.cols[n] = c /\ n \in DOMAIN u.cols
      /\ \A i \in DOMAIN u.cols : i \in DOMAIN v.cols \/ i = n
  BY <1>3, <1>5
<1> HIDE DEF n
<1>7. \A i \in DOMAIN v.cols : v.cols[i].phys # c.phys
  <2> TAKE i \in DOMAIN v.cols
  <2>1. /\ w.cols = u.cols /\ i \in DOMAIN w.cols /\ n \in DOMAIN w.cols /\ i # n
        /\ w.cols[i] = v.cols[i] /\ w.cols[n] = c
    BY <1>3, <1>4, <1>6
  <2>2. w.cols[i].phys # w.cols[n].phys
    BY <1>4, <2>1 DEF VersionOk, ColumnsOk
  <2> QED  BY <2>1, <2>2
<1>8. names(u) = names(v) \cup {o.name}
  BY <1>1, <1>6 DEF names
<1>9. u.parts \cup u.cons \cup u.stats \subseteq names(u)
  BY <1>3, <1>8 DEF Sound, Resolves, SameAround
<1>10. \A i \in DOMAIN u.cols : u.cols[i].gen \in names(u) \cup {"none"}
  BY <1>1, <1>6, <1>8 DEF Sound, Resolves
<1>11. clustering_columns(u) = clustering_columns(v)
  BY <1>3 DEF SameAround, clustering_columns
<1>12. clustering_columns(v) \subseteq {v.cols[i].phys : i \in DOMAIN v.cols}
  BY DEF Sound, Resolves
<1>13. clustering_columns(u) \subseteq {u.cols[i].phys : i \in DOMAIN u.cols}
  BY <1>6, <1>11, <1>12
<1>14. ClusteringKeepsStats(u, u.stats)
  <2> SUFFICES ASSUME NEW i \in DOMAIN u.cols, u.cols[i].phys \in clustering_columns(u)
               PROVE  has_stats(u.stats, u.cols[i].name)
    BY DEF ClusteringKeepsStats
  <2>1. i # n
    BY <1>6, <1>7, <1>11, <1>12
  <2>2. i \in DOMAIN v.cols /\ u.cols[i] = v.cols[i] /\ u.stats = v.stats
    BY <1>3, <1>6, <2>1 DEF SameAround
  <2> QED  BY <1>11, <2>2 DEF Sound, Resolves, ClusteringKeepsStats
<1>15. "changeDataFeed" \in u.cfg => Reserved \notin names(u)
  BY <1>3, <1>8 DEF Sound, Resolves, SameAround, add_columns_allowed
<1>16. Required(u) \subseteq Required(v) \cup S
  <2> DEFINE R == Required(v) \cup S
  <2>1. Required(v) \subseteq R /\ S \subseteq R
    OBVIOUS
  <2> HIDE DEF R
  <2>2. /\ v.cfg \subseteq R
        /\ v.mode = "name" => "columnMapping" \in R
        /\ v.cons # {} => "checkConstraints" \in R
        /\ v.clus # {} => "clustering" \in R /\ "domainMetadata" \in R
        /\ \A i \in DOMAIN v.cols :
              type_features(v.cols[i].type) \subseteq R /\ column_features(v.cols[i]) \subseteq R
    BY <2>1, RequiredParts
  <2>3. \A i \in DOMAIN u.cols :
          type_features(u.cols[i].type) \subseteq R /\ column_features(u.cols[i]) \subseteq R
    BY <1>1, <1>6, <2>1, <2>2 DEF column_features
  <2>4. u.cfg = v.cfg /\ u.mode = v.mode /\ u.cons = v.cons /\ u.clus = v.clus
    BY <1>3 DEF SameAround
  <2>5. Required(u) \subseteq R
    BY <2>2, <2>3, <2>4, RequiredParts
  <2> QED  BY <2>5 DEF R
<1>17. Resolves(u)
  BY <1>9, <1>10, <1>13, <1>14, <1>15 DEF Resolves
<1> HIDE DEF S
<1> QED  BY <1>2, <1>3, <1>16, <1>17, SoundWith DEF SameAround

\* The constraints, the clustering, the properties and the features, on the same columns.
LEMMA SameColumnsRequire ==
    ASSUME NEW v, NEW w, w.cols = v.cols, NEW S,
           w.cfg \subseteq v.cfg \cup S,
           w.mode = "name" => v.mode = "name" \/ "columnMapping" \in S,
           w.cons # {} => v.cons # {} \/ "checkConstraints" \in S,
           w.clus # {} => v.clus # {} \/ ("clustering" \in S /\ "domainMetadata" \in S)
    PROVE  Required(w) \subseteq Required(v) \cup S
<1> DEFINE R == Required(v) \cup S
<1>1. Required(v) \subseteq R /\ S \subseteq R
  OBVIOUS
<1> HIDE DEF R
<1>2. /\ v.cfg \subseteq R
      /\ v.mode = "name" => "columnMapping" \in R
      /\ v.cons # {} => "checkConstraints" \in R
      /\ v.clus # {} => "clustering" \in R /\ "domainMetadata" \in R
      /\ \A i \in DOMAIN v.cols :
            type_features(v.cols[i].type) \subseteq R /\ column_features(v.cols[i]) \subseteq R
  BY <1>1, RequiredParts
<1>3. /\ w.cfg \subseteq R
      /\ w.mode = "name" => "columnMapping" \in R
      /\ w.cons # {} => "checkConstraints" \in R
      /\ w.clus # {} => "clustering" \in R /\ "domainMetadata" \in R
  BY <1>1, <1>2
<1>4. Required(w) \subseteq R
  BY <1>2, <1>3, RequiredParts
<1> QED  BY <1>4 DEF R

\* A constraint names a column that is there, and lists checkConstraints or raises the version that
\* implies it.
LEMMA ConstraintSound ==
    ASSUME NEW v, NEW at, VersionOk(v, at), Sound(v), NEW o, o.name \in names(v),
           NEW w, w = add_constraints(v, o)
    PROVE  Sound(w) /\ Upgrades(v, w)
<1> DEFINE u == [v EXCEPT !.cons = @ \cup {o.name}]
           S == {"checkConstraints"}
<1>1. /\ IsVersion(u) /\ SameProtocol(v, u) /\ u.cols = v.cols /\ u.parts = v.parts
      /\ u.clus = v.clus /\ u.stats = v.stats /\ u.cfg = v.cfg /\ u.mode = v.mode
      /\ u.cons = v.cons \cup {o.name}
  <2>1. ASSUME NEW cons, NEW x, x = [v EXCEPT !.cons = cons]
        PROVE  /\ IsVersion(x) /\ SameProtocol(v, x) /\ x.cols = v.cols /\ x.parts = v.parts
               /\ x.clus = v.clus /\ x.stats = v.stats /\ x.cfg = v.cfg /\ x.mode = v.mode
               /\ x.cons = cons
    BY <2>1 DEF VersionOk, IsVersion, SameProtocol
  <2>2. u = [v EXCEPT !.cons = v.cons \cup {o.name}]
    OBVIOUS
  <2> HIDE DEF u
  <2> QED  BY <2>1, <2>2
<1>2. w = CASE v.writer >= 7 -> with_features(u, S)
            [] v.writer < 3 -> [u EXCEPT !.writer = 3]
            [] OTHER -> u
  BY DEF add_constraints
<1> HIDE DEF u
<1>3. Resolves(u)
  BY <1>1 DEF Sound, Resolves, names, clustering_columns, ClusteringKeepsStats
<1>4. Required(u) \subseteq Required(v) \cup S
  BY <1>1, SameColumnsRequire
<1>5. v.reader \in Nat /\ v.writer \in Nat /\ u.writer = v.writer /\ u.reader = v.reader
  BY <1>1 DEF Sound, SameProtocol
<1>6. CASE v.writer >= 7
  <2>1. w = with_features(u, S)
    BY <1>2, <1>5, <1>6
  <2> HIDE DEF S
  <2> QED  BY <1>1, <1>3, <1>4, <2>1, SoundWith
<1>7. ASSUME NEW x, x = u \/ x = [u EXCEPT !.writer = 3], x.writer \in 3..6, v.writer < 7,
             x.writer = v.writer \/ (v.writer < 3 /\ x.writer = 3)
      PROVE  Sound(x) /\ Upgrades(v, x)
  <2>1. /\ x.reader = v.reader /\ x.rf = v.rf /\ x.wf = v.wf /\ x.cols = u.cols
        /\ x.parts = u.parts /\ x.clus = u.clus /\ x.stats = u.stats /\ x.cfg = u.cfg
        /\ x.mode = u.mode /\ x.cons = u.cons
    <3>1. CASE x = u
      BY <1>1, <3>1 DEF SameProtocol
    <3>2. CASE x = [u EXCEPT !.writer = 3]
      BY <1>1, <3>2 DEF IsVersion, SameProtocol
    <3> QED  BY <1>7, <3>1, <3>2
  <2>2. /\ effective_reader_features(x) = effective_reader_features(v)
        /\ effective_writer_features(x) = v.wf \cup LEGACY_WRITER_FEATURES(x.writer)
        /\ effective_writer_features(v) = v.wf \cup LEGACY_WRITER_FEATURES(v.writer)
    BY <1>5, <1>7, <2>1 DEF effective_reader_features, effective_writer_features, ImpliedWriter
  <2>3. /\ LEGACY_WRITER_FEATURES(v.writer) \subseteq LEGACY_WRITER_FEATURES(x.writer)
        /\ "checkConstraints" \in LEGACY_WRITER_FEATURES(x.writer)
        /\ \/ LEGACY_WRITER_FEATURES(x.writer) = LEGACY_WRITER_FEATURES(v.writer)
           \/ LEGACY_WRITER_FEATURES(x.writer) \cap ReaderWriterFeature = {}
    <3>1. "checkConstraints" \in LEGACY_WRITER_FEATURES(x.writer)
      BY <1>7 DEF LEGACY_WRITER_FEATURES
    <3>2. CASE x.writer = v.writer
      BY <3>1, <3>2
    <3>3. CASE v.writer < 3 /\ x.writer = 3
      <4>1. LEGACY_WRITER_FEATURES(3) = {"appendOnly", "invariants", "checkConstraints"}
        BY DEF LEGACY_WRITER_FEATURES
      <4>2. LEGACY_WRITER_FEATURES(v.writer) \subseteq {"appendOnly", "invariants"}
        BY <1>5, <3>3 DEF LEGACY_WRITER_FEATURES
      <4> QED  BY <3>1, <3>3, <4>1, <4>2 DEF ReaderWriterFeature
    <3> QED  BY <1>7, <3>2, <3>3
  <2>4. Upgrades(v, x)
    BY <1>5, <1>7, <2>1, <2>2, <2>3 DEF Upgrades, Unread, Binding
  <2>5. Resolves(x) /\ Required(x) = Required(u)
    BY <1>3, <2>1, SaysTheSame
  <2> QED  BY <1>4, <1>5, <1>7, <2>1, <2>2, <2>3, <2>4, <2>5 DEF Sound
<1>8. CASE v.writer < 3
  <2>1. w = [u EXCEPT !.writer = 3]
    BY <1>2, <1>5, <1>8
  <2>2. w.writer = 3
    BY <1>1, <2>1 DEF IsVersion
  <2>3. w.writer \in 3..6 /\ v.writer < 7
    BY <1>5, <1>8, <2>2
  <2> HIDE DEF S
  <2> QED  BY <1>7, <1>8, <2>1, <2>2, <2>3
<1>9. CASE v.writer \in 3..6
  <2>1. w = u
    BY <1>2, <1>5, <1>9
  <2> QED  BY <1>5, <1>7, <1>9, <2>1
<1> QED  BY <1>5, <1>6, <1>8, <1>9

\* Dropping a constraint needs nothing.
LEMMA DropConstraintSound ==
    ASSUME NEW v, NEW at, VersionOk(v, at), Sound(v), NEW o, NEW w, w = drop_constraint(v, o)
    PROVE  Sound(w) /\ Upgrades(v, w)
<1>1. /\ SameProtocol(v, w) /\ w.cols = v.cols /\ w.parts = v.parts /\ w.clus = v.clus
      /\ w.stats = v.stats /\ w.cfg = v.cfg /\ w.mode = v.mode /\ w.cons = v.cons \ {o.name}
  BY DEF VersionOk, IsVersion, SameProtocol, drop_constraint
<1>2. Resolves(w)
  BY <1>1 DEF Sound, Resolves, names, clustering_columns, ClusteringKeepsStats
<1>3. Required(w) \subseteq Required(v) \cup {}
  BY <1>1, SameColumnsRequire
<1> QED  BY <1>1, <1>2, <1>3, SoundStill

\* Clustering is by columns that are there and have statistics, and lists its two features.
LEMMA ClusterSound ==
    ASSUME NEW v, NEW at, VersionOk(v, at), Sound(v), NEW o, cluster_by_allowed(v, o),
           NEW w, w = cluster_by(v, o)
    PROVE  Sound(w) /\ Upgrades(v, w)
<1> DEFINE u == [v EXCEPT !.clus = {PhysicalKeys(v, o)}]
           S == {"clustering", "domainMetadata"}
<1>1. CASE w = v
  BY <1>1, SoundStill DEF Sound, SameProtocol
<1>2. w # v => w = with_features(u, S)
  BY DEF cluster_by
<1>3. /\ IsVersion(u) /\ SameProtocol(v, u) /\ u.cols = v.cols /\ u.parts = v.parts
      /\ u.clus = {PhysicalKeys(v, o)} /\ u.stats = v.stats /\ u.cfg = v.cfg
      /\ u.mode = v.mode /\ u.cons = v.cons
  BY DEF VersionOk, IsVersion, SameProtocol
<1> HIDE DEF u
<1>4. clustering_columns(u) = PhysicalKeys(v, o)
  BY <1>3 DEF clustering_columns
<1>5. \A n \in o.keys : \E i \in DOMAIN v.cols : v.cols[i].name = n /\ Column(v, n) = v.cols[i]
  BY ColumnFound DEF cluster_by_allowed
<1>6. ClusteringKeepsStats(u, u.stats)
  <2> SUFFICES ASSUME NEW i \in DOMAIN v.cols, v.cols[i].phys \in PhysicalKeys(v, o)
               PROVE  has_stats(v.stats, v.cols[i].name)
    BY <1>3, <1>4 DEF ClusteringKeepsStats
  <2>1. PICK n \in o.keys : Column(v, n).phys = v.cols[i].phys
    BY DEF PhysicalKeys
  <2>2. PICK j \in DOMAIN v.cols : v.cols[j].name = n /\ Column(v, n) = v.cols[j]
    BY <1>5
  <2>3. j = i
    BY <2>1, <2>2 DEF VersionOk, ColumnsOk
  <2> QED  BY <2>2, <2>3 DEF cluster_by_allowed
<1>7. clustering_columns(u) \subseteq {u.cols[i].phys : i \in DOMAIN u.cols}
  BY <1>3, <1>4, <1>5 DEF PhysicalKeys
<1>8. Resolves(u)
  BY <1>3, <1>6, <1>7 DEF Sound, Resolves, names
<1>9. Required(u) \subseteq Required(v) \cup S
  BY <1>3, SameColumnsRequire
<1> HIDE DEF S
<1> QED  BY <1>1, <1>2, <1>3, <1>8, <1>9, SoundWith

\* Column mapping numbers the columns.
LEMMA MappingSound ==
    ASSUME NEW v, NEW at \in Nat, VersionOk(v, at), Sound(v), NEW w, w = enable_column_mapping(v)
    PROVE  /\ Sound(w) /\ Upgrades(v, w) /\ IsVersion(w) /\ DOMAIN w.cols = DOMAIN v.cols
           /\ \A i \in DOMAIN v.cols : SamePlace(v.cols[i], w.cols[i])
           /\ w.clus = v.clus /\ w.stats = v.stats /\ w.cfg = v.cfg
<1>1. CASE v.mode = "name"
  <2>1. w = v
    BY <1>1 DEF enable_column_mapping
  <2> QED  BY <2>1, SoundStill DEF Sound, SameProtocol, VersionOk, SamePlace
<1>2. CASE v.mode # "name"
  <2> DEFINE cols == [i \in DOMAIN v.cols |-> [v.cols[i] EXCEPT !.id = i]]
             u == [v EXCEPT !.mode = "name", !.maxId = Len(v.cols), !.cols = cols]
             S == {"columnMapping"}
  <2>1. w = with_features(u, S)
    BY <1>2 DEF enable_column_mapping
  <2>2. \A i \in DOMAIN v.cols :
          /\ SamePlace(v.cols[i], cols[i]) /\ cols[i].hwm = v.cols[i].hwm
          /\ cols[i].type = v.cols[i].type
    <3> TAKE i \in DOMAIN v.cols
    <3>1. IsColumn(v.cols[i]) /\ cols[i] = [v.cols[i] EXCEPT !.id = i]
      BY DEF VersionOk, ColumnsOk
    <3> HIDE DEF cols
    <3> QED  BY <3>1 DEF IsColumn, SamePlace
  <2>3. DOMAIN cols = DOMAIN v.cols
    OBVIOUS
  <2> HIDE DEF cols
  <2>4. /\ IsVersion(u) /\ SameProtocol(v, u) /\ u.cols = cols /\ u.parts = v.parts
        /\ u.clus = v.clus /\ u.stats = v.stats /\ u.cfg = v.cfg /\ u.cons = v.cons
        /\ u.mode = "name"
    <3>1. ASSUME NEW n, NEW x, x = [v EXCEPT !.mode = "name", !.maxId = n, !.cols = cols]
          PROVE  /\ IsVersion(x) /\ SameProtocol(v, x) /\ x.cols = cols /\ x.parts = v.parts
                 /\ x.clus = v.clus /\ x.stats = v.stats /\ x.cfg = v.cfg /\ x.cons = v.cons
                 /\ x.mode = "name"
      BY <3>1 DEF VersionOk, IsVersion, SameProtocol
    <3> QED  BY <3>1
  <2> HIDE DEF u
  <2>5. ASSUME NEW x, x = [v EXCEPT !.cols = cols]
        PROVE  Resolves(x) /\ Required(x) \subseteq Required(v) \cup S
    <3>1. x.cols = cols /\ SameAround(v, x)
      BY <2>5, OtherColumns DEF VersionOk
    <3>2. DOMAIN x.cols = DOMAIN v.cols
      BY <2>3, <3>1
    <3>3. \A i \in DOMAIN v.cols :
            /\ SamePlace(v.cols[i], x.cols[i])
            /\ x.cols[i].hwm = NotIdentity <=> v.cols[i].hwm = NotIdentity
            /\ x.cols[i].type = v.cols[i].type \/ type_features(x.cols[i].type) \subseteq S
      BY <2>2, <3>1
    <3> HIDE DEF S
    <3> QED  BY <3>1, <3>2, <3>3, PlacesSound
  <2>6. Resolves(u) /\ Required(u) \subseteq Required(v) \cup S
    <3> DEFINE x == [v EXCEPT !.cols = cols]
               R == Required(v) \cup S
    <3>1. Resolves(x) /\ Required(x) \subseteq Required(v) \cup S /\ x.cols = cols /\ SameAround(v, x)
      BY <2>5, OtherColumns DEF VersionOk
    <3> HIDE DEF x
    <3>2. Resolves(u)
      BY <2>4, <3>1 DEF Resolves, SameAround, names, clustering_columns, ClusteringKeepsStats
    <3>3. Required(u) \subseteq Required(x) \cup S
      BY <2>4, <3>1, SameColumnsRequire DEF SameAround
    <3> QED  BY <3>1, <3>2, <3>3
  <2>7. IsVersion(w) /\ SameTable(u, w)
    BY <2>1, <2>4, FeaturesOnly
  <2> HIDE DEF S
  <2> QED  BY <2>1, <2>2, <2>3, <2>4, <2>6, <2>7, SoundWith DEF SameTable
<1> QED  BY <1>1, <1>2

\* What set_properties turns on has its feature, and what it names is there.
LEMMA PropertiesSound ==
    ASSUME NEW v, NEW at \in Nat, VersionOk(v, at), Sound(v), NEW o, set_properties_allowed(v, o),
           NEW w, w = set_properties(v, o)
    PROVE  Sound(w) /\ Upgrades(v, w)
<1> DEFINE mapped == IF "columnMapping" \in o.on THEN enable_column_mapping(v) ELSE v
           u == [mapped EXCEPT !.cfg = @ \cup (o.on \ {"columnMapping"}),
                               !.stats = IF o.stats = {} THEN @ ELSE o.stats]
           S == o.on \cap Enabling
           stats == IF o.stats = {} THEN v.stats ELSE o.stats
<1>1. w = with_features(u, S)
  BY DEF set_properties
<1>2. /\ Sound(mapped) /\ Upgrades(v, mapped) /\ IsVersion(mapped)
      /\ DOMAIN mapped.cols = DOMAIN v.cols
      /\ \A i \in DOMAIN v.cols : SamePlace(v.cols[i], mapped.cols[i])
      /\ mapped.clus = v.clus /\ mapped.stats = v.stats /\ mapped.cfg = v.cfg
  <2>1. CASE "columnMapping" \in o.on
    BY <2>1, MappingSound
  <2>2. CASE "columnMapping" \notin o.on
    BY <2>2, SoundStill DEF Sound, SameProtocol, VersionOk, SamePlace
  <2> QED  BY <2>1, <2>2
<1> HIDE DEF mapped
<1>3. /\ IsVersion(u) /\ SameProtocol(mapped, u) /\ u.cols = mapped.cols
      /\ u.parts = mapped.parts /\ u.clus = mapped.clus /\ u.cons = mapped.cons
      /\ u.mode = mapped.mode /\ u.cfg = v.cfg \cup (o.on \ {"columnMapping"}) /\ u.stats = stats
  <2> DEFINE cfg == mapped.cfg \cup (o.on \ {"columnMapping"})
             st == IF o.stats = {} THEN mapped.stats ELSE o.stats
  <2>1. mapped.cfg = v.cfg /\ mapped.stats = v.stats
    BY <1>2
  <2>2. cfg = v.cfg \cup (o.on \ {"columnMapping"}) /\ st = stats
    BY <2>1
  <2>3. u = [mapped EXCEPT !.cfg = cfg, !.stats = st]
    OBVIOUS
  <2> HIDE DEF u, cfg, st, stats
  <2>4. /\ IsVersion(u) /\ SameProtocol(mapped, u) /\ u.cols = mapped.cols
        /\ u.parts = mapped.parts /\ u.clus = mapped.clus /\ u.cons = mapped.cons
        /\ u.mode = mapped.mode /\ u.cfg = cfg /\ u.stats = st
    BY <1>2, <2>3 DEF IsVersion, SameProtocol
  <2> QED  BY <2>2, <2>4
<1> HIDE DEF u
<1>4. names(u) = names(v) /\ names(mapped) = names(v)
  BY <1>2, <1>3 DEF names, SamePlace
<1>5. ClusteringKeepsStats(u, u.stats)
  <2>1. ClusteringKeepsStats(v, stats)
    BY DEF set_properties_allowed
  <2> HIDE DEF stats
  <2> QED  BY <1>2, <1>3, <2>1 DEF ClusteringKeepsStats, clustering_columns, SamePlace
<1>6. u.parts \cup u.cons \cup u.stats \subseteq names(u)
  BY <1>2, <1>3, <1>4 DEF Sound, Resolves, set_properties_allowed
<1>7. \A i \in DOMAIN u.cols : u.cols[i].gen \in names(u) \cup {"none"}
  BY <1>2, <1>3, <1>4 DEF Sound, Resolves
<1>8. clustering_columns(u) \subseteq {u.cols[i].phys : i \in DOMAIN u.cols}
  BY <1>2, <1>3 DEF Sound, Resolves, clustering_columns
<1>9. "changeDataFeed" \in u.cfg => Reserved \notin names(u)
  BY <1>3, <1>4 DEF Sound, Resolves, set_properties_allowed
<1>10. Resolves(u)
  BY <1>5, <1>6, <1>7, <1>8, <1>9 DEF Resolves
<1>11. Required(u) \subseteq Required(mapped) \cup S
  <2>1. o.on \ {"columnMapping"} \subseteq S
    BY DEF set_properties_allowed
  <2> HIDE DEF S
  <2> QED  BY <1>2, <1>3, <2>1, SameColumnsRequire
<1> HIDE DEF S
<1>12. Sound(w) /\ Upgrades(mapped, w)
  BY <1>1, <1>2, <1>3, <1>10, <1>11, SoundWith
<1> QED  BY <1>2, <1>12, UpgradesOn

\* UNSET takes no property away that a column needs.
LEMMA UnsetSound ==
    ASSUME NEW v, NEW at, VersionOk(v, at), Sound(v), NEW o, unset_properties_allowed(v, o),
           NEW w, w = unset_properties(v, o)
    PROVE  Sound(w) /\ Upgrades(v, w)
<1> DEFINE stats == IF "stats" \in o.off THEN {} ELSE v.stats
<1>1. /\ SameProtocol(v, w) /\ w.cols = v.cols /\ w.parts = v.parts /\ w.clus = v.clus
      /\ w.stats = stats /\ w.cfg = v.cfg \ o.off /\ w.mode = v.mode /\ w.cons = v.cons
  BY DEF VersionOk, IsVersion, SameProtocol, unset_properties
<1>2. ClusteringKeepsStats(w, w.stats)
  BY <1>1 DEF unset_properties_allowed, ClusteringKeepsStats, clustering_columns
<1>3. Resolves(w)
  BY <1>1, <1>2 DEF Sound, Resolves, names, clustering_columns
<1>4. Required(w) \subseteq Required(v) \cup {}
  BY <1>1, SameColumnsRequire
<1> QED  BY <1>1, <1>3, <1>4, SoundStill

\* Adding a feature lists it.
LEMMA FeatureSound ==
    ASSUME NEW v, NEW at, VersionOk(v, at), Sound(v), NEW o, NEW w, w = add_feature(v, o)
    PROVE  Sound(w) /\ Upgrades(v, w)
<1> DEFINE S == {o.feature}
<1>1. w = with_features(v, S)
  BY DEF add_feature
<1> HIDE DEF S
<1>2. SameProtocol(v, v) /\ IsVersion(v) /\ Resolves(v) /\ Required(v) \subseteq Required(v) \cup S
  BY DEF SameProtocol, VersionOk, Sound
<1> QED  BY <1>1, <1>2, SoundWith

\* A restored version says what the past one did, under the protocol of now, which lists whatever
\* that one listed.
LEMMA RestoredSound ==
    ASSUME NEW v, Sound(v), NEW past, IsVersion(past), Sound(past),
           effective_writer_features(past) \subseteq effective_writer_features(v),
           NEW w, w = restored(v, past)
    PROVE  Sound(w) /\ Upgrades(v, w)
<1> DEFINE cfg == (past.cfg \ {"inCommitTimestamp"}) \cup (v.cfg \cap {"inCommitTimestamp"})
<1>1. /\ SameProtocol(v, w) /\ w.cols = past.cols /\ w.parts = past.parts /\ w.clus = past.clus
      /\ w.stats = past.stats /\ w.cfg = cfg /\ w.mode = past.mode /\ w.cons = past.cons
  BY DEF IsVersion, SameProtocol, restored
<1>2. Resolves(w)
  BY <1>1 DEF Sound, Resolves, names, clustering_columns, ClusteringKeepsStats
<1>3. v.cfg \subseteq Required(v)
  BY DEF Required
<1>4. Required(w) \subseteq Required(past) \cup v.cfg
  <2> DEFINE S == v.cfg
  <2>1. cfg \subseteq past.cfg \cup S
    OBVIOUS
  <2> HIDE DEF S, cfg
  <2>2. Required(w) \subseteq Required(past) \cup S
    BY <1>1, <2>1, SameColumnsRequire
  <2> QED  BY <2>2 DEF S
<1>5. effective_writer_features(w) = effective_writer_features(v)
  BY <1>1 DEF SameProtocol, effective_writer_features
<1> QED  BY <1>1, <1>2, <1>3, <1>4, <1>5, ProtocolKept DEF Sound, SameProtocol

\* merge_schema widens columns where the features of their new types are listed.
LEMMA MergeSound ==
    ASSUME NEW v, NEW at \in Nat, VersionOk(v, at), Sound(v), NEW o, merge_schema_allowed(v, o),
           \A f, g \in o.batch : f.name = g.name => f = g, NEW w, w = merge_schema(v, o, at + 1)
    PROVE  Sound(w) /\ Upgrades(v, w)
<1> DEFINE type(i) == (CHOOSE f \in o.batch : f.name = v.cols[i].name).type
           cols == [i \in DOMAIN v.cols |-> IF \E f \in Widened(v, o) : f.name = v.cols[i].name
                                            THEN [v.cols[i] EXCEPT !.type = type(i)] ELSE v.cols[i]]
           u == [v EXCEPT !.cols = cols]
           new == {f \in o.batch : f.name \notin names(v)}
           S == (IF Widened(v, o) = {} THEN {} ELSE {"typeWidening"})
                    \cup UNION {type_features(f.type) : f \in Widened(v, o)}
           evolved == with_features(u, S)
<1>1. w = IF new = {} THEN evolved ELSE add_columns(evolved, CHOOSE f \in new : TRUE, at + 1)
  BY DEF merge_schema
<1>2. \A i \in DOMAIN v.cols :
        /\ SamePlace(v.cols[i], cols[i]) /\ cols[i].hwm = v.cols[i].hwm
        /\ cols[i].type = v.cols[i].type \/ type_features(cols[i].type) \subseteq S
  <2> TAKE i \in DOMAIN v.cols
  <2>1. IsColumn(v.cols[i])
    BY DEF VersionOk, ColumnsOk
  <2>2. \/ cols[i] = v.cols[i]
        \/ /\ \E f \in Widened(v, o) : f.name = v.cols[i].name
           /\ cols[i] = [v.cols[i] EXCEPT !.type = type(i)]
    OBVIOUS
  <2>3. ASSUME NEW f \in Widened(v, o), f.name = v.cols[i].name
        PROVE  type_features(type(i)) \subseteq S
    <3>1. f \in o.batch
      BY DEF Widened
    <3>2. (CHOOSE g \in o.batch : g.name = v.cols[i].name) = f
      BY <2>3, <3>1
    <3> QED  BY <3>2
  <2> HIDE DEF cols, type, S
  <2> QED  BY <2>1, <2>2, <2>3, ColumnEdits DEF SamePlace
<1>3. DOMAIN cols = DOMAIN v.cols
  OBVIOUS
<1> HIDE DEF cols, S
<1>4. IsVersion(u) /\ u.cols = cols /\ SameAround(v, u)
  BY OtherColumns DEF VersionOk
<1> HIDE DEF u
<1>5. Resolves(u) /\ Required(u) \subseteq Required(v) \cup S
  BY <1>2, <1>3, <1>4, PlacesSound
<1>6. Sound(evolved) /\ Upgrades(v, evolved) /\ SameTable(u, evolved)
  BY <1>4, <1>5, SoundWith, FeaturesOnly DEF SameAround
<1>7. VersionOk(evolved, at)
  BY ZenonT(60), MergeColumnsOk DEF MergedColumns, evolved, u, cols, S
<1> HIDE DEF evolved
<1>8. CASE new = {}
  BY <1>1, <1>6, <1>8
<1>9. CASE new # {}
  <2> DEFINE f == CHOOSE g \in new : TRUE
  <2>1. f.name \notin names(v) /\ f.name \in BatchNames(o)
    <3>1. f \in new
      BY <1>9
    <3> QED  BY <3>1 DEF BatchNames
  <2>2. w = add_columns(evolved, f, at + 1)
    BY <1>1, <1>9
  <2> HIDE DEF f, new
  <2>3. names(evolved) = names(v) /\ evolved.cfg = v.cfg
    BY <1>2, <1>3, <1>4, <1>6 DEF SameTable, SameAround, SamePlace, names
  <2>4. add_columns_allowed(evolved, f)
    BY <2>1, <2>3 DEF add_columns_allowed, merge_schema_allowed
  <2>5. Sound(w) /\ Upgrades(evolved, w)
    BY <1>6, <1>7, <2>2, <2>4, AddSound
  <2> QED  BY <1>6, <2>5, UpgradesOn
<1> QED  BY <1>8, <1>9

\* An append needs what its merge of schemas does.
LEMMA AppendSound ==
    ASSUME NEW v, NEW at \in Nat, VersionOk(v, at), Sound(v), NEW o, append_allowed(v, o),
           \A f, g \in o.batch : f.name = g.name => f = g, NEW w, w = append(v, o, at + 1)
    PROVE  Sound(w) /\ Upgrades(v, w)
<1> DEFINE evolved == IF o.merge THEN merge_schema(v, o, at + 1) ELSE v
           u == IF generates_identity(v, o) = {} THEN evolved ELSE reserve_identity(evolved, 1)
<1>1. w = [u EXCEPT !.files = @ \cup {NewFile(u, o)}]
  BY DEF append
<1>2. IsVersion(u) /\ Sound(u) /\ Upgrades(v, u)
  <2>1. CASE o.merge
    <3>1. u = merge_schema(v, o, at + 1) /\ merge_schema_allowed(v, o)
      BY <2>1 DEF append_allowed
    <3> HIDE DEF u
    <3> QED  BY <3>1, MergeSound, MergeSchemaOk DEF VersionOk
  <2>2. CASE ~o.merge /\ generates_identity(v, o) = {}
    <3>1. u = v
      BY <2>2
    <3> HIDE DEF u
    <3> QED  BY <3>1, SoundStill DEF Sound, SameProtocol, VersionOk
  <2>3. CASE ~o.merge /\ generates_identity(v, o) # {}
    <3>1. u = reserve_identity(v, 1)
      BY <2>3
    <3> HIDE DEF u
    <3> QED  BY <3>1, ReserveSound, ReserveOk DEF VersionOk
  <2> QED  BY <2>1, <2>2, <2>3
<1> HIDE DEF u
<1>3. /\ SameProtocol(u, w) /\ w.cols = u.cols /\ w.parts = u.parts /\ w.clus = u.clus
      /\ w.cons = u.cons /\ w.stats = u.stats /\ w.cfg = u.cfg /\ w.mode = u.mode
  BY <1>1, <1>2 DEF IsVersion, SameProtocol
<1>4. Resolves(w) /\ Required(w) = Required(u)
  BY <1>2, <1>3, SaysTheSame DEF Sound
<1>5. Sound(w) /\ Upgrades(u, w)
  BY <1>2, <1>3, <1>4, SoundStill
<1> QED  BY <1>2, <1>5, UpgradesOn

\* What every change makes of a version.
LEMMA MutateSound ==
    ASSUME NEW v, NEW at \in Nat, VersionOk(v, at), Sound(v), NEW o \in Ops, Allowed(v, o),
           o.kind = "restore" =>
              /\ IsVersion(log[o.target + 1]) /\ Sound(log[o.target + 1])
              /\ effective_writer_features(log[o.target + 1]) \subseteq effective_writer_features(v),
           NEW w, w = Mutate(v, o, at + 1)
    PROVE  Sound(w) /\ Upgrades(v, w)
<1>1. CASE o.kind = "add_column"
  <2>1. add_columns_allowed(v, o) /\ w = add_columns(v, o, at + 1)
    BY <1>1 DEF Allowed, Mutate
  <2> QED  BY <2>1, AddSound
<1>2. CASE o.kind = "drop_column"
  <2>1. drop_column_allowed(v, o) /\ w = drop_column(v, o)
    BY <1>2 DEF Allowed, Mutate
  <2> QED  BY <2>1, DropSound
<1>3. CASE o.kind = "rename_column"
  <2>1. rename_column_allowed(v, o) /\ w = rename_column(v, o)
    BY <1>3 DEF Allowed, Mutate
  <2> QED  BY <2>1, RenameSound
<1>4. CASE o.kind = "set_nullability"
  <2>1. o.name \in names(v) /\ w = set_nullability(v, o)
    BY <1>4 DEF Allowed, Mutate, set_nullability_allowed
  <2> QED  BY <2>1, NullabilitySound
<1>5. CASE o.kind = "alter_column_type"
  <2>1. o.name \in names(v) /\ w = alter_column_type(v, o)
    BY <1>5 DEF Allowed, Mutate, alter_column_type_allowed
  <2> QED  BY <2>1, TypeSound
<1>6. CASE o.kind = "add_constraint"
  <2>1. o.name \in names(v) /\ w = add_constraints(v, o)
    BY <1>6 DEF Allowed, Mutate, add_constraints_allowed
  <2> QED  BY <2>1, ConstraintSound
<1>7. CASE o.kind = "drop_constraint"
  <2>1. w = drop_constraint(v, o)
    BY <1>7 DEF Mutate
  <2> QED  BY <2>1, DropConstraintSound
<1>8. CASE o.kind = "cluster_by"
  <2>1. cluster_by_allowed(v, o) /\ w = cluster_by(v, o)
    BY <1>8 DEF Allowed, Mutate
  <2> QED  BY <2>1, ClusterSound
<1>9. CASE o.kind = "set_properties"
  <2>1. set_properties_allowed(v, o) /\ w = set_properties(v, o)
    BY <1>9 DEF Allowed, Mutate
  <2> QED  BY <2>1, PropertiesSound
<1>10. CASE o.kind = "add_feature"
  <2>1. w = add_feature(v, o)
    BY <1>10 DEF Mutate
  <2> QED  BY <2>1, FeatureSound
<1>11. CASE o.kind = "unset_properties"
  <2>1. unset_properties_allowed(v, o) /\ w = unset_properties(v, o)
    BY <1>11 DEF Allowed, Mutate
  <2> QED  BY <2>1, UnsetSound
<1>12. CASE o.kind = "reserve"
  <2>1. w = reserve_identity(v, o.count) /\ o.count \in Nat
    BY <1>12, CallsAssumption DEF Mutate
  <2> QED  BY <2>1, ReserveSound
<1>13. CASE o.kind = "append"
  <2>1. /\ append_allowed(v, o) /\ w = append(v, o, at + 1)
        /\ \A f, g \in o.batch : f.name = g.name => f = g
    BY <1>13, CallsAssumption DEF Allowed, Mutate
  <2> QED  BY <2>1, AppendSound
<1>14. CASE o.kind = "restore"
  <2>1. w = restored(v, log[o.target + 1])
    BY <1>14 DEF Mutate
  <2> QED  BY <1>14, <2>1, RestoredSound
<1> QED  BY <1>1, <1>2, <1>3, <1>4, <1>5, <1>6, <1>7, <1>8, <1>9, <1>10, <1>11, <1>12, <1>13,
            <1>14, CallsAssumption

\* What version 0 may leave unread.
Exempt(v) == IF v.writer \in {5, 6} THEN {"columnMapping"} ELSE {}

\* A new table lists its features.
LEMMA CreatedSound ==
    ASSUME NEW d \in Created, NEW v, v = initial_actions(d)
    PROVE  Sound(v) /\ Unread(v) = {}
<1> DEFINE mapped == "columnMapping" \in d.on
           types == UNION {type_features(d.cols[i].type) \cup column_features(d.cols[i]) :
                               i \in DOMAIN d.cols}
           cols == [i \in DOMAIN d.cols |-> IF mapped THEN [d.cols[i] EXCEPT !.id = i] ELSE d.cols[i]]
           empty == [reader |-> 1, writer |-> 1, rf |-> {}, wf |-> {}, parts |-> d.parts,
                     cons |-> {}, stats |-> {}, cfg |-> d.on \ {"columnMapping"}, clus |-> {},
                     files |-> {}, mode |-> IF mapped THEN "name" ELSE "none",
                     maxId |-> IF mapped THEN Len(d.cols) ELSE 0, cols |-> cols]
           S == (d.on \cap (Enabling \cup {"columnMapping"})) \cup types
                    \cup (IF d.keys = {} THEN {} ELSE {"clustering", "domainMetadata"})
           p == with_features(empty, S)
           clus == IF d.keys = {} THEN {} ELSE {PhysicalKeys(empty, d)}
           ns == {d.cols[i].name : i \in DOMAIN d.cols}
<1>1. v = [p EXCEPT !.reader = 3, !.writer = 7, !.rf = p.wf \cap ReaderWriterFeature, !.clus = clus]
  BY DEF initial_actions
<1>2. /\ FirstColumns(d.cols) /\ d.on \subseteq Enabling \cup {"columnMapping"}
      /\ d.parts \cup d.keys \subseteq ns
      /\ \A i \in DOMAIN d.cols : d.cols[i].gen \in ns \cup {"none"}
      /\ "changeDataFeed" \in d.on => Reserved \notin ns
  BY TablesAssumption
<1>3. \A i \in DOMAIN d.cols :
        /\ SamePlace(d.cols[i], cols[i]) /\ cols[i].type = d.cols[i].type
        /\ cols[i].hwm = d.cols[i].hwm
  <2> TAKE i \in DOMAIN d.cols
  <2>1. /\ IsColumn(d.cols[i])
        /\ cols[i] = IF mapped THEN [d.cols[i] EXCEPT !.id = i] ELSE d.cols[i]
    BY <1>2 DEF FirstColumns
  <2> HIDE DEF cols, mapped
  <2> QED  BY <2>1 DEF IsColumn, SamePlace
<1>4. DOMAIN cols = DOMAIN d.cols
  OBVIOUS
<1> HIDE DEF cols
<1>5. /\ IsVersion(empty) /\ empty.reader = 1 /\ empty.writer = 1 /\ empty.wf = {} /\ empty.rf = {}
      /\ empty.cols = cols /\ empty.cons = {} /\ empty.parts = d.parts /\ empty.stats = {}
      /\ empty.cfg = d.on \ {"columnMapping"} /\ (empty.mode = "name" => mapped)
  BY DEF IsVersion
<1>6. names(empty) = ns
  BY <1>3, <1>4, <1>5 DEF names, SamePlace
<1> HIDE DEF empty
<1>7. IsVersion(p) /\ SameTable(empty, p)
  BY <1>5, FeaturesOnly
<1>8. S \subseteq p.wf
  <2>1. S \subseteq effective_writer_features(p)
    BY <1>5, FeaturesListed
  <2>2. p.writer \in {1, 7}
    BY <1>5, WriterVersion
  <2>3. ImpliedWriter(1) = {} /\ ImpliedWriter(7) = {}
    BY DEF ImpliedWriter, LEGACY_WRITER_FEATURES
  <2> QED  BY <2>1, <2>2, <2>3 DEF effective_writer_features
<1> HIDE DEF p, clus, S
<1>9. /\ v.reader = 3 /\ v.writer = 7 /\ v.wf = p.wf /\ v.rf = p.wf \cap ReaderWriterFeature
      /\ v.clus = clus /\ v.cols = cols /\ v.cons = {} /\ v.parts = d.parts /\ v.stats = {}
      /\ v.cfg = d.on \ {"columnMapping"} /\ (v.mode = "name" => mapped)
  <2>1. /\ v.reader = 3 /\ v.writer = 7 /\ v.wf = p.wf /\ v.rf = p.wf \cap ReaderWriterFeature
        /\ v.clus = clus /\ v.cols = p.cols /\ v.cons = p.cons /\ v.parts = p.parts
        /\ v.stats = p.stats /\ v.cfg = p.cfg /\ v.mode = p.mode
    BY <1>1, <1>7 DEF IsVersion
  <2> QED  BY <1>5, <1>7, <2>1 DEF SameTable
<1>10. names(v) = ns
  <2>1. v.cols = empty.cols
    BY <1>5, <1>9
  <2>2. names(v) = names(empty)
    BY <2>1 DEF names
  <2> HIDE DEF ns
  <2> QED  BY <1>6, <2>2
<1>11. effective_writer_features(v) = p.wf
  BY <1>9 DEF effective_writer_features, ImpliedWriter
<1>12. Unread(v) = {}
  BY <1>9, <1>11 DEF Unread, Binding, effective_reader_features
<1>13. clustering_columns(v) \subseteq {v.cols[i].phys : i \in DOMAIN v.cols}
  <2> SUFFICES ASSUME NEW x \in clustering_columns(v)
               PROVE  \E i \in DOMAIN v.cols : v.cols[i].phys = x
    OBVIOUS
  <2>1. x \in PhysicalKeys(empty, d)
    BY <1>9 DEF clustering_columns, clus
  <2>2. PICK n \in d.keys : x = Column(empty, n).phys
    BY <2>1 DEF PhysicalKeys
  <2>3. \E i \in DOMAIN empty.cols : empty.cols[i].name = n
    BY <1>2, <1>6 DEF names
  <2>4. \E i \in DOMAIN empty.cols : Column(empty, n) = empty.cols[i]
    BY <2>3 DEF Column
  <2> QED  BY <1>5, <1>9, <2>2, <2>4
<1>14. Resolves(v)
  <2>1. v.parts \cup v.cons \cup v.stats \subseteq names(v)
    BY <1>2, <1>9, <1>10
  <2>2. \A i \in DOMAIN v.cols : v.cols[i].gen \in names(v) \cup {"none"}
    BY <1>2, <1>3, <1>4, <1>9, <1>10 DEF SamePlace
  <2>3. ClusteringKeepsStats(v, v.stats)
    BY <1>9 DEF ClusteringKeepsStats, has_stats
  <2>4. "changeDataFeed" \in v.cfg => Reserved \notin names(v)
    BY <1>2, <1>9, <1>10
  <2> QED  BY <1>13, <2>1, <2>2, <2>3, <2>4 DEF Resolves
<1>15. Required(v) \subseteq p.wf
  <2>1. v.cfg \subseteq S /\ (v.mode = "name" => "columnMapping" \in S) /\ types \subseteq S
    BY <1>2, <1>9 DEF S
  <2>2. v.clus # {} => "clustering" \in S /\ "domainMetadata" \in S
    BY <1>9 DEF S, clus
  <2>3. \A i \in DOMAIN v.cols :
          type_features(v.cols[i].type) \subseteq types /\ column_features(v.cols[i]) \subseteq types
    <3> TAKE i \in DOMAIN v.cols
    <3>1. i \in DOMAIN d.cols /\ v.cols[i] = cols[i]
      BY <1>4, <1>9
    <3>2. column_features(cols[i]) = column_features(d.cols[i]) /\ cols[i].type = d.cols[i].type
      BY <1>3, <3>1 DEF column_features, SamePlace
    <3>3. type_features(d.cols[i].type) \cup column_features(d.cols[i]) \subseteq types
      BY <3>1
    <3> QED  BY <3>1, <3>2, <3>3
  <2> HIDE DEF types
  <2>4. Required(v) \subseteq S
    BY <1>9, <2>1, <2>2, <2>3, RequiredParts
  <2> QED  BY <1>8, <2>4
<1> QED  BY <1>9, <1>11, <1>12, <1>14, <1>15 DEF Sound

\* ... and so does a table another writer created.
LEMMA FirstSound ==
    ASSUME NEW v \in Foreign \cup {initial_actions(d) : d \in Created}
    PROVE  Sound(v) /\ Unread(v) \subseteq Exempt(v)
<1>1. CASE v \in Foreign
  <2>1. /\ v.reader \in Nat /\ v.writer \in Nat
        /\ Resolves(v) /\ Required(v) \subseteq effective_writer_features(v)
        /\ v.writer \in {5, 6} \/ Binding(v) \subseteq effective_reader_features(v)
        /\ v.writer \in {5, 6} => Binding(v) \subseteq effective_reader_features(v) \cup {"columnMapping"}
    BY <1>1, TablesAssumption
  <2> QED  BY <2>1 DEF Sound, Unread, Exempt
<1>2. CASE v \in {initial_actions(d) : d \in Created}
  BY <1>2, CreatedSound
<1> QED  BY <1>1, <1>2

\* Every version says what is so, lists what it needs, which every later version lists too, and
\* leaves unread what the first version does at most.
VersionsSound ==
    \A n \in DOMAIN log :
        /\ Sound(log[n]) /\ Unread(log[n]) \subseteq Exempt(log[1])
        /\ effective_writer_features(log[n]) \subseteq effective_writer_features(Latest)

\* Every commit is sound and upgrades the version it follows, which is the one it was computed on.
LEMMA SoundStep ==
    ASSUME LogOk, JobsOk, VersionsSound, [Next]_vars PROVE VersionsSound'
<1>1. CASE log' = log
  BY <1>1 DEF VersionsSound, Latest
<1>2. ASSUME NEW c \in Clients, Commit(c) PROVE VersionsSound'
  <2> DEFINE o == job[c].op
             at == Len(log) - 1
             w == Mutate(Latest, o, Len(log))
  <2>1. /\ Len(log) \in Nat \ {0} /\ DOMAIN log = 1..Len(log) /\ VersionOk(Latest, at)
        /\ at \in Nat /\ Len(log) = at + 1 /\ 1 \in DOMAIN log
    BY LogFacts
  <2>2. /\ o \in Ops /\ log[job[c].base] = Latest /\ Allowed(Latest, o)
    BY <1>2, CommitLogs
  <2>3. log' = Append(log, w)
    BY <1>2, <2>2 DEF Commit
  <2>4. w = Mutate(Latest, o, at + 1)
    BY <2>1
  <2> HIDE DEF w, o, at
  <2>5. /\ DOMAIN log' = 1..(Len(log) + 1) /\ \A n \in DOMAIN log : log'[n] = log[n]
        /\ log'[Len(log) + 1] = w /\ Latest' = w
    <3>1. PICK S : log \in Seq(S)
      BY DEF LogOk
    <3>2. log \in Seq(S \cup {w})
      BY <3>1
    <3> QED  BY <2>3, <3>2, Appended DEF Latest
  <2>6. /\ Sound(Latest) /\ Unread(Latest) \subseteq Exempt(log[1])
    BY <2>1 DEF VersionsSound, Latest
  <2>7. ASSUME o.kind = "restore"
        PROVE  /\ IsVersion(log[o.target + 1]) /\ Sound(log[o.target + 1])
               /\ effective_writer_features(log[o.target + 1])
                     \subseteq effective_writer_features(Latest)
    <3>1. o.target < Len(log) - 1 /\ o.target \in Nat
      BY <2>2, <2>7, CallsAssumption DEF Allowed
    <3>2. o.target + 1 \in DOMAIN log
      BY <2>1, <3>1
    <3> QED  BY <3>2 DEF LogOk, VersionOk, VersionsSound
  <2>8. Sound(w) /\ Upgrades(Latest, w)
    BY <2>1, <2>2, <2>4, <2>6, <2>7, MutateSound
  <2>9. Sound(w) /\ Unread(w) \subseteq Exempt(log[1])
    BY <2>6, <2>8 DEF Upgrades
  <2>10. effective_writer_features(Latest) \subseteq effective_writer_features(w)
    BY <2>8 DEF Upgrades
  <2> SUFFICES ASSUME NEW n \in DOMAIN log'
               PROVE  /\ Sound(log'[n]) /\ Unread(log'[n]) \subseteq Exempt(log'[1])
                      /\ effective_writer_features(log'[n]) \subseteq effective_writer_features(Latest')
    BY DEF VersionsSound
  <2>11. log'[1] = log[1]
    BY <2>1, <2>5
  <2>12. CASE n \in DOMAIN log
    BY <2>5, <2>10, <2>11, <2>12 DEF VersionsSound
  <2>13. CASE n = Len(log) + 1
    BY <2>5, <2>9, <2>11, <2>13
  <2> QED  BY <2>1, <2>5, <2>12, <2>13
<1> QED  BY ZenonT(60), <1>1, <1>2 DEF Next, vars, Begin, Retry, TaskWrite, TaskRestart, PlanEnds

\* What a version says of its columns is so, and what it needs is listed, for the readers too,
\* although every change is computed on a version that another client may have changed.
THEOREM MetadataSoundHolds == Spec => []MetadataSound
<1> DEFINE Inv == LogOk /\ JobsOk /\ VersionsSound
<1>1. VersionsSound => MetadataSound
  BY DEF VersionsSound, Sound, Unread, Exempt, MetadataSound, ReferencesResolve, EnabledIsListed,
         Versions
<1>2. Init => VersionsSound
  <2> SUFFICES ASSUME Init PROVE VersionsSound
    OBVIOUS
  <2>1. PICK v \in Foreign \cup {initial_actions(d) : d \in Created} : log = <<v>>
    BY DEF Init
  <2>2. DOMAIN log = {1} /\ log[1] = v /\ Latest = v
    BY <2>1 DEF Latest
  <2>3. Sound(v) /\ Unread(v) \subseteq Exempt(v)
    BY FirstSound
  <2> QED  BY <2>2, <2>3 DEF VersionsSound
<1>3. Init => Inv
  BY <1>2, LogStart
<1>4. Inv /\ [Next]_vars => Inv'
  BY LogStep, SoundStep
<1> QED  BY <1>1, <1>3, <1>4, PTL DEF Spec

=============================================================================
