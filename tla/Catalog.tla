------------------------------ MODULE Catalog -------------------------------
(***************************************************************************)
(* Tables in the catalog of icedb (catalog/src/manager.rs): the rows of    *)
(* pg_class and pg_attribute, the caches above them, the registries that   *)
(* are only in memory, and the heap files named after table OIDs.          *)
(*                                                                         *)
(* The catalog reads its own heaps without MVCC (scan_raw_catalog_tuples): *)
(* a row counts as soon as it is written and until some t_xmax is set on   *)
(* it, whatever becomes of the transaction.  pg_class and pg_attribute are *)
(* therefore the sets of rows that scan returns, and a ROLLBACK changes    *)
(* nothing here.  A DDL statement takes several locks one after the other: *)
(* it looks the table up, changes rows, changes caches, and other          *)
(* statements run in between.  A restart rebuilds the caches from the rows.*)
(***************************************************************************)
EXTENDS Integers, Sequences, FiniteSets, FiniteSetsExt, SequencesExt, Functions

CONSTANTS
  Session,
  Table,       \* table names
  Column,      \* column names
  Layout,      \* column lists that CREATE TABLE is given
  MaxOid,      \* bound: OIDs
  MaxRow,      \* bound: rows ever written to pg_class and pg_attribute
  MaxHeap,     \* bound: rows of user tables
  MaxRestart   \* bound: restarts

USER_OID_START == 1
Text == "Text"

VARIABLES
  pg_class,     \* rows [n, oid, relname]; n is the place in the heap
  pg_attribute, \* rows [n, attrelid, attname, atttypid, attnum, attnotnull,
                \* attisdropped, born]; born is the n of the column's first row
  rows,         \* rows written so far
  heaps,        \* <<oid, row>>: the rows of {oid}.heap, each a list of cells;
                \* a cell is the column (its born) it was written for
  schema_cache, \* oid -> list of columns
  name_cache,   \* name -> oid
  next_oid,
  registry,     \* <<oid, kind>>: tables with indexes, unique or check constraints
  task,         \* the DDL statement of each session
  restarts,
  quirks,       \* history: what has happened that the caches do not survive
  inherited     \* history: OIDs given to a table although their file had rows

vars == <<pg_class, pg_attribute, rows, heaps, schema_cache, name_cache,
          next_oid, registry, task, restarts, quirks, inherited>>

Idle == [pc |-> "idle"]

Init ==
  /\ pg_class = {} /\ pg_attribute = {} /\ rows = 0 /\ heaps = {}
  /\ schema_cache = <<>> /\ name_cache = <<>>
  /\ next_oid = USER_OID_START
  /\ registry = {}
  /\ task = [s \in Session |-> Idle]
  /\ restarts = 0 /\ quirks = {} /\ inherited = {}

-----------------------------------------------------------------------------
(* Rows to schemas *)

\* Finite maps: f with k bound to v, and f without the keys K
With(f, k, v) == [x \in DOMAIN f \cup {k} |-> IF x = k THEN v ELSE f[x]]
Without(f, K) == Restrict(f, DOMAIN f \ K)

ColumnOf(a) == [name |-> a.attname, data_type |-> a.atttypid, attnum |-> a.attnum,
                not_null |-> a.attnotnull, born |-> a.born]

\* The attributes in order of attnum (a stable sort of the heap order)
Attributes(oid) ==
  SetToSortSeq({a \in pg_attribute : a.attrelid = oid /\ ~a.attisdropped},
               LAMBDA a, b : a.attnum < b.attnum \/ (a.attnum = b.attnum /\ a.n < b.n))

\* The columns that load_from_disk and get_table make of the rows of a table
Loaded(oid) == [i \in DOMAIN Attributes(oid) |-> ColumnOf(Attributes(oid)[i])]

\* The first row of the table's column in the heap
AttributeRow(oid, c) ==
  LET S == {a \in pg_attribute : a.attrelid = oid /\ a.attname = c}
  IN  {a \in S : \A b \in S : a.n <= b.n}

NameTaken(oid, c) == AttributeRow(oid, c) # {}

\* The index of the first cached column with a name, or 0
Position(cols, c) == SelectInSeq(cols, LAMBDA col : col.name = c)

-----------------------------------------------------------------------------
(* Statements.  A statement that has changed rows leaves the change of the  *)
(* caches as its next step.                                                *)

Free(s) == task[s] = Idle

When(b, quirk) == IF b THEN {quirk} ELSE {}

\* A statement starts; quirk says what is special about it, if anything.
Go(s, t, quirk) ==
  /\ task' = [task EXCEPT ![s] = t]
  /\ quirks' = quirks \cup quirk
                 \cup When(\E u \in Session \ {s} : ~Free(u), "overlap")

Done(s) == task' = [task EXCEPT ![s] = Idle]

Known(t) == t \in DOMAIN name_cache

\* create_table: the name is checked, an OID allocated, the heap file opened.
CreateCheck(s, t, layout) ==
  /\ Free(s) /\ ~Known(t) /\ next_oid <= MaxOid
  /\ next_oid' = next_oid + 1
  /\ inherited' = IF \E h \in heaps : h[1] = next_oid
                  THEN inherited \cup {next_oid} ELSE inherited
  /\ Go(s, [pc |-> "rows", oid |-> next_oid, name |-> t, layout |-> layout], {})
  /\ UNCHANGED <<pg_class, pg_attribute, rows, heaps, schema_cache, name_cache,
                 registry, restarts>>

CreateRows(s) ==
  LET t   == task[s]
      new == [i \in DOMAIN t.layout |->
                [n |-> rows + 1 + i, attrelid |-> t.oid, attname |-> t.layout[i],
                 atttypid |-> "Int4", attnum |-> i, attnotnull |-> FALSE,
                 attisdropped |-> FALSE, born |-> rows + 1 + i]]
  IN  /\ t.pc = "rows" /\ rows + 1 + Len(t.layout) <= MaxRow
      /\ pg_class' = pg_class \cup {[n |-> rows + 1, oid |-> t.oid, relname |-> t.name]}
      /\ pg_attribute' = pg_attribute \cup ToSet(new)
      /\ rows' = rows + 1 + Len(t.layout)
      /\ task' = [task EXCEPT ![s] =
                    [pc |-> "cache", oid |-> t.oid, name |-> t.name, column |-> "",
                     edit |-> "create",
                     columns |-> [i \in DOMAIN new |-> ColumnOf(new[i])]]]
      /\ UNCHANGED <<heaps, schema_cache, name_cache, next_oid, registry,
                     restarts, quirks, inherited>>

\* drop_table: rows of the table that a scan still returns get their t_xmax.
\* The heap file stays.
DropRows(s, t) ==
  LET oid == name_cache[t]
  IN  /\ Free(s) /\ Known(t)
      /\ pg_class' = {r \in pg_class : r.oid # oid}
      /\ pg_attribute' = {a \in pg_attribute : a.attrelid # oid}
      /\ Go(s, [pc |-> "cache", edit |-> "drop", oid |-> oid, name |-> t,
                column |-> "", columns |-> <<>>], {})
      /\ UNCHANGED <<rows, heaps, schema_cache, name_cache, next_oid, registry,
                     restarts, inherited>>

\* get_table when the caches do not have the table: it is found in the rows.
GetTable(s, t) ==
  /\ Free(s)
  /\ Known(t) => name_cache[t] \notin DOMAIN schema_cache
  /\ \E r \in pg_class :
       /\ r.relname = t
       /\ \A q \in pg_class : q.relname = t => r.n <= q.n
       /\ Go(s, [pc |-> "cache", edit |-> "load", oid |-> r.oid, name |-> t,
                 column |-> "", columns |-> Loaded(r.oid)], {})
  /\ UNCHANGED <<pg_class, pg_attribute, rows, heaps, schema_cache, name_cache,
                 next_oid, registry, restarts, inherited>>

\* Mutant: the new column comes first, in the rows and in the cache.
AddColumnFirst(s, t, c) ==
  LET oid  == name_cache[t]
      cols == schema_cache[oid]
      new  == [n |-> rows + 1, attrelid |-> oid, attname |-> c, atttypid |-> Text,
               attnum |-> 0, attnotnull |-> FALSE, attisdropped |-> FALSE,
               born |-> rows + 1]
  IN  /\ Free(s) /\ Known(t) /\ oid \in DOMAIN schema_cache /\ rows < MaxRow
      /\ pg_attribute' = pg_attribute \cup {new}
      /\ rows' = rows + 1
      /\ Go(s, [pc |-> "cache", edit |-> "replace", oid |-> oid, name |-> t,
                column |-> "", columns |-> <<ColumnOf(new)>> \o cols],
               When(NameTaken(oid, c), "same name"))
      /\ UNCHANGED <<pg_class, heaps, schema_cache, name_cache, next_oid,
                     registry, restarts, inherited>>

\* alter_table_add_column: the schema is copied from the cache, and the copy
\* with the new column put back later.  The type is always Text.
AddColumn(s, t, c) ==
  LET oid  == name_cache[t]
      cols == schema_cache[oid]
      new  == [n |-> rows + 1, attrelid |-> oid, attname |-> c, atttypid |-> Text,
               attnum |-> Len(cols) + 1, attnotnull |-> FALSE,
               attisdropped |-> FALSE, born |-> rows + 1]
  IN  /\ Free(s) /\ Known(t) /\ oid \in DOMAIN schema_cache /\ rows < MaxRow
      /\ pg_attribute' = pg_attribute \cup {new}
      /\ rows' = rows + 1
      /\ Go(s, [pc |-> "cache", edit |-> "replace", oid |-> oid, name |-> t,
                column |-> "", columns |-> Append(cols, ColumnOf(new))],
               When(NameTaken(oid, c), "same name")
                 \cup When(\E i \in DOMAIN cols : cols[i].attnum > Len(cols), "attnum again"))
      /\ UNCHANGED <<pg_class, heaps, schema_cache, name_cache, next_oid,
                     registry, restarts, inherited>>

\* The other ALTERs of a column rewrite its first row with update_tuple, which
\* sets t_xmax on the old version; when the XID is 0 that marks nothing, and
\* the old version stays with the new one.
AlterRow(s, t, c, edit, field, value, xid0) ==
  LET oid == name_cache[t]
      old == AttributeRow(oid, c)
  IN  /\ Free(s) /\ Known(t) /\ rows < MaxRow
      /\ pg_attribute' = (IF xid0 THEN pg_attribute ELSE pg_attribute \ old)
                           \cup {[a EXCEPT ![field] = value, !.n = rows + 1] : a \in old}
      /\ rows' = rows + Cardinality(old)
      /\ Go(s, [pc |-> "cache", edit |-> edit, oid |-> oid, name |-> t,
                column |-> c, columns |-> <<>>],
               When(xid0, "two versions") \cup When(NameTaken(oid, edit), "same name"))
      /\ UNCHANGED <<pg_class, heaps, schema_cache, name_cache, next_oid,
                     registry, restarts, inherited>>

DropColumn(s, t, c) ==
  AlterRow(s, t, c, "drop_column", "attisdropped", TRUE, FALSE)

RenameColumn(s, t, c, d) ==
  AlterRow(s, t, c, d, "attname", d, FALSE)

SetColumnType(s, t, c) ==
  AlterRow(s, t, c, "set_type", "atttypid", Text, TRUE)

SetNotNull(s, t, c) ==
  AlterRow(s, t, c, "set_not_null", "attnotnull", TRUE, TRUE)

\* alter_table_rename_table does not look whether the new name is taken.
RenameTable(s, t, u) ==
  LET old == {r \in pg_class : r.oid = name_cache[t]}
  IN  /\ Free(s) /\ Known(t) /\ rows < MaxRow
      /\ pg_class' = (pg_class \ old)
                       \cup {[r EXCEPT !.relname = u, !.n = rows + 1] : r \in old}
      /\ rows' = rows + Cardinality(old)
      /\ Go(s, [pc |-> "cache", edit |-> "rename", oid |-> name_cache[t],
                name |-> t, column |-> u, columns |-> <<>>],
               When(\E r \in pg_class : r.relname = u, "same name"))
      /\ UNCHANGED <<pg_attribute, heaps, schema_cache, name_cache, next_oid,
                     registry, restarts, inherited>>

-----------------------------------------------------------------------------
(* The caches *)

\* Mutant: RENAME COLUMN leaves the cache alone.
EditedNotRenamed(cols, c, edit) ==
  IF edit = "drop_column" THEN SelectSeq(cols, LAMBDA col : col.name # c) ELSE cols

\* What an ALTER of column c makes of the cached columns
Edited(cols, c, edit) ==
  LET i == Position(cols, c)
  IN  CASE edit = "drop_column"  -> SelectSeq(cols, LAMBDA col : col.name # c)
        [] i = 0                 -> cols
        [] edit = "set_type"     -> [cols EXCEPT ![i].data_type = Text]
        [] edit = "set_not_null" -> [cols EXCEPT ![i].not_null = TRUE]
        [] OTHER                 -> [cols EXCEPT ![i].name = edit]

CacheStep(s) ==
  LET t == task[s]
      cached == t.oid \in DOMAIN schema_cache
  IN  /\ t.pc = "cache"
      /\ schema_cache' =
           CASE t.edit \in {"create", "load", "replace"}
                  -> With(schema_cache, t.oid, t.columns)
             [] t.edit = "drop" -> Without(schema_cache, {t.oid})
             [] t.edit = "rename" \/ ~cached -> schema_cache
             [] OTHER -> [schema_cache EXCEPT ![t.oid] = Edited(@, t.column, t.edit)]
      /\ name_cache' =
           CASE t.edit \in {"create", "load"} -> With(name_cache, t.name, t.oid)
             [] t.edit = "drop" -> Without(name_cache, {t.name})
             [] t.edit = "rename" ->
                  With(Without(name_cache, {t.name}), t.column, t.oid)
             [] OTHER -> name_cache
      /\ registry' =
           CASE t.edit = "drop" ->
                  registry \ {<<t.oid, "check">>}
             [] t.edit = "create" ->
                  registry \cup {<<t.oid, "unique">>}
             [] OTHER -> registry
      /\ Done(s)
      /\ UNCHANGED <<pg_class, pg_attribute, rows, heaps, next_oid, restarts,
                     quirks, inherited>>

\* create_index_entry, add_check_constraint, and drop_constraint
Register(s, t, kind) ==
  /\ Free(s) /\ Known(t)
  /\ registry' = registry \cup {<<name_cache[t], kind>>}
  /\ UNCHANGED <<pg_class, pg_attribute, rows, heaps, schema_cache, name_cache,
                 next_oid, task, restarts, quirks, inherited>>

DropConstraint(s, t) ==
  /\ Free(s) /\ Known(t)
  /\ registry' = registry \ {<<name_cache[t], "check">>}
  /\ UNCHANGED <<pg_class, pg_attribute, rows, heaps, schema_cache, name_cache,
                 next_oid, task, restarts, quirks, inherited>>

\* An INSERT encodes one cell for each column of the cached schema.
InsertRow(s, t) ==
  /\ Free(s) /\ Known(t) /\ name_cache[t] \in DOMAIN schema_cache
  /\ Cardinality(heaps) < MaxHeap
  /\ LET cols == schema_cache[name_cache[t]]
     IN  heaps' = heaps \cup {<<name_cache[t], [i \in DOMAIN cols |-> cols[i].born]>>}
  /\ UNCHANGED <<pg_class, pg_attribute, rows, schema_cache, name_cache, next_oid,
                 registry, task, restarts, quirks, inherited>>

\* Mutant: the largest OID itself.
NextOidLargest == Max({r.oid : r \in pg_class} \cup {USER_OID_START})

\* load_from_disk: the OID after the largest in pg_class
NextOid == Max({r.oid + 1 : r \in pg_class} \cup {USER_OID_START})

\* Mutant: the registries are kept, by OID.
RegistryKept == registry

\* The registries of indexes and constraints are not in any file.
RegistryRead == {}

\* The process ends and a new one opens the catalog: load_from_disk.
Restart ==
  /\ restarts < MaxRestart
  /\ restarts' = restarts + 1
  /\ schema_cache' = [oid \in {r.oid : r \in pg_class} |-> Loaded(oid)]
  /\ name_cache' =
       [t \in {r.relname : r \in pg_class} |->
          (CHOOSE r \in pg_class :
             r.relname = t /\ \A q \in pg_class : q.relname = t => q.n <= r.n).oid]
  /\ next_oid' = NextOid
  /\ registry' = RegistryRead
  /\ task' = [s \in Session |-> Idle]
  /\ UNCHANGED <<pg_class, pg_attribute, rows, heaps, quirks, inherited>>

Next ==
  \/ \E s \in Session :
       \/ \E t \in Table :
            \/ \E layout \in Layout : CreateCheck(s, t, layout)
            \/ DropRows(s, t) \/ GetTable(s, t) \/ InsertRow(s, t)
            \/ \E kind \in {"index", "check"} : Register(s, t, kind)
            \/ DropConstraint(s, t)
            \/ \E u \in Table \ {t} : RenameTable(s, t, u)
            \/ \E c \in Column :
                 \/ AddColumn(s, t, c) \/ DropColumn(s, t, c)
                 \/ SetColumnType(s, t, c) \/ SetNotNull(s, t, c)
                 \/ \E d \in Column \ {c} : RenameColumn(s, t, c, d)
       \/ CreateRows(s) \/ CacheStep(s)
  \/ Restart

Spec == Init /\ [][Next]_vars

-----------------------------------------------------------------------------
(* Properties *)

\* A restart changes no schema.  Unless two DDL statements have overlapped, a
\* column was altered under XID 0, a name was given twice, or a column was
\* added after one in the middle was dropped (so that it got an attnum again),
\* what the caches say of a table between statements is what a new
\* process will read from pg_class and pg_attribute, and no dropped table is
\* left in the caches.
CachesMatchRows ==
  quirks = {} /\ (\A s \in Session : Free(s)) =>
    /\ \A r \in pg_class :
         /\ r.relname \in DOMAIN name_cache => name_cache[r.relname] = r.oid
         /\ r.oid \in DOMAIN schema_cache => schema_cache[r.oid] = Loaded(r.oid)
    /\ \A t \in DOMAIN name_cache : \E r \in pg_class : r.oid = name_cache[t]

\* No two tables share a heap file, the ones being created included, whatever
\* statements overlap and wherever a restart comes between.
OidsDistinct ==
  /\ \A q, r \in pg_class : q.oid = r.oid => q = r
  /\ \A s \in Session, r \in pg_class : task[s].pc = "rows" => r.oid # task[s].oid

\* Dropping a table leaves its index and unique entries in the registries.  No
\* table created later finds them under its OID: an OID comes back only after
\* a restart, and a restart empties the registries.
ConstraintsAreOwn ==
  \A s \in Session :
    task[s].pc = "rows" => \A r \in registry : r[1] # task[s].oid

\* A cell is read as the column it was written for, as long as no column of the
\* table has been dropped: added columns come last, renamed ones keep their place.
CellsReadBack ==
  quirks = {} =>
    \A h \in heaps :
      h[1] \in (DOMAIN schema_cache \cap {r.oid : r \in pg_class}) \ inherited =>
        LET cols == schema_cache[h[1]]
        IN  (\A a \in pg_attribute : a.attrelid = h[1] => ~a.attisdropped) =>
              \A i \in DOMAIN cols : i <= Len(h[2]) => cols[i].born = h[2][i]

\* An OID is given to one table only: the heap file of a new table is empty.
OidIsNew == inherited = {}
=============================================================================
