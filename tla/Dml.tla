-------------------------------- MODULE Dml ---------------------------------
(***************************************************************************)
(* INSERT, UPDATE and DELETE with their constraints (sql/src/executor.rs): *)
(* a table parent (pk, val) with a unique column pk and an index on it, a  *)
(* table child (ref) whose ref references parent.pk, CHECK constraints,    *)
(* CREATE INDEX, index scans and VACUUM.  Sessions run transactions at     *)
(* READ COMMITTED, so every scan takes a new snapshot.                     *)
(*                                                                         *)
(* A statement works through its rows one by one, each seeing what the     *)
(* ones before have done, and an error at one of them aborts the           *)
(* transaction.  A statement is one step here: the properties are about    *)
(* transactions that do not overlap, and those that do are told apart by   *)
(* the history variable overlapped.                                        *)
(***************************************************************************)
EXTENDS Integers, Sequences, FiniteSets, SequencesExt

CONSTANTS
  Session,
  Key,          \* values of parent.pk and child.ref
  Val,          \* values of parent.val
  Checked(_),   \* the CHECK constraint of parent, on val
  FkActions,    \* [on_delete, on_update]: the actions the foreign key may have
  ParentLists,  \* VALUES lists for parent, of rows <<pk, val>>
  ChildLists,   \* VALUES lists for child, of rows <<ref>>
  MaxXid,       \* bound: transactions
  MaxTuples     \* bound: tuples of a table

Null == 0

VARIABLES
  heap,       \* [parent, child]: tuples [row, xmin, xmax, dead] by tuple id
  btree,      \* the index on parent.pk: pairs <<key, tid>>
  indexed,    \* CREATE INDEX has been run
  fk,         \* [on_delete, on_update]
  status,     \* of each transaction: active, committed or aborted
  xid,        \* the transaction of each session, 0 for none
  overlapped, \* history: two transactions were active at once
  repeated,   \* history: an UPDATE changed parent.pk to a key that was there
  unindexed   \* history: a tuple that may become visible was left out of the index

vars == <<heap, btree, indexed, fk, status, xid, overlapped, repeated, unindexed>>

Init ==
  /\ heap = [parent |-> <<>>, child |-> <<>>]
  /\ btree = {} /\ indexed = FALSE
  /\ fk \in FkActions
  /\ status = <<>>
  /\ xid = [s \in Session |-> 0]
  /\ overlapped = FALSE /\ repeated = FALSE /\ unindexed = FALSE

Committed(x) == x # 0 /\ status[x] = "committed"
Active(x) == x # 0 /\ status[x] = "active"

\* scan_visible_tuples at READ COMMITTED: own work and committed work
VisibleTo(x, t) ==
  /\ ~t.dead
  /\ t.xmin = x \/ Committed(t.xmin)
  /\ t.xmax # x /\ ~Committed(t.xmax)

Scan(x, tuples) == {i \in DOMAIN tuples : VisibleTo(x, tuples[i])}

\* The locks are kept by page and slot and not by table.
Locked(h, x, i) ==
  \E table \in DOMAIN h :
    i \in DOMAIN h[table] /\ h[table][i].xmax # x /\ Active(h[table][i].xmax)

-----------------------------------------------------------------------------
(* Statements.  The work of a statement is a value w = [heap, btree,       *)
(* indexed, ok, repeated, unindexed]; ok turns FALSE at the first error.     *)

InsertTuple(w, x, table, row) ==
  [w EXCEPT !.heap[table] = Append(@, [row |-> row, xmin |-> x, xmax |-> 0, dead |-> FALSE])]

DeleteTuple(w, x, table, i) ==
  IF Locked(w.heap, x, i) THEN [w EXCEPT !.ok = FALSE]
                          ELSE [w EXCEPT !.heap[table][i].xmax = x]

UpdateTuple(w, x, table, i, row) ==
  IF Locked(w.heap, x, i) THEN [w EXCEPT !.ok = FALSE]
                          ELSE InsertTuple(DeleteTuple(w, x, table, i), x, table, row)

\* A change of a child for its parent: an error is dropped.
Quietly(w, new) == IF new.ok THEN new ELSE w

\* BTree::insert under a key, which refuses a key it has.  The caller ignores
\* the error.
IndexInsert(w, k, i) ==
  IF \E e \in w.btree : e[1] = k THEN [w EXCEPT !.unindexed = TRUE]
                                 ELSE [w EXCEPT !.btree = @ \cup {<<k, i>>}]

\* Mutant: an index is only filled by CREATE INDEX.
NoMaintenance(w) == w

\* maintain_indexes_on_insert, for the newest tuple of parent
MaintainIndexes(w) ==
  LET i == Len(w.heap.parent)
  IN  IF w.indexed THEN IndexInsert(w, w.heap.parent[i].row[1], i) ELSE w

\* Mutant: only what is committed is looked at.
ParentsCommitted(w, x, k) ==
  {i \in DOMAIN w.heap.parent :
     LET t == w.heap.parent[i]
     IN  t.row[1] = k /\ ~t.dead /\ Committed(t.xmin) /\ ~Committed(t.xmax)}

Parents(w, x, k) == {i \in Scan(x, w.heap.parent) : w.heap.parent[i].row[1] = k}
Children(w, x, k) == {i \in Scan(x, w.heap.child) : w.heap.child[i].row[1] = k}

\* One after the other, in order of tuple id, until an error
InOrder(op(_, _), w, S) ==
  FoldLeft(LAMBDA v, i : IF v.ok THEN op(v, i) ELSE v, w, SetToSortSeq(S, <))

\* ON CONFLICT DO UPDATE SET val = EXCLUDED.val: the first tuple with the
\* values of the first conflicting row; the indexes are left alone.
DoUpdate(w, x, row) ==
  LET i == CHOOSE j \in Parents(w, x, row[1]) :
             \A k \in Parents(w, x, row[1]) : j <= k
  IN  [UpdateTuple(w, x, "parent", i, row) EXCEPT !.unindexed = w.indexed \/ @]

InsertParent(w, x, row, conflict) ==
  LET taken == Parents(w, x, row[1]) # {}
  IN  CASE ~Checked(row[2]) -> [w EXCEPT !.ok = FALSE]
        [] taken /\ conflict = "error"   -> [w EXCEPT !.ok = FALSE]
        [] taken /\ conflict = "nothing" -> w
        [] taken /\ conflict = "update"  -> DoUpdate(w, x, row)
        [] OTHER -> MaintainIndexes(InsertTuple(w, x, "parent", row))

InsertChild(w, x, row) ==
  IF row[1] # Null /\ Parents(w, x, row[1]) = {}
  THEN [w EXCEPT !.ok = FALSE]
  ELSE InsertTuple(w, x, "child", row)

\* The children of a parent that is updated or deleted: CASCADE gives them the
\* row new, which is empty when it deletes them.
Referential(w, x, k, action, new) ==
  LET S == Children(w, x, k)
  IN  CASE action = "restrict" /\ S # {} -> [w EXCEPT !.ok = FALSE]
        [] action = "set_null" ->
             InOrder(LAMBDA v, i : Quietly(v, UpdateTuple(v, x, "child", i, <<Null>>)), w, S)
        [] action = "cascade" /\ new = <<>> ->
             InOrder(LAMBDA v, i : Quietly(v, DeleteTuple(v, x, "child", i)), w, S)
        [] OTHER -> InOrder(LAMBDA v, i : Quietly(v, UpdateTuple(v, x, "child", i, new)), w, S)

\* exec_update for one tuple of parent
UpdateParent(w, x, i, row) ==
  LET old == w.heap.parent[i].row[1]
      cascaded == IF old = row[1] THEN w
                  ELSE Referential(w, x, old, fk.on_update, <<row[1]>>)
      updated == UpdateTuple(cascaded, x, "parent", i, row)
      again == \E j \in Parents(w, x, row[1]) : j # i
  IN  CASE ~Checked(row[2]) -> [w EXCEPT !.ok = FALSE]
        [] ~cascaded.ok     -> cascaded
        [] ~updated.ok      -> updated
        [] OTHER -> [MaintainIndexes(updated) EXCEPT !.repeated = again \/ @]

\* Mutant: only INSERT checks the reference.
UpdateChildUnchecked(w, x, i, row) == UpdateTuple(w, x, "child", i, row)

UpdateChild(w, x, i, row) ==
  IF row[1] # Null /\ Parents(w, x, row[1]) = {}
  THEN [w EXCEPT !.ok = FALSE]
  ELSE UpdateTuple(w, x, "child", i, row)

\* exec_delete for one tuple of parent
DeleteParent(w, x, i) ==
  LET cascaded == Referential(w, x, w.heap.parent[i].row[1], fk.on_delete, <<>>)
  IN  IF cascaded.ok THEN DeleteTuple(cascaded, x, "parent", i) ELSE cascaded

-----------------------------------------------------------------------------
(* Actions *)

Begin(s) ==
  /\ xid[s] = 0 /\ Len(status) < MaxXid
  /\ status' = Append(status, "active")
  /\ xid' = [xid EXCEPT ![s] = Len(status) + 1]
  /\ overlapped' = (overlapped \/ \E u \in Session : xid[u] # 0)
  /\ UNCHANGED <<heap, btree, indexed, fk, repeated, unindexed>>

End(s, outcome) ==
  /\ xid[s] # 0
  /\ status' = [status EXCEPT ![xid[s]] = outcome]
  /\ xid' = [xid EXCEPT ![s] = 0]
  /\ UNCHANGED <<heap, btree, indexed, fk, overlapped, repeated, unindexed>>

Work == [heap |-> heap, btree |-> btree, indexed |-> indexed, ok |-> TRUE,
         repeated |-> repeated, unindexed |-> unindexed]

\* The statement has done w; after an error the transaction is aborted.
Done(s, w) ==
  /\ \A table \in DOMAIN heap : Len(w.heap[table]) <= MaxTuples
  /\ heap' = w.heap /\ btree' = w.btree /\ indexed' = w.indexed
  /\ repeated' = w.repeated /\ unindexed' = w.unindexed
  /\ status' = IF w.ok THEN status ELSE [status EXCEPT ![xid[s]] = "aborted"]
  /\ xid' = IF w.ok THEN xid ELSE [xid EXCEPT ![s] = 0]
  /\ UNCHANGED <<fk, overlapped>>

\* The rows of a list after an error are not reached.
InsertRows(x, list, conflict) ==
  FoldLeft(LAMBDA v, row : IF v.ok THEN InsertParent(v, x, row, conflict) ELSE v, Work, list)

InsertIntoParent(s, list, conflict) ==
  /\ xid[s] # 0
  /\ Done(s, InsertRows(xid[s], list, conflict))

InsertIntoChild(s, list) ==
  /\ xid[s] # 0
  /\ Done(s, FoldLeft(LAMBDA v, row : IF v.ok THEN InsertChild(v, xid[s], row) ELSE v, Work, list))

\* UPDATE parent SET pk = pk' or SET val = val', of all rows or of one key; the
\* tuples are collected before the first is changed.
Update(s, S, col, new) ==
  Done(s, InOrder(LAMBDA v, i : UpdateParent(v, xid[s], i, [v.heap.parent[i].row EXCEPT ![col] = new]),
                  Work, S))

UpdateKey(s, from, to) ==
  /\ xid[s] # 0 /\ from # to
  /\ Update(s, Parents(Work, xid[s], from), 1, to)

UpdateVal(s, val) ==
  /\ xid[s] # 0
  /\ Update(s, Scan(xid[s], heap.parent), 2, val)

UpdateChildren(s, from, to) ==
  /\ xid[s] # 0 /\ from # to
  /\ Done(s, InOrder(LAMBDA v, i : UpdateChild(v, xid[s], i, <<to>>),
                     Work, Children(Work, xid[s], from)))

DeleteFromParent(s, S) ==
  /\ xid[s] # 0
  /\ Done(s, InOrder(LAMBDA v, i : DeleteParent(v, xid[s], i),
                     Work, {i \in Scan(xid[s], heap.parent) : heap.parent[i].row[1] \in S}))

\* A new transaction has an XID that is in no tuple.
New == Len(status) + 1

\* exec_create_index: registered, then filled from a scan
CreateIndex(s) ==
  /\ xid[s] # 0 /\ ~indexed
  /\ Done(s, InOrder(LAMBDA v, i : IndexInsert(v, v.heap.parent[i].row[1], i),
                     [Work EXCEPT !.indexed = TRUE,
                                  !.unindexed = Scan(New, heap.parent) # Scan(xid[s], heap.parent)],
                     Scan(xid[s], heap.parent)))

\* exec_vacuum: tuples with a committed deleter
Vacuum(s) ==
  /\ xid[s] # 0
  /\ heap' = [table \in DOMAIN heap |->
                [i \in DOMAIN heap[table] |->
                   [heap[table][i] EXCEPT !.dead = @ \/ Committed(heap[table][i].xmax)]]]
  /\ UNCHANGED <<btree, indexed, fk, status, xid, overlapped, repeated, unindexed>>

Next ==
  \E s \in Session :
    \/ Begin(s)
    \/ \E outcome \in {"committed", "aborted"} : End(s, outcome)
    \/ \E list \in ParentLists, conflict \in {"error", "nothing", "update"} :
         InsertIntoParent(s, list, conflict)
    \/ \E list \in ChildLists : InsertIntoChild(s, list)
    \/ \E k, l \in Key : UpdateKey(s, k, l) \/ UpdateChildren(s, k, l)
    \/ \E v \in Val : UpdateVal(s, v)
    \/ \E S \in {{k} : k \in Key} \cup {Key} : DeleteFromParent(s, S)
    \/ CreateIndex(s)
    \/ Vacuum(s)

Spec == Init /\ [][Next]_vars

-----------------------------------------------------------------------------
(* Properties *)

\* exec_index_scan for pk = k, by transaction x
IndexScan(x, k) ==
  {e[2] : e \in {p \in btree :
     LET t == heap.parent[p[2]]
     IN  /\ p[1] = k /\ ~t.dead
         /\ IF t.xmin = x THEN t.xmax # x
            ELSE Committed(t.xmin) /\ ~Committed(t.xmax)}}

\* As long as transactions do not overlap and no UPDATE sets the key to one
\* that is taken, the values of a UNIQUE column are distinct, in what is
\* committed and in what the running transaction sees.
Unique ==
  ~overlapped /\ ~repeated =>
    \A x \in {New} \cup ({xid[s] : s \in Session} \ {0}) :
      \A i, j \in Scan(x, heap.parent) :
        heap.parent[i].row[1] = heap.parent[j].row[1] => i = j

\* As long as transactions do not overlap, every reference of a committed
\* child has its committed parent: INSERT and UPDATE check it, and the ON
\* DELETE and ON UPDATE actions keep it.
NoOrphans ==
  ~overlapped /\ ~repeated =>
    \A c \in Scan(New, heap.child) :
      \/ heap.child[c].row[1] = Null
      \/ \E p \in Scan(New, heap.parent) : heap.parent[p].row[1] = heap.child[c].row[1]

\* An index scan of a new transaction finds what a table scan finds, over
\* aborts, deletes, vacuum and statements that fail halfway, as long as no
\* tuple was left out because an older one still has its key in the tree.
IndexAgrees ==
  indexed /\ ~overlapped /\ ~unindexed =>
    \A k \in Key :
      IndexScan(New, k) = {i \in Scan(New, heap.parent) : heap.parent[i].row[1] = k}

\* UNIQUE: column values must be distinct.
UniqueAlways ==
  \A i, j \in Scan(New, heap.parent) :
    heap.parent[i].row[1] = heap.parent[j].row[1] => i = j

\* The index has an entry for every committed row.
IndexComplete ==
  indexed => \A i \in Scan(New, heap.parent) : <<heap.parent[i].row[1], i>> \in btree
=============================================================================
