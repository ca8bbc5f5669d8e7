------------------------------ MODULE MCSchema -------------------------------
(***************************************************************************)
(* What the catalog keeps of a schema and what INSERT, UPDATE and DELETE   *)
(* make of it, each part on a small instance.  A behaviour is one of the   *)
(* part it starts with; the others stay as they begin.                     *)
(***************************************************************************)
EXTENDS Catalog, TLC

VARIABLES
  part,
  sequences, seq_file, table_acls, acl_file, fk_registry, fk_file, seq_lock,
  call, calls, issued, overlap, torn,
  heap, btree, indexed, fk, status, xid, overlapped, repeated, unindexed

files_vars == <<sequences, seq_file, table_acls, acl_file, fk_registry, fk_file,
                seq_lock, call, calls, issued, overlap, torn>>
dml_vars   == <<heap, btree, indexed, fk, status, xid, overlapped, repeated,
                unindexed>>
all_vars   == <<part, vars, files_vars, dml_vars>>

-----------------------------------------------------------------------------
(* The tables of the catalog have one or two columns. *)
Layouts == {<<"a", "b">>, <<"a">>}

(* One sequence of each kind, one access list, two foreign keys *)
Files == INSTANCE CatalogFiles WITH
  Serial <- {"serial"}, Standalone <- {"seq"}, Table <- {"t"},
  Grant <- {"select", "insert"}, Oid <- {"o1", "o2"}, MaxVal <- 2, MaxCalls <- 4

ASSUME Files!FilesConstants

(* Two keys, and a CHECK constraint that one of two values meets *)
Small(v) == v < 2

Actions == {[on_delete |-> "cascade", on_update |-> "set_null"],
            [on_delete |-> "set_null", on_update |-> "cascade"],
            [on_delete |-> "restrict", on_update |-> "restrict"]}

\* The last list fails at its second row.
Parents == {<<<<1, 1>>>>, <<<<2, 1>>, <<1, 1>>>>, <<<<2, 1>>, <<2, 2>>>>}
Refs == {<<<<1>>>>, <<<<2>>>>, <<<<0>>, <<1>>>>}

Changes == INSTANCE Dml WITH
  Key <- {1, 2}, Val <- {1, 2}, Checked <- Small, FkActions <- Actions,
  ParentLists <- Parents, ChildLists <- Refs, MaxXid <- 3, MaxTuples <- 3

-----------------------------------------------------------------------------
AnyInit ==
  /\ part \in {"catalog", "files", "dml"}
  /\ Init /\ Files!Init /\ Changes!Init
  /\ part # "dml" => fk = [on_delete |-> "restrict", on_update |-> "restrict"]

TableStep ==
  /\ part = "catalog" /\ UNCHANGED <<part, files_vars, dml_vars>>
  /\ Next
FilesStep ==
  /\ part = "files" /\ UNCHANGED <<part, vars, dml_vars>>
  /\ Files!Next
DmlStep ==
  /\ part = "dml" /\ UNCHANGED <<part, vars, files_vars>>
  /\ Changes!Next

AnyNext == TableStep \/ FilesStep \/ DmlStep

AnySpec == AnyInit /\ [][AnyNext]_all_vars

\* The run does not go on after a statement that leaves the rows of the catalog
\* ambiguous, and only a little after two DDL statements that overlap.  It goes no
\* further once transactions overlap or a key is repeated, and looks at the index
\* and at the foreign key apart.
Explored ==
  /\ quirks \subseteq {"overlap"}
  /\ quirks # {} => rows <= 4 /\ heaps = {} /\ (restarts = 0 \/ registry = {})
  /\ ~overlapped /\ ~repeated
  /\ Len(heap.parent) + Len(heap.child) <= 4
  /\ indexed => heap.child = <<>>

Symmetric == Permutations(Session) \cup Permutations(Table)

-----------------------------------------------------------------------------
(* Properties *)

\* The caches agree with the rows of the catalog that a restart reads, OIDs are not
\* shared, and a stored row is read back under the columns it was written with.
CatalogAgrees == CachesMatchRows /\ OidsDistinct /\ CellsReadBack

\* What a finished call changed of a sequence, an access list or the foreign keys
\* is what a restart reads.
FilesAgree ==
  part = "files" => Files!TypeOK /\ Files!CallsOK /\ Files!CopyInv /\ Files!FilesAgree

\* A sequence gives out no value twice, over restarts, unless its file was torn.
NoValueTwice ==
  [][part = "files" =>
       \A s \in Session :
         Files!NextValWritten(s) /\ call[s].key \notin torn =>
           call[s].val \notin issued[call[s].key]]_files_vars

\* Transactions one after the other keep a UNIQUE column distinct and leave no
\* reference without its parent.
ConstraintsHold == part = "dml" => Changes!Unique /\ Changes!NoOrphans

\* An index scan finds what a table scan finds, unless a key was left out.
IndexAgrees == part = "dml" => Changes!IndexAgrees

=============================================================================
