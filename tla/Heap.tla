-------------------------------- MODULE Heap --------------------------------
(***************************************************************************)
(* The heap file of a table: slotted pages (storage/src/page.rs), the file *)
(* of them (storage/src/heap.rs), and the tuple operations that the        *)
(* transaction manager and VACUUM build from them.  Every operation reads  *)
(* a page, changes its copy and writes the copy back; sessions have a      *)
(* HeapFile each, and nothing keeps two of them off the same page between  *)
(* the read and the write.                                                 *)
(*                                                                         *)
(* A tuple is abstracted to its header fields t_xmin and t_xmax; its       *)
(* length stays, because placement depends on it.  A session runs one      *)
(* transaction, whose XID is the session.                                  *)
(***************************************************************************)
EXTENDS Integers, Sequences, FiniteSets, FiniteSetsExt, SequencesExt

CONSTANTS
  Session,    \* transactions that use the table
  Vacuum,     \* sessions that run VACUUM
  TupleLen,   \* lengths of encoded tuples, at least TUPLE_HOFF
  PAGE_SIZE,  \* 8192 in the code
  MaxPages,   \* bound: pages of the file
  MaxInserts  \* bound: calls of insert_tuple

PAGE_HEADER_SIZE == 24
ITEM_ID_SIZE == 4
TUPLE_HOFF == 24
INVALID_XID == 0

VARIABLES
  file,       \* the pages of the heap file
  op,         \* the operation each session is in
  ended,      \* "committed" or "aborted" for each session that has ended
  locks,      \* set of <<tid, session>>: write locks of the lock manager
  inserts,    \* calls of insert_tuple so far
  rows,       \* history: the tuples as the finished operations left them
  clobbered   \* history: a page was written over a change made since its read

vars == <<file, op, ended, locks, inserts, rows, clobbered>>

-----------------------------------------------------------------------------
(* Pages.  pd_upper is kept; pd_lower follows from the number of slots. *)

NewPage == [pd_upper |-> PAGE_SIZE, items |-> <<>>]

DeadItem == [lp_off |-> 0, lp_len |-> 0, t_xmin |-> INVALID_XID,
             t_xmax |-> INVALID_XID]

IsDead(item) == item.lp_off = 0 /\ item.lp_len = 0

Dead(page) == {i \in DOMAIN page.items : IsDead(page.items[i])}

PdLower(page) == PAGE_HEADER_SIZE + ITEM_ID_SIZE * Len(page.items)

\* Mutant: the item array is taken for free space.
FreeSpaceAboveHeader(page) == Max({page.pd_upper - PAGE_HEADER_SIZE, 0})

FreeSpace(page) == Max({page.pd_upper - PdLower(page), 0})

\* Page::insert_tuple, when there is room: the next slot, never a dead one
PageInsert(page, len, xid) ==
  LET upper == page.pd_upper - len
  IN  [pd_upper |-> upper,
       items |-> Append(page.items, [lp_off |-> upper, lp_len |-> len,
                                     t_xmin |-> xid, t_xmax |-> INVALID_XID])]

\* Mutant: the slots after a dead one move up.
Compacted(page, S) ==
  LET kept == SelectSeq([i \in DOMAIN page.items |-> i], LAMBDA i : i \notin S)
  IN  [page EXCEPT !.items = [k \in DOMAIN kept |-> page.items[kept[k]]]]

\* Page::delete_tuple on every slot of S; the tuple bytes stay where they are
MarkDead(page, S) ==
  [page EXCEPT !.items = [i \in DOMAIN @ |-> IF i \in S THEN DeadItem ELSE @[i]]]

\* write_tuple_to_page: the header of a tuple is overwritten in place.
SetXmax(page, slot, xid) == [page EXCEPT !.items[slot].t_xmax = xid]

\* Tuples that get_tuple returns, with their TIDs (pages and slots from 1)
Tuples(f) ==
  {[tid |-> <<p, i>>, t_xmin |-> f[p].items[i].t_xmin,
                      t_xmax |-> f[p].items[i].t_xmax]
     : <<p, i>> \in UNION {{p} \X (DOMAIN f[p].items \ Dead(f[p])) : p \in DOMAIN f}}

-----------------------------------------------------------------------------
(* Operations *)

Idle == [pc |-> "idle"]

\* A page has been read and changed in memory; `base` is what was read, `row`
\* the tuple as the operation leaves it, or {} for VACUUM.
Prepared(page_no, base, page, row) ==
  [pc |-> "write", page_no |-> page_no, base |-> base, page |-> page, row |-> row]

Init ==
  /\ file = <<>>
  /\ op = [s \in Session \cup Vacuum |-> Idle]
  /\ ended = [s \in Session |-> "no"]
  /\ locks = {}
  /\ inserts = 0
  /\ rows = {}
  /\ clobbered = FALSE

Running(s) == op[s] = Idle /\ (s \in Session => ended[s] = "no")

Placed(s, page_no, page, len) ==
  Prepared(page_no, page, PageInsert(page, len, s),
           {[tid |-> <<page_no, Len(page.items) + 1>>, t_xmin |-> s,
             t_xmax |-> INVALID_XID]})

\* find_and_prepare_insert: the first page with room, or else a new one
FindPage(s, len) ==
  LET room == {p \in DOMAIN file : FreeSpace(file[p]) >= len + ITEM_ID_SIZE}
  IN  /\ Running(s) /\ inserts < MaxInserts
      /\ inserts' = inserts + 1
      /\ op' = [op EXCEPT ![s] =
                  IF room # {} THEN Placed(s, Min(room), file[Min(room)], len)
                  ELSE [pc |-> "allocate", page_no |-> Len(file) + 1, len |-> len]]
      /\ UNCHANGED <<file, ended, locks, rows, clobbered>>

\* allocate_page appends at the end of the file, wherever that is by now, and
\* returns the number it read before.  A tuple that fits no page is refused
\* after the page has been added.
Allocate(s) ==
  LET n == op[s].page_no
      grown == Append(file, NewPage)
  IN  /\ op[s].pc = "allocate" /\ Len(file) < MaxPages
      /\ file' = grown
      /\ op' = [op EXCEPT ![s] =
                  IF FreeSpace(grown[n]) >= op[s].len + ITEM_ID_SIZE
                  THEN Placed(s, n, grown[n], op[s].len)
                  ELSE Idle]
      /\ UNCHANGED <<ended, locks, inserts, rows, clobbered>>

\* write_page, and the operation is done.
WritePage(s) ==
  /\ op[s].pc = "write"
  /\ file' = [file EXCEPT ![op[s].page_no] = op[s].page]
  /\ clobbered' = (clobbered \/ file[op[s].page_no] # op[s].base)
  /\ rows' = IF op[s].row = {}
             THEN {r \in rows : r.tid \notin {<<op[s].page_no, i>> : i \in Dead(op[s].page)}}
             ELSE {r \in rows : \A q \in op[s].row : r.tid # q.tid} \cup op[s].row
  /\ op' = [op EXCEPT ![s] = Idle]
  /\ UNCHANGED <<ended, locks, inserts>>

Header(s, t, xid) ==
  LET p == t.tid[1]
  IN  op' = [op EXCEPT ![s] = Prepared(p, file[p], SetXmax(file[p], t.tid[2], xid),
                                       {[t EXCEPT !.t_xmax = xid]})]

\* delete_tuple, once the write lock is held; insert_tuple of the new version
\* follows it in update_tuple.
DeleteTuple(s, t) ==
  /\ Running(s)
  /\ \A l \in locks : l[1] = t.tid => l[2] = s
  /\ locks' = locks \cup {<<t.tid, s>>}
  /\ Header(s, t, s)
  /\ UNCHANGED <<file, ended, inserts, rows, clobbered>>

\* undo_insert and undo_delete leave a tuple that is not the transaction's own.
UndoInsert(s, t) ==
  /\ Running(s) /\ t.t_xmin = s
  /\ Header(s, t, s)
  /\ UNCHANGED <<file, ended, locks, inserts, rows, clobbered>>

UndoDelete(s, t) ==
  /\ Running(s) /\ t.t_xmax = s
  /\ Header(s, t, INVALID_XID)
  /\ UNCHANGED <<file, ended, locks, inserts, rows, clobbered>>

\* commit or abort: release_all
End(s, how) ==
  /\ Running(s)
  /\ ended' = [ended EXCEPT ![s] = how]
  /\ locks' = {l \in locks : l[2] # s}
  /\ UNCHANGED <<file, op, inserts, rows, clobbered>>

\* exec_vacuum on one page: the tuples whose deleter has committed
VacuumPage(v, p) ==
  LET dead == {i \in DOMAIN file[p].items :
                 /\ file[p].items[i].t_xmax # INVALID_XID
                 /\ ended[file[p].items[i].t_xmax] = "committed"}
  IN  /\ Running(v) /\ dead # {}
      /\ op' = [op EXCEPT ![v] = Prepared(p, file[p], MarkDead(file[p], dead), {})]
      /\ UNCHANGED <<file, ended, locks, inserts, rows, clobbered>>

Next ==
  \/ \E s \in Session :
       \/ \E len \in TupleLen : FindPage(s, len)
       \/ Allocate(s)
       \/ \E t \in Tuples(file) : DeleteTuple(s, t) \/ UndoInsert(s, t) \/ UndoDelete(s, t)
       \/ \E how \in {"committed", "aborted"} : End(s, how)
  \/ \E s \in Session \cup Vacuum : WritePage(s)
  \/ \E v \in Vacuum, p \in DOMAIN file : VacuumPage(v, p)

Spec == Init /\ [][Next]_vars

-----------------------------------------------------------------------------
(* Properties *)

\* Every page is laid out: no two live tuples of a page share a byte, none
\* reaches into the free space or past the page, and the item array ends
\* before the tuples begin.
PagesLaidOut ==
  \A p \in DOMAIN file :
    LET page == file[p]
        live == DOMAIN page.items \ Dead(page)
        bytes(i) == page.items[i].lp_off
                      ..page.items[i].lp_off + page.items[i].lp_len - 1
    IN  /\ PdLower(page) <= page.pd_upper
        /\ \A i \in live : bytes(i) \subseteq page.pd_upper..PAGE_SIZE - 1
        /\ \A i, j \in live : i # j => bytes(i) \cap bytes(j) = {}

\* A TID, once handed out, stays the address of its tuple: unless a page was
\* written over a change made since it was read, the tuples that get_tuple
\* returns are those the finished operations left, with their headers.
TidsStay == clobbered \/ Tuples(file) = rows

\* The same, whatever the interleaving: a finished insert, delete or undo is
\* not taken back by another session's write of the same page.
RowsSurvive == Tuples(file) = rows
=============================================================================
