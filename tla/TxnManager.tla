----------------------------- MODULE TxnManager -----------------------------
(***************************************************************************)
(* The transaction manager of icedb (crates/txn): XID allocation, the      *)
(* active / committed / aborted sets, snapshots and tuple visibility, the  *)
(* tuple write locks and the serializability check.                        *)
(*                                                                         *)
(* A client is a thread that drives one transaction at a time through the  *)
(* manager.  Each action is one critical section of the code (one          *)
(* acquisition of `inner`, of `committed` or of the lock table) or one     *)
(* page access; pc[c] says which section of which method comes next, so    *)
(* all interleavings of the methods are behaviours of Spec.                *)
(*                                                                         *)
(* A tuple version is a tid with a t_xmin and a t_xmax.  Every version     *)
(* sits on a page of its own, so that writes of different versions do not  *)
(* share a page image.  row[t] is the row that version t belongs to: an    *)
(* UPDATE writes a new version of the same row.                            *)
(***************************************************************************)
EXTENDS RwGraph, Integers, Sequences, FiniteSets, FiniteSetsExt

CONSTANTS
  Client,   \* threads calling the manager
  Level,    \* isolation levels the clients ask for at BEGIN
  SetLevel, \* isolation levels they ask for with SET TRANSACTION
  MaxXid,   \* bound: the last XID NEXT_XID hands out
  MaxTid,   \* bound: versions the heap can hold
  Loaded    \* rows a first, committed transaction put into the heap

RC  == "ReadCommitted"
RR  == "RepeatableRead"
SER == "Serializable"

INVALID_XID == 0
FirstXid    == 3               \* where NEXT_XID starts
Xid         == FirstXid..MaxXid
Tid         == 1..MaxTid
NoTid       == 0
Loader      == FirstXid        \* the transaction that inserted the first rows

ASSUME TxnAssumption ==
  /\ Level \subseteq {RC, RR, SER} /\ SetLevel \subseteq {RC, RR, SER}
  /\ MaxXid \in Nat /\ MaxXid >= FirstXid
  /\ MaxTid \in Nat
  /\ Loaded \in 0..MaxTid

VARIABLES
  NEXT_XID,    \* the global atomic counter of xid.rs
  next_xid,    \* TxnManagerInner.next_xid, the xmax of the next snapshot
  active,      \* XIDs in inner.active
  aborted,     \* inner.aborted
  committed,   \* the committed set, behind a lock of its own
  isolation,   \* Transaction.isolation, per XID
  snapshot,    \* Transaction.snapshot, per XID
  read_set,    \* Transaction.read_set, per XID
  write_set,   \* Transaction.write_set, per XID
  write_locks, \* LockState.write_locks: the holder of each tid, or 0
  npages,      \* versions in the heap: 1..npages
  t_xmin,      \* inserting XID of each version
  t_xmax,      \* deleting XID of each version, or 0
  row,         \* row of each version
  durable,     \* XIDs whose Commit record has been appended and flushed
  pc,          \* next critical section of each client
  xid,         \* transaction of each client, or 0
  view,        \* snapshot of the running scan
  cursor,      \* next page of the running scan
  limit,       \* num_pages() when the scan started
  seen,        \* versions the statement's scan returned, not yet written
  target,      \* version being deleted or updated
  undo_log     \* the session's undo entries, oldest first

mgr    == <<NEXT_XID, next_xid, active, aborted, committed>>
txns   == <<isolation, snapshot, read_set, write_set>>
heap   == <<npages, t_xmin, t_xmax, row>>
scan   == <<view, cursor, limit, seen>>
vars   == <<mgr, txns, heap, scan, write_locks, durable, pc, xid, target, undo_log>>

-----------------------------------------------------------------------------
(* Snapshots and visibility *)

NoSnapshot == [xmin |-> 0, xmax |-> 0, in_progress |-> {}]
Snapshot   == [xmin : 0..MaxXid + 1, xmax : 0..MaxXid + 1,
               in_progress : SUBSET Xid]

\* Snapshot::xid_is_visible
XidIsVisible(s, x) ==
  /\ x # INVALID_XID
  /\ \/ x < s.xmin
     \/ x < s.xmax /\ x \notin s.in_progress

\* is_tuple_visible
IsTupleVisible(t, s) ==
  /\ t_xmin[t] \in committed /\ XidIsVisible(s, t_xmin[t])
  /\ ~(t_xmax[t] \in committed /\ XidIsVisible(s, t_xmax[t]))

\* Mutant: an uncommitted inserter is taken for a committed one.
VisibleDirty(t, x, s) ==
  t_xmax[t] # x /\ (t_xmin[t] = x \/ XidIsVisible(s, t_xmin[t]))

\* The test of scan_visible_tuples: own versions, own deletes, then MVCC.
Visible(t, x, s) ==
  t_xmax[t] # x /\ (t_xmin[t] = x \/ IsTupleVisible(t, s))

\* Mutant: xmin is next_xid although other transactions are active.
TakeSnapshotNoMin(x, next) ==
  [xmin |-> next, xmax |-> next, in_progress |-> active]

\* take_snapshot_inner for transaction x when inner.next_xid is `next'
TakeSnapshot(x, next) ==
  LET others == active \ {x}
  IN  [xmin        |-> IF others = {} THEN next ELSE Min(others),
       xmax        |-> next,
       in_progress |-> active]

\* current_snapshot: the stored one, or a fresh one for each statement
CurrentSnapshot(x) ==
  IF isolation[x] \in {RR, SER} /\ snapshot[x] # NoSnapshot
  THEN snapshot[x]
  ELSE TakeSnapshot(x, next_xid)

-----------------------------------------------------------------------------
Init ==
  /\ NEXT_XID = FirstXid + 1 /\ next_xid = FirstXid + 1
  /\ active = {} /\ aborted = {} /\ committed = {Loader}
  /\ isolation = [x \in Xid |-> RC]
  /\ snapshot = [x \in Xid |-> NoSnapshot]
  /\ read_set = [x \in Xid |-> {}] /\ write_set = [x \in Xid |-> {}]
  /\ write_locks = [t \in Tid |-> 0]
  /\ npages = Loaded
  /\ t_xmin = [t \in Tid |-> IF t <= Loaded THEN Loader ELSE INVALID_XID]
  /\ t_xmax = [t \in Tid |-> INVALID_XID]
  /\ row = [t \in Tid |-> t]
  /\ durable = {Loader}
  /\ pc = [c \in Client |-> "idle"]
  /\ xid = [c \in Client |-> 0]
  /\ view = [c \in Client |-> NoSnapshot]
  /\ cursor = [c \in Client |-> 0] /\ limit = [c \in Client |-> 0]
  /\ seen = [c \in Client |-> {}]
  /\ target = [c \in Client |-> NoTid]
  /\ undo_log = [c \in Client |-> << >>]

Goto(c, l) == pc' = [pc EXCEPT ![c] = l]

\* A tracked write goes through the lock section that fills write_set.
GotoOrNote(c, note, l) ==
  Goto(c, IF isolation[xid[c]] = SER THEN note ELSE l)

-----------------------------------------------------------------------------
(* begin: the XID is allocated before `inner` is locked *)

\* Mutant: the counter is read and not advanced.
ReadOnly(next) == next

\* fetch_add(1)
FetchAdd(next) == next + 1

AllocateXid(c) ==
  /\ pc[c] = "idle"
  /\ NEXT_XID <= MaxXid
  /\ NEXT_XID' = FetchAdd(NEXT_XID)
  /\ xid' = [xid EXCEPT ![c] = NEXT_XID]
  /\ Goto(c, "begin")
  /\ UNCHANGED <<next_xid, active, aborted, committed, txns, heap, scan,
                 write_locks, durable, target, undo_log>>

\* The snapshot of RR and SER is taken after next_xid is set to xid + 1 and
\* before the transaction joins `active`.
Register(c, level) ==
  LET x == xid[c]
  IN  /\ pc[c] = "begin"
      /\ next_xid' = x + 1
      /\ isolation' = [isolation EXCEPT ![x] = level]
      /\ snapshot' = [snapshot EXCEPT ![x] =
           IF level = RC THEN NoSnapshot ELSE TakeSnapshot(x, x + 1)]
      /\ active' = active \cup {x}
      /\ Goto(c, "open")
      /\ UNCHANGED <<NEXT_XID, aborted, committed, read_set, write_set, heap,
                     scan, write_locks, durable, xid, target, undo_log>>

\* set_isolation_level: the level changes in one section, the snapshot that
\* a level change from RC needs is taken in a later one (and stored in a third,
\* which only the transaction's own client could tell from the second).
SetIsolation(c, level) ==
  LET x == xid[c]
  IN  /\ pc[c] = "open"
      /\ isolation' = [isolation EXCEPT ![x] = level]
      /\ Goto(c, IF level # RC /\ snapshot[x] = NoSnapshot
                 THEN "set_snapshot" ELSE "open")
      /\ UNCHANGED <<mgr, snapshot, read_set, write_set, heap, scan,
                     write_locks, durable, xid, target, undo_log>>

SetSnapshot(c) ==
  /\ pc[c] = "set_snapshot"
  /\ snapshot' = [snapshot EXCEPT ![xid[c]] = TakeSnapshot(xid[c], next_xid)]
  /\ Goto(c, "open")
  /\ UNCHANGED <<mgr, isolation, read_set, write_set, heap, scan,
                 write_locks, durable, xid, target, undo_log>>

-----------------------------------------------------------------------------
(* scan_visible_tuples: the committed lock is shared by the scans and held *)
(* from the first page to the last                                         *)

\* Mutant: the shared lock is kept to the end of the statement.
ReadersOfStatement == {c \in Client : pc[c] \in {"scan", "note_reads", "stmt"}}

Readers == {c \in Client : pc[c] = "scan"}

StartScan(c) ==
  /\ pc[c] = "open"
  /\ view' = [view EXCEPT ![c] = CurrentSnapshot(xid[c])]
  /\ Goto(c, "snapped")
  /\ UNCHANGED <<mgr, txns, heap, cursor, limit, seen, write_locks, durable,
                 xid, target, undo_log>>

LockCommitted(c) ==
  /\ pc[c] = "snapped"
  /\ cursor' = [cursor EXCEPT ![c] = 1]
  /\ limit' = [limit EXCEPT ![c] = npages]
  /\ seen' = [seen EXCEPT ![c] = {}]
  /\ Goto(c, "scan")
  /\ UNCHANGED <<mgr, txns, heap, view, write_locks, durable, xid, target,
                 undo_log>>

ScanPage(c) ==
  LET t == cursor[c]
  IN  /\ pc[c] = "scan" /\ t <= limit[c]
      /\ seen' = [seen EXCEPT ![c] =
           IF Visible(t, xid[c], view[c]) THEN @ \cup {t} ELSE @]
      /\ cursor' = [cursor EXCEPT ![c] = t + 1]
      /\ UNCHANGED <<mgr, txns, heap, view, limit, write_locks, durable, pc,
                     xid, target, undo_log>>

UnlockCommitted(c) ==
  /\ pc[c] = "scan" /\ cursor[c] > limit[c]
  /\ GotoOrNote(c, "note_reads", "stmt")
  /\ UNCHANGED <<mgr, txns, heap, scan, write_locks, durable, xid, target,
                 undo_log>>

NoteReads(c) ==
  /\ pc[c] = "note_reads"
  /\ read_set' = [read_set EXCEPT ![xid[c]] = @ \cup seen[c]]
  /\ Goto(c, "stmt")
  /\ UNCHANGED <<mgr, isolation, snapshot, write_set, heap, scan, write_locks,
                 durable, xid, target, undo_log>>

\* The statement is over: a SELECT, or an UPDATE or DELETE that has handled
\* all the versions its WHERE clause selected among the visible ones.
EndStatement(c) ==
  /\ pc[c] = "stmt"
  /\ seen' = [seen EXCEPT ![c] = {}]
  /\ view' = [view EXCEPT ![c] = NoSnapshot]
  /\ cursor' = [cursor EXCEPT ![c] = 0] /\ limit' = [limit EXCEPT ![c] = 0]
  /\ Goto(c, "open")
  /\ UNCHANGED <<mgr, txns, heap, write_locks, durable, xid, target, undo_log>>

-----------------------------------------------------------------------------
(* delete_tuple, insert_tuple, update_tuple *)

\* Mutants: another transaction's lock is taken over; the lock is tested for
\* and not recorded.
GrantableAlways(t, x) == TRUE
NotGranted(t, x) == write_locks

\* acquire_write_lock grants a free or an own lock
Grantable(t, x) == write_locks[t] \in {0, x}
Granted(t, x)   == [write_locks EXCEPT ![t] = x]

AcquireWriteLock(c, t) ==
  /\ pc[c] = "stmt" /\ t \in seen[c]
  /\ Grantable(t, xid[c])
  /\ write_locks' = Granted(t, xid[c])
  /\ target' = [target EXCEPT ![c] = t]
  /\ seen' = [seen EXCEPT ![c] = @ \ {t}]
  /\ Goto(c, "delete")
  /\ UNCHANGED <<mgr, txns, heap, view, cursor, limit, durable, xid, undo_log>>

\* ... and refuses any other: the statement fails with WriteWriteConflict and
\* the engine aborts the transaction.
WriteWriteConflict(c, t) ==
  /\ pc[c] = "stmt" /\ t \in seen[c]
  /\ ~Grantable(t, xid[c])
  /\ Goto(c, "abort")
  /\ UNCHANGED <<mgr, txns, heap, scan, write_locks, durable, xid, target,
                 undo_log>>

\* t_xmax is overwritten whatever it holds.
SetXmax(c) ==
  LET t == target[c]
  IN  /\ pc[c] = "delete"
      /\ t_xmax' = [t_xmax EXCEPT ![t] = xid[c]]
      /\ undo_log' = [undo_log EXCEPT ![c] = Append(@, [op |-> "Delete", tid |-> t])]
      /\ GotoOrNote(c, "note_delete", "deleted")
      /\ UNCHANGED <<mgr, txns, npages, t_xmin, row, scan, write_locks,
                     durable, xid, target>>

NoteDelete(c) ==
  /\ pc[c] = "note_delete"
  /\ write_set' = [write_set EXCEPT ![xid[c]] = @ \cup {target[c]}]
  /\ Goto(c, "deleted")
  /\ UNCHANGED <<mgr, isolation, snapshot, read_set, heap, scan, write_locks,
                 durable, xid, target, undo_log>>

\* A DELETE goes on with the next version it selected.
FinishDelete(c) ==
  /\ pc[c] = "deleted"
  /\ target' = [target EXCEPT ![c] = NoTid]
  /\ Goto(c, "stmt")
  /\ UNCHANGED <<mgr, txns, heap, scan, write_locks, durable, xid, undo_log>>

\* insert_tuple writes a version of row r on the next page.
InsertVersion(c, r) ==
  LET t == npages + 1
  IN  /\ npages < MaxTid
      /\ npages' = t
      /\ t_xmin' = [t_xmin EXCEPT ![t] = xid[c]]
      /\ t_xmax' = [t_xmax EXCEPT ![t] = INVALID_XID]
      /\ row' = [row EXCEPT ![t] = r]
      /\ undo_log' = [undo_log EXCEPT ![c] = Append(@, [op |-> "Insert", tid |-> t])]
      /\ target' = [target EXCEPT ![c] = t]

\* INSERT: the version starts a row of its own.
InsertTuple(c) ==
  /\ pc[c] = "open"
  /\ InsertVersion(c, npages + 1)
  /\ GotoOrNote(c, "note_insert", "inserted")
  /\ UNCHANGED <<mgr, txns, scan, write_locks, durable, xid>>

\* The insert of update_tuple: a new version of the row just deleted from.
UpdateTuple(c) ==
  /\ pc[c] = "deleted"
  /\ InsertVersion(c, row[target[c]])
  /\ GotoOrNote(c, "note_insert", "inserted")
  /\ UNCHANGED <<mgr, txns, scan, write_locks, durable, xid>>

NoteInsert(c) ==
  /\ pc[c] = "note_insert"
  /\ write_set' = [write_set EXCEPT ![xid[c]] = @ \cup {target[c]}]
  /\ Goto(c, "inserted")
  /\ UNCHANGED <<mgr, isolation, snapshot, read_set, heap, scan, write_locks,
                 durable, xid, target, undo_log>>

\* Back to the statement's loop; an INSERT has no scanned versions left.
FinishInsert(c) ==
  /\ pc[c] = "inserted"
  /\ target' = [target EXCEPT ![c] = NoTid]
  /\ Goto(c, "stmt")
  /\ UNCHANGED <<mgr, txns, heap, scan, write_locks, durable, xid, undo_log>>

-----------------------------------------------------------------------------
(* ROLLBACK TO SAVEPOINT undoes the newest entries of the undo log one by  *)
(* one: undo_delete and undo_insert touch only the transaction's own marks *)

UndoLast(c) ==
  LET e == undo_log[c][Len(undo_log[c])]
      x == xid[c]
  IN  /\ pc[c] = "open" /\ undo_log[c] # << >>
      /\ undo_log' = [undo_log EXCEPT ![c] = SubSeq(@, 1, Len(@) - 1)]
      /\ t_xmax' = [t_xmax EXCEPT ![e.tid] =
           CASE e.op = "Delete" -> IF @ = x THEN INVALID_XID ELSE @
             [] e.op = "Insert" -> IF t_xmin[e.tid] = x THEN x ELSE @]
      /\ UNCHANGED <<mgr, txns, npages, t_xmin, row, scan, write_locks,
                     durable, pc, xid, target>>

-----------------------------------------------------------------------------
(* check_serializable_conflict and commit *)

SerActive == {x \in active : isolation[x] = SER}

\* Edge a -> b: b wrote something a read
RwEdge(a, b) == a # b /\ read_set[a] \cap write_set[b] # {}

\* Mutant: only cycles of the transaction with itself are looked for.
HasCycleSelf(x) == RwEdge(x, x)

\* has_cycle on the graph built from all active Serializable transactions
HasCycle(x) ==
  CycleFrom(x, SerActive, {e \in SerActive \X SerActive : RwEdge(e[1], e[2])})

SerializableConflict(x) ==
  /\ isolation[x] = SER
  /\ write_set[x] # {} /\ read_set[x] # {}
  /\ HasCycle(x)

\* Mutant: the Commit record is not written.
NoLog == "leave_active"

\* What follows a check that found no conflict
AfterCheck == "log_commit"

CommitCheck(c) ==
  /\ pc[c] = "open"
  /\ ~SerializableConflict(xid[c])
  /\ Goto(c, AfterCheck)
  /\ UNCHANGED <<mgr, txns, heap, scan, write_locks, durable, xid, target,
                 undo_log>>

\* commit returns SerializationFailure with the transaction still in `active'.
\* The session has already forgotten it, so nobody aborts it.
SerializationFailure(c) ==
  /\ pc[c] = "open"
  /\ SerializableConflict(xid[c])
  /\ xid' = [xid EXCEPT ![c] = 0]
  /\ undo_log' = [undo_log EXCEPT ![c] = << >>]
  /\ Goto(c, "idle")
  /\ UNCHANGED <<mgr, txns, heap, scan, write_locks, durable, target>>

\* append_and_flush(Commit)
LogCommit(c) ==
  /\ pc[c] = "log_commit"
  /\ durable' = durable \cup {xid[c]}
  /\ Goto(c, "leave_active")
  /\ UNCHANGED <<mgr, txns, heap, scan, write_locks, xid, target, undo_log>>

\* Mutant: the entry is not removed.
Kept(x) == active

Removed(x) == active \ {x}

\* active.remove drops the Transaction.  Its read_set is kept, for NoWriteSkew
\* to refer to; no action looks at it again.
DropTransaction(x) ==
  /\ active' = Removed(x)
  /\ isolation' = [isolation EXCEPT ![x] = RC]
  /\ snapshot' = [snapshot EXCEPT ![x] = NoSnapshot]
  /\ write_set' = [write_set EXCEPT ![x] = {}]
  /\ UNCHANGED read_set

LeaveActive(c) ==
  /\ pc[c] = "leave_active"
  /\ DropTransaction(xid[c])
  /\ Goto(c, "publish")
  /\ UNCHANGED <<NEXT_XID, next_xid, aborted, committed, heap, scan,
                 write_locks, durable, xid, target, undo_log>>

\* committed.write() waits for the scans that hold the lock.
PublishCommit(c) ==
  /\ pc[c] = "publish"
  /\ Readers = {}
  /\ committed' = committed \cup {xid[c]}
  /\ Goto(c, "release")
  /\ UNCHANGED <<NEXT_XID, next_xid, active, aborted, txns, heap, scan,
                 write_locks, durable, xid, target, undo_log>>

\* Mutants: the locks are forgotten about; only a commit releases them.
ReleasedNone(x) == write_locks
ReleasedIfCommitted(x) ==
  [t \in Tid |-> IF write_locks[t] = x /\ x \in committed THEN 0 ELSE write_locks[t]]

Released(x) == [t \in Tid |-> IF write_locks[t] = x THEN 0 ELSE write_locks[t]]

\* release_all, the last step of commit and of abort
ReleaseAll(c) ==
  /\ pc[c] = "release"
  /\ write_locks' = Released(xid[c])
  /\ xid' = [xid EXCEPT ![c] = 0]
  /\ undo_log' = [undo_log EXCEPT ![c] = << >>]
  /\ Goto(c, "idle")
  /\ UNCHANGED <<mgr, txns, heap, scan, durable, target>>

-----------------------------------------------------------------------------
(* abort: asked for by the client, or by the engine after a statement that *)
(* failed: on a lock, on a constraint of a row, or on the insert half of   *)
(* update_tuple, with the old version already marked                       *)

AskAbort(c) ==
  /\ pc[c] \in {"open", "stmt", "deleted"}
  /\ Goto(c, "abort")
  /\ UNCHANGED <<mgr, txns, heap, scan, write_locks, durable, xid, target,
                 undo_log>>

Abort(c) ==
  /\ pc[c] = "abort"
  /\ DropTransaction(xid[c])
  /\ aborted' = aborted \cup {xid[c]}
  /\ view' = [view EXCEPT ![c] = NoSnapshot]
  /\ cursor' = [cursor EXCEPT ![c] = 0] /\ limit' = [limit EXCEPT ![c] = 0]
  /\ seen' = [seen EXCEPT ![c] = {}]
  /\ target' = [target EXCEPT ![c] = NoTid]
  /\ Goto(c, "release")
  /\ UNCHANGED <<NEXT_XID, next_xid, committed, heap, write_locks, durable,
                 xid, undo_log>>

-----------------------------------------------------------------------------
Begin(c)  == AllocateXid(c) \/ \E l \in Level : Register(c, l)
Scan(c)   == \/ StartScan(c) \/ LockCommitted(c) \/ ScanPage(c)
             \/ UnlockCommitted(c) \/ NoteReads(c) \/ EndStatement(c)
Write(c)  == \/ \E t \in Tid : AcquireWriteLock(c, t) \/ WriteWriteConflict(c, t)
             \/ SetXmax(c) \/ NoteDelete(c) \/ FinishDelete(c)
             \/ InsertTuple(c) \/ UpdateTuple(c)
             \/ NoteInsert(c) \/ FinishInsert(c)
Commit(c) == \/ CommitCheck(c) \/ SerializationFailure(c) \/ LogCommit(c)
             \/ LeaveActive(c) \/ PublishCommit(c)

Step(c) == \/ Begin(c) \/ Scan(c) \/ Write(c) \/ Commit(c)
           \/ (\E l \in SetLevel : SetIsolation(c, l)) \/ SetSnapshot(c)
           \/ UndoLast(c) \/ AskAbort(c) \/ Abort(c) \/ ReleaseAll(c)

\* No XID is left and every client is done.
Finished ==
  /\ NEXT_XID > MaxXid /\ \A c \in Client : pc[c] = "idle"
  /\ UNCHANGED vars

Next == Finished \/ \E c \in Client : Step(c)

Spec == Init /\ [][Next]_vars

-----------------------------------------------------------------------------
(* Properties *)

Label == {"idle", "begin", "open", "set_snapshot", "snapped", "scan",
          "note_reads", "stmt", "delete", "note_delete", "deleted",
          "note_insert", "inserted", "log_commit", "leave_active", "publish",
          "abort", "release"}

UndoEntry == [op : {"Insert", "Delete"}, tid : Tid]

MgrTypeOK ==
  /\ NEXT_XID \in FirstXid..MaxXid + 1 /\ next_xid \in FirstXid..MaxXid + 1
  /\ active \subseteq Xid /\ aborted \subseteq Xid /\ committed \subseteq Xid
  /\ durable \subseteq Xid

TxnsTypeOK ==
  /\ isolation \in [Xid -> {RC, RR, SER}]
  /\ snapshot \in [Xid -> Snapshot]
  /\ read_set \in [Xid -> SUBSET Tid] /\ write_set \in [Xid -> SUBSET Tid]
  /\ write_locks \in [Tid -> Xid \cup {0}]

HeapTypeOK ==
  /\ npages \in 0..MaxTid
  /\ t_xmin \in [Tid -> Xid \cup {INVALID_XID}]
  /\ t_xmax \in [Tid -> Xid \cup {INVALID_XID}]
  /\ row \in [Tid -> Tid]

ScanTypeOK ==
  /\ view \in [Client -> Snapshot]
  /\ cursor \in [Client -> 0..MaxTid + 1] /\ limit \in [Client -> 0..MaxTid]
  /\ seen \in [Client -> SUBSET Tid]

ClientTypeOK ==
  /\ pc \in [Client -> Label]
  /\ xid \in [Client -> Xid \cup {0}]
  /\ target \in [Client -> Tid \cup {NoTid}]
  /\ undo_log \in [Client -> Seq(UndoEntry)]

\* Every variable holds a value of its Rust type, and the counters stay in
\* their bounds.
TypeOK == MgrTypeOK /\ TxnsTypeOK /\ HeapTypeOK /\ ScanTypeOK /\ ClientTypeOK

\* A transaction has one fate: commit and abort, which look at `active' in a
\* section of their own before they act, never both take effect on an XID,
\* and a finished XID does not become active again.
OneOutcome ==
  /\ active \cap committed = {} /\ active \cap aborted = {}
  /\ committed \cap aborted = {}

\* No other transaction sees an XID as committed before its Commit record is
\* durable (commit logs first, then publishes), and no aborted transaction
\* leaves a durable Commit record for recovery to find.
CommitIsLogged == committed \subseteq durable /\ aborted \cap durable = {}

\* A version that an unfinished transaction has marked deleted is locked by
\* it, unless it inserted the version itself (undo_insert takes no lock).
DeleterHoldsLock ==
  \A t \in Tid : t_xmax[t] \in active /\ t_xmin[t] # t_xmax[t]
                  => write_locks[t] = t_xmax[t]

\* Write locks are never left behind by a transaction that has finished: the
\* holder is active or on its way through commit or abort.
LockHolderUnfinished ==
  \A t \in Tid : write_locks[t] # 0 =>
    \/ write_locks[t] \in active
    \/ \E c \in Client : xid[c] = write_locks[t] /\ pc[c] \in {"publish", "release"}

\* Dirty read (G1a, G1b): what a statement's scan returned was inserted by
\* its own transaction or by a committed one.
NoDirtyRead ==
  \A c \in Client : \A t \in seen[c] :
    t_xmin[t] = xid[c] \/ t_xmin[t] \in committed

\* A transaction that was active when a stored snapshot was taken is hidden
\* by it for good: the xmin shortcut of xid_is_visible never overrides the
\* in_progress set.
SnapshotHidesConcurrent ==
  \A x \in active : \A y \in snapshot[x].in_progress \ {x} :
    ~XidIsVisible(snapshot[x], y)

\* The Serializable transactions whose commit has got past its check.
Passed ==
  {x \in SerActive :
     \E c \in Client : xid[c] = x /\ pc[c] \in {"log_commit", "leave_active"}}

\* Serializable transactions that have passed the check of commit and are
\* still active have no cycle of rw edges among them: whichever was checked
\* last saw the others and their complete read and write sets.
NoCommittingCycle ==
  ~\E S \in SUBSET Passed :
     S # {} /\ \A a \in S : \E b \in S : RwEdge(a, b)

\* Dirty write (G0): the deletion mark of an unfinished transaction is only
\* ever changed by that transaction.
NoDirtyWrite ==
  [][\A t \in Tid : t_xmax[t] \in active /\ t_xmax'[t] # t_xmax[t] =>
       \E c \in Client : xid[c] = t_xmax[t] /\ pc[c] = "open"]_vars

-----------------------------------------------------------------------------
(* The inductive invariant behind the safety properties *)

Running     == Label \ {"idle", "begin", "publish", "release"}
InStatement == {"scan", "note_reads", "stmt", "delete", "note_delete", "deleted",
                "note_insert", "inserted", "abort"}

\* x has left no trace.
Fresh(x) ==
  /\ x \notin active \cup committed \cup aborted \cup durable
  /\ \A t \in Tid : t_xmin[t] # x /\ t_xmax[t] # x /\ write_locks[t] # x

\* XIDs are handed out once: two clients never work for the same one, and
\* one that is not registered yet has left no trace.
XidInv ==
  /\ \A x \in Xid : x >= NEXT_XID => Fresh(x)
  /\ \A c \in Client : pc[c] = "begin" => Fresh(xid[c])
  /\ \A c \in Client : xid[c] < NEXT_XID
  /\ \A c, d \in Client : xid[c] = xid[d] /\ xid[c] # 0 => c = d

\* Where a client is says in which set its transaction is.
ClientInv ==
  \A c \in Client :
    /\ pc[c] = "idle" <=> xid[c] = 0
    /\ pc[c] \in Running => xid[c] \in active
    /\ pc[c] \in Running \ {"leave_active"} => xid[c] \notin durable
    /\ pc[c] \in {"leave_active", "publish"} => xid[c] \in durable
    /\ pc[c] = "publish" => xid[c] \notin active \cup committed \cup aborted
    /\ pc[c] = "release" => xid[c] \in committed \cup aborted

\* Scans stay inside the heap, and what is read, locked or deleted was
\* visible when the statement's scan met it.
ScanInv ==
  \A c \in Client :
    /\ seen[c] \subseteq 1..npages
    /\ limit[c] <= npages
    /\ pc[c] \notin InStatement => seen[c] = {}
    /\ pc[c] = "scan" => cursor[c] >= 1
    /\ pc[c] \in {"delete", "note_delete", "deleted", "note_insert"}
         => target[c] \in 1..npages
    /\ pc[c] = "delete" =>
         /\ write_locks[target[c]] = xid[c]
         /\ t_xmin[target[c]] \in committed \cup {xid[c]}

\* Pages past the end are empty, and a version that an unfinished transaction
\* inserted is marked deleted by nobody else.
HeapInv ==
  /\ \A t \in Tid : t > npages => t_xmin[t] = INVALID_XID /\ t_xmax[t] = INVALID_XID
  /\ \A t \in Tid : t_xmin[t] \in active => t_xmax[t] \in {INVALID_XID, t_xmin[t]}

\* All of it: holds initially, is kept by every step, and implies the rest.
IInv ==
  /\ TypeOK /\ XidInv /\ ClientInv /\ OneOutcome /\ CommitIsLogged
  /\ ScanInv /\ NoDirtyRead /\ HeapInv /\ DeleterHoldsLock
  /\ LockHolderUnfinished

-----------------------------------------------------------------------------
(* Liveness.  Every thread inside a method goes on to its end; the client  *)
(* may leave a transaction open for ever.  parking_lot queues the writers  *)
(* of `committed' ahead of new readers, hence strong fairness there.       *)

InMethod(c) ==
  \/ \E l \in Level : Register(c, l)
  \/ SetSnapshot(c) \/ LockCommitted(c) \/ ScanPage(c) \/ UnlockCommitted(c)
  \/ NoteReads(c) \/ SetXmax(c) \/ NoteDelete(c) \/ NoteInsert(c)
  \/ LogCommit(c) \/ LeaveActive(c) \/ Abort(c) \/ ReleaseAll(c)

FairSpec ==
  Spec /\ \A c \in Client : WF_vars(InMethod(c)) /\ SF_vars(PublishCommit(c))

\* A commit whose check has passed ends, with its locks released, however
\* many scans other clients run: they share `committed' and may overlap.
CommitReturns ==
  \A c \in Client : pc[c] = "log_commit" ~> pc[c] = "idle"

\* A lock is released once its holder has committed or aborted.
LocksComeFree ==
  \A x \in Xid : x \in committed \cup aborted
                  ~> \A t \in Tid : write_locks[t] # x

-----------------------------------------------------------------------------
(* What the documentation and the tests promise and the code does not keep *)

\* "the fixed snapshot does not include rows committed after BEGIN": no
\* transaction becomes visible in a snapshot that already exists.
SnapshotFixed ==
  [][\A x \in active : \A y \in committed' \ committed :
       snapshot[x] # NoSnapshot => ~XidIsVisible(snapshot[x], y)]_vars

\* "Write-write conflict: exactly one transaction wins": a row has at most
\* one version that is committed and not deleted by a committed transaction.
OneLiveVersion ==
  \A t, u \in 1..npages :
    /\ row[t] = row[u]
    /\ {t_xmin[t], t_xmin[u]} \subseteq committed
    /\ {t_xmax[t], t_xmax[u]} \cap committed = {}
    => t = u

\* "write skew (G2-item) must be prevented": of two committed Serializable
\* transactions, not each has deleted a version that the other one read.
NoWriteSkew ==
  \A x, y \in committed :
    ~ /\ \E t \in read_set[x] : t_xmax[t] = y
      /\ \E t \in read_set[y] : t_xmax[t] = x
      /\ x # y

\* "Locks are released on commit or abort": a lock is held for a client that
\* can still release it.
LockHasClient ==
  \A t \in Tid : write_locks[t] # 0 => \E c \in Client : xid[c] = write_locks[t]

=============================================================================
