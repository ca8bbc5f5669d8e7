------------------------------ MODULE TxnSteps ------------------------------
(***************************************************************************)
(* What a step of TxnManager can change and what it leaves alone: the      *)
(* facts that the proofs of its invariants share.                          *)
(***************************************************************************)
EXTENDS TxnManager, TLAPS, WellFoundedInduction

-----------------------------------------------------------------------------
(* Facts about the operators *)

\* A set of XIDs that is not empty has a least element, which Min picks.
LEMMA MinOfXids ==
  ASSUME NEW S \in SUBSET Xid, S # {}
  PROVE  Min(S) \in S /\ \A y \in S : Min(S) <= y
<1> DEFINE R == {ss \in Nat \X Nat : ss[1] < ss[2]}
<1>1. S \subseteq Nat
  BY DEF Xid, FirstXid
<1>2. IsWellFoundedOn(R, Nat)
  <2>1. R = OpToRel(<, Nat)
    BY Zenon DEF OpToRel
  <2> QED
    BY <2>1, NatLessThanWellFounded, Zenon
<1> HIDE DEF R
<1>3. PICK m \in S : \A y \in S : ~(<<y, m>> \in R)
  BY Zenon, <1>1, <1>2, WFMin
<1>4. ASSUME NEW y \in S PROVE m <= y
  <2>1. m \in Nat /\ y \in Nat /\ ~(<<y, m>> \in R)
    BY <1>1, <1>3
  <2>2. m \in Nat /\ y \in Nat /\ ~(y < m)
    BY <2>1 DEF R
  <2> QED
    BY <2>2
<1> QED
  BY <1>4 DEF Min

\* take_snapshot_inner returns a snapshot that hides every active transaction
\* but the one it is taken for.
LEMMA SnapshotTaken ==
  ASSUME TypeOK, NEW x \in Xid, NEW next \in FirstXid..MaxXid + 1
  PROVE  /\ TakeSnapshot(x, next) \in Snapshot
         /\ \A y \in active \ {x} : ~XidIsVisible(TakeSnapshot(x, next), y)
<1> DEFINE others == active \ {x}
<1>1. others \in SUBSET Xid
  BY DEF TypeOK, MgrTypeOK
<1>2. CASE others = {}
  BY <1>2, TxnAssumption DEF TypeOK, MgrTypeOK, TakeSnapshot, Snapshot, FirstXid
<1>3. CASE others # {}
  <2>1. Min(others) \in others /\ \A y \in others : Min(others) <= y
    BY <1>1, <1>3, MinOfXids
  <2>2. TakeSnapshot(x, next)
          = [xmin |-> Min(others), xmax |-> next, in_progress |-> active]
    BY <1>3 DEF TakeSnapshot
  <2>3. TakeSnapshot(x, next) \in Snapshot
    <3>1. Min(others) \in 0..MaxXid + 1 /\ next \in 0..MaxXid + 1
      BY <1>1, <2>1, TxnAssumption DEF Xid, FirstXid
    <3>2. active \in SUBSET Xid
      BY DEF TypeOK, MgrTypeOK
    <3> HIDE DEF others
    <3> QED
      BY <2>2, <3>1, <3>2 DEF Snapshot
  <2>4. ASSUME NEW y \in others PROVE ~XidIsVisible(TakeSnapshot(x, next), y)
    <3>1. y \in Int /\ Min(others) \in Int /\ Min(others) <= y /\ y \in active
      BY <1>1, <2>1 DEF Xid, FirstXid
    <3> HIDE DEF others
    <3> QED
      BY <2>2, <3>1 DEF XidIsVisible
  <2> QED
    BY <2>3, <2>4
<1> QED
  BY <1>2, <1>3

\* A client that is not idle works for an XID.
LEMMA XidOfClient ==
  ASSUME TypeOK, ClientInv, NEW c \in Client, pc[c] # "idle"
  PROVE  xid[c] \in Xid
  BY DEF TypeOK, ClientTypeOK, ClientInv

\* Undoing an entry clears an own deletion mark or puts one on an own version.
LEMMA UndoEffect ==
  ASSUME TypeOK, NEW c \in Client, UndoLast(c), NEW t \in Tid
  PROVE  \/ t_xmax'[t] = t_xmax[t]
         \/ t_xmax[t] = xid[c] /\ t_xmax'[t] = INVALID_XID
         \/ t_xmin[t] = xid[c] /\ t_xmax'[t] = xid[c]
<1> DEFINE e == undo_log[c][Len(undo_log[c])]
<1>1. e \in UndoEntry
  BY DEF UndoLast, TypeOK, ClientTypeOK
<1>2. e.op \in {"Insert", "Delete"}
  BY <1>1 DEF UndoEntry
<1>3. t_xmax' = [t_xmax EXCEPT ![e.tid] =
         CASE e.op = "Delete" -> IF @ = xid[c] THEN INVALID_XID ELSE @
           [] e.op = "Insert" -> IF t_xmin[e.tid] = xid[c] THEN xid[c] ELSE @]
  BY Zenon DEF UndoLast
<1> HIDE DEF e
<1> QED
  BY <1>2, <1>3 DEF TypeOK, HeapTypeOK

-----------------------------------------------------------------------------
(* Which steps change what *)

\* The steps that change the sets of the manager or the log
LEMMA MgrSteps ==
  ASSUME NEW c \in Client, Step(c)
  PROVE  \/ AllocateXid(c) \/ (\E l \in Level : Register(c, l))
         \/ LogCommit(c) \/ LeaveActive(c) \/ PublishCommit(c) \/ Abort(c)
         \/ UNCHANGED <<mgr, durable>>
BY ZenonT(30) DEF Step, Begin, Scan, Write, Commit, mgr, SetIsolation, SetSnapshot,
  StartScan, LockCommitted, ScanPage, UnlockCommitted, NoteReads,
  EndStatement, AcquireWriteLock, WriteWriteConflict, SetXmax, NoteDelete,
  FinishDelete, InsertTuple, UpdateTuple, NoteInsert, FinishInsert, UndoLast,
  CommitCheck, SerializationFailure, AskAbort, ReleaseAll

\* The steps that change a Transaction
LEMMA TxnsSteps ==
  ASSUME NEW c \in Client, Step(c)
  PROVE  \/ (\E l \in Level : Register(c, l))
         \/ (\E l \in SetLevel : SetIsolation(c, l)) \/ SetSnapshot(c)
         \/ NoteReads(c) \/ NoteDelete(c) \/ NoteInsert(c)
         \/ LeaveActive(c) \/ Abort(c)
         \/ UNCHANGED txns
BY ZenonT(30) DEF Step, Begin, Scan, Write, Commit, txns, AllocateXid, StartScan,
  LockCommitted, ScanPage, UnlockCommitted, EndStatement, AcquireWriteLock,
  WriteWriteConflict, SetXmax, FinishDelete, InsertTuple, UpdateTuple,
  FinishInsert, UndoLast, CommitCheck, SerializationFailure, LogCommit,
  PublishCommit, AskAbort, ReleaseAll

\* The steps that change the lock table
LEMMA LockSteps ==
  ASSUME NEW c \in Client, Step(c)
  PROVE  \/ (\E t \in Tid : AcquireWriteLock(c, t)) \/ ReleaseAll(c)
         \/ UNCHANGED write_locks
BY ZenonT(30) DEF Step, Begin, Scan, Write, Commit, AllocateXid, Register, SetIsolation,
  SetSnapshot, StartScan, LockCommitted, ScanPage, UnlockCommitted,
  NoteReads, EndStatement, WriteWriteConflict, SetXmax, NoteDelete,
  FinishDelete, InsertTuple, UpdateTuple, NoteInsert, FinishInsert, UndoLast,
  CommitCheck, SerializationFailure, LogCommit, LeaveActive, PublishCommit,
  AskAbort, Abort

\* The steps that change the heap
LEMMA HeapSteps ==
  ASSUME NEW c \in Client, Step(c)
  PROVE  \/ SetXmax(c) \/ InsertTuple(c) \/ UpdateTuple(c) \/ UndoLast(c)
         \/ UNCHANGED heap
BY ZenonT(30) DEF Step, Begin, Scan, Write, Commit, heap, AllocateXid, Register,
  SetIsolation, SetSnapshot, StartScan, LockCommitted, ScanPage,
  UnlockCommitted, NoteReads, EndStatement, AcquireWriteLock,
  WriteWriteConflict, NoteDelete, FinishDelete, NoteInsert, FinishInsert,
  CommitCheck, SerializationFailure, LogCommit, LeaveActive, PublishCommit,
  AskAbort, Abort, ReleaseAll

\* The steps that change the state of a scan
LEMMA ScanSteps ==
  ASSUME NEW c \in Client, Step(c)
  PROVE  \/ StartScan(c) \/ LockCommitted(c) \/ ScanPage(c)
         \/ EndStatement(c) \/ (\E t \in Tid : AcquireWriteLock(c, t))
         \/ Abort(c)
         \/ UNCHANGED scan
BY ZenonT(30) DEF Step, Begin, Scan, Write, Commit, scan, AllocateXid, Register,
  SetIsolation, SetSnapshot, UnlockCommitted, NoteReads, WriteWriteConflict,
  SetXmax, NoteDelete, FinishDelete, InsertTuple, UpdateTuple, NoteInsert,
  FinishInsert, UndoLast, CommitCheck, SerializationFailure, LogCommit,
  LeaveActive, PublishCommit, AskAbort, ReleaseAll

\* The steps that change the transaction of a client
LEMMA XidSteps ==
  ASSUME NEW c \in Client, Step(c)
  PROVE  \/ AllocateXid(c) \/ SerializationFailure(c) \/ ReleaseAll(c)
         \/ UNCHANGED xid
BY ZenonT(30) DEF Step, Begin, Scan, Write, Commit, Register, SetIsolation, SetSnapshot,
  StartScan, LockCommitted, ScanPage, UnlockCommitted, NoteReads,
  EndStatement, AcquireWriteLock, WriteWriteConflict, SetXmax, NoteDelete,
  FinishDelete, InsertTuple, UpdateTuple, NoteInsert, FinishInsert, UndoLast,
  CommitCheck, LogCommit, LeaveActive, PublishCommit, AskAbort, Abort

\* The steps that change the target of a write
LEMMA TargetSteps ==
  ASSUME NEW c \in Client, Step(c)
  PROVE  \/ (\E t \in Tid : AcquireWriteLock(c, t)) \/ FinishDelete(c)
         \/ InsertTuple(c) \/ UpdateTuple(c) \/ FinishInsert(c)
         \/ Abort(c) \/ UNCHANGED target
BY ZenonT(30) DEF Step, Begin, Scan, Write, Commit, AllocateXid, Register, SetIsolation,
  SetSnapshot, StartScan, LockCommitted, ScanPage, UnlockCommitted,
  NoteReads, EndStatement, WriteWriteConflict, SetXmax, NoteDelete,
  NoteInsert, UndoLast, CommitCheck, SerializationFailure, LogCommit,
  LeaveActive, PublishCommit, AskAbort, ReleaseAll

\* The steps that change the undo log
LEMMA UndoSteps ==
  ASSUME NEW c \in Client, Step(c)
  PROVE  \/ SetXmax(c) \/ InsertTuple(c) \/ UpdateTuple(c) \/ UndoLast(c)
         \/ SerializationFailure(c) \/ ReleaseAll(c)
         \/ UNCHANGED undo_log
BY ZenonT(30) DEF Step, Begin, Scan, Write, Commit, AllocateXid, Register, SetIsolation,
  SetSnapshot, StartScan, LockCommitted, ScanPage, UnlockCommitted,
  NoteReads, EndStatement, AcquireWriteLock, WriteWriteConflict, NoteDelete,
  FinishDelete, NoteInsert, FinishInsert, CommitCheck, LogCommit,
  LeaveActive, PublishCommit, AskAbort, Abort

\* A step moves one client, to another label or not.
LEMMA PcSteps ==
  ASSUME NEW c \in Client, Step(c)
  PROVE  \E l \in Label : pc' = [pc EXCEPT ![c] = l] \/ pc' = pc
BY Zenon DEF Step, Begin, Scan, Write, Commit, Goto, GotoOrNote, AfterCheck, Label,
  AllocateXid, Register, SetIsolation, SetSnapshot, StartScan, LockCommitted,
  ScanPage, UnlockCommitted, NoteReads, EndStatement, AcquireWriteLock,
  WriteWriteConflict, SetXmax, NoteDelete, FinishDelete, InsertTuple,
  UpdateTuple, NoteInsert, FinishInsert, UndoLast, CommitCheck,
  SerializationFailure, LogCommit, LeaveActive, PublishCommit, AskAbort,
  Abort, ReleaseAll

-----------------------------------------------------------------------------
(* A step is about one client and its transaction *)

\* The other clients stay where they are.
LEMMA OtherClients ==
  ASSUME TypeOK, NEW c \in Client, NEW d \in Client, d # c, Step(c)
  PROVE  /\ pc'[d] = pc[d] /\ xid'[d] = xid[d] /\ target'[d] = target[d]
         /\ seen'[d] = seen[d] /\ limit'[d] = limit[d] /\ cursor'[d] = cursor[d]
<1> USE DEF TypeOK, ClientTypeOK, ScanTypeOK
<1>1. pc'[d] = pc[d]
  BY Zenon, PcSteps
<1>2. xid'[d] = xid[d]
  BY Zenon, XidSteps DEF AllocateXid, SerializationFailure, ReleaseAll
<1>3. target'[d] = target[d]
  <2>1. \E t : target' = [target EXCEPT ![c] = t] \/ target' = target
    BY TargetSteps DEF AcquireWriteLock, FinishDelete, InsertTuple, UpdateTuple, InsertVersion,
       FinishInsert, Abort
  <2> QED
    BY <2>1
<1>4. seen'[d] = seen[d] /\ limit'[d] = limit[d] /\ cursor'[d] = cursor[d]
  <2>1. \E s : seen' = [seen EXCEPT ![c] = s] \/ seen' = seen
    BY ScanSteps DEF StartScan, LockCommitted, ScanPage, EndStatement, AcquireWriteLock, Abort,
       scan
  <2>2. \E n : limit' = [limit EXCEPT ![c] = n] \/ limit' = limit
    BY SMTT(30), ScanSteps DEF StartScan, LockCommitted, ScanPage, EndStatement, AcquireWriteLock, Abort,
       scan
  <2>3. \E n : cursor' = [cursor EXCEPT ![c] = n] \/ cursor' = cursor
    BY Zenon, ScanSteps DEF StartScan, LockCommitted, ScanPage, EndStatement, AcquireWriteLock, Abort,
       scan
  <2> QED
    BY Zenon, <2>1, <2>2, <2>3
<1> QED
  BY <1>1, <1>2, <1>3, <1>4

\* The other transactions stay in the sets they are in.
LEMMA OtherXids ==
  ASSUME NEW c \in Client, NEW x, x # xid[c], Step(c)
  PROVE  /\ x \in active' <=> x \in active
         /\ x \in committed' <=> x \in committed
         /\ x \in aborted' <=> x \in aborted
         /\ x \in durable' <=> x \in durable
BY MgrSteps DEF AllocateXid, Register, LogCommit, LeaveActive, PublishCommit, Abort,
   DropTransaction, Removed, mgr

\* The marks of other transactions are not made by this one, and its own are
\* the only new ones.
LEMMA OtherMarks ==
  ASSUME IInv, NEW c \in Client, NEW x \in Xid, x # xid[c], NEW t \in Tid, Step(c)
  PROVE  /\ t_xmin'[t] = x => t_xmin[t] = x
         /\ t_xmax'[t] = x => t_xmax[t] = x
         /\ write_locks'[t] = x <=> write_locks[t] = x
<1> USE DEF IInv, TypeOK
<1>0. x # INVALID_XID
  BY DEF Xid, FirstXid, INVALID_XID
<1>1. t_xmin'[t] = x => t_xmin[t] = x
  BY Zenon, HeapSteps DEF SetXmax, InsertTuple, UpdateTuple, InsertVersion, UndoLast, heap, HeapTypeOK
<1>2. t_xmax'[t] = x => t_xmax[t] = x
  <2>1. CASE UndoLast(c)
    BY <1>0, <2>1, UndoEffect
  <2> QED
    BY Zenon, <1>0, <2>1, HeapSteps DEF SetXmax, InsertTuple, UpdateTuple, InsertVersion, heap,
       HeapTypeOK
<1>3. write_locks'[t] = x <=> write_locks[t] = x
  BY <1>0, LockSteps DEF AcquireWriteLock, Grantable, Granted, ReleaseAll, Released, TxnsTypeOK,
     INVALID_XID
<1> QED
  BY <1>1, <1>2, <1>3

\* A step inside a statement leaves the transaction running.
LEMMA RunningSteps ==
  ASSUME TypeOK, NEW c \in Client, Step(c)
  PROVE  \/ AllocateXid(c) \/ (\E l \in Level : Register(c, l))
         \/ SerializationFailure(c) \/ LogCommit(c) \/ LeaveActive(c)
         \/ PublishCommit(c) \/ Abort(c) \/ ReleaseAll(c)
         \/ /\ UNCHANGED <<active, committed, aborted, durable, xid, NEXT_XID>>
            /\ {pc[c], pc'[c]} \subseteq Running \ {"leave_active"}
<1> DEFINE Quiet == {pc[c], pc'[c]} \subseteq Running \ {"leave_active"}
<1> USE DEF TypeOK, ClientTypeOK, Goto, Running, Label
<1>1. CASE Scan(c)
  <2>1. Quiet
    BY Zenon, <1>1 DEF Scan, GotoOrNote, StartScan, LockCommitted, ScanPage, UnlockCommitted,
       NoteReads, EndStatement
  <2> QED
    BY <1>1, <2>1 DEF Scan, mgr, StartScan, LockCommitted, ScanPage, UnlockCommitted,
       NoteReads, EndStatement
<1>2. CASE Write(c)
  <2>1. Quiet
    BY <1>2 DEF Write, GotoOrNote, AcquireWriteLock, WriteWriteConflict, SetXmax, NoteDelete,
       FinishDelete, InsertTuple, UpdateTuple, NoteInsert, FinishInsert
  <2> QED
    BY ZenonT(30), <1>2, <2>1 DEF Write, mgr, AcquireWriteLock, WriteWriteConflict, SetXmax, NoteDelete,
       FinishDelete, InsertTuple, UpdateTuple, NoteInsert, FinishInsert
<1>3. CASE \/ (\E l \in SetLevel : SetIsolation(c, l)) \/ SetSnapshot(c) \/ UndoLast(c)
           \/ AskAbort(c) \/ CommitCheck(c)
  <2>1. Quiet
    BY <1>3 DEF SetIsolation, SetSnapshot, UndoLast, AskAbort, CommitCheck, AfterCheck
  <2> QED
    BY <1>3, <2>1 DEF SetIsolation, SetSnapshot, UndoLast, AskAbort, CommitCheck, mgr
<1> QED
  BY Zenon, <1>1, <1>2, <1>3 DEF Step, Begin, Commit

-----------------------------------------------------------------------------
(* What only grows, and how labels are reached *)

\* The heap grows at its end and keeps the inserter of every version.
LEMMA HeapGrows ==
  ASSUME TypeOK, NEW c \in Client, Step(c)
  PROVE  /\ npages \in Nat /\ npages' \in Nat /\ npages <= npages'
         /\ \A t \in Tid : t <= npages => t_xmin'[t] = t_xmin[t]
<1>1. npages \in Nat /\ HeapTypeOK
  BY TxnAssumption DEF TypeOK, HeapTypeOK
<1>2. CASE InsertTuple(c) \/ UpdateTuple(c)
  <2>1. npages' = npages + 1 /\ t_xmin' = [t_xmin EXCEPT ![npages + 1] = xid[c]]
    BY <1>2 DEF InsertTuple, UpdateTuple, InsertVersion
  <2> QED
    BY <1>1, <2>1 DEF HeapTypeOK, Tid
<1>3. CASE npages' = npages /\ t_xmin' = t_xmin
  BY <1>1, <1>3
<1> QED
  BY Zenon, <1>2, <1>3, HeapSteps DEF SetXmax, UndoLast, heap

\* What has been committed stays committed.
LEMMA CommittedGrows ==
  ASSUME NEW c \in Client, Step(c)
  PROVE  committed \subseteq committed'
BY MgrSteps DEF AllocateXid, Register, LogCommit, LeaveActive, PublishCommit, Abort, mgr

\* The transaction of a client changes only outside of statements.
LEMMA XidStays ==
  ASSUME TypeOK, NEW c \in Client, Step(c)
  PROVE  pc[c] \in {"idle", "open", "release"} \/ xid'[c] = xid[c]
BY Zenon, XidSteps DEF AllocateXid, SerializationFailure, ReleaseAll

\* How a client gets to the labels of a scan and of a write.
LEMMA LabelSteps ==
  ASSUME TypeOK, NEW c \in Client, Step(c)
  PROVE  /\ pc'[c] = "scan" => LockCommitted(c) \/ ScanPage(c)
         /\ pc'[c] = "delete" => \E t \in Tid : AcquireWriteLock(c, t)
         /\ pc'[c] \in {"note_delete", "deleted"} => SetXmax(c) \/ NoteDelete(c)
         /\ pc'[c] = "note_insert" => InsertTuple(c) \/ UpdateTuple(c)
         /\ pc'[c] \notin InStatement => pc[c] \notin InStatement \/ EndStatement(c) \/ Abort(c)
<1> USE DEF TypeOK, ClientTypeOK, Goto, GotoOrNote, AfterCheck, InStatement
<1>1. CASE Begin(c) \/ Commit(c)
  BY Zenon, <1>1 DEF Begin, Commit, AllocateXid, Register, CommitCheck, SerializationFailure,
     LogCommit, LeaveActive, PublishCommit
<1>2. CASE Scan(c)
  BY Zenon, <1>2 DEF Scan, StartScan, LockCommitted, ScanPage, UnlockCommitted, NoteReads, EndStatement
<1>3. CASE Write(c)
  BY Zenon, <1>3 DEF Write, AcquireWriteLock, WriteWriteConflict, SetXmax, NoteDelete, FinishDelete,
     InsertTuple, UpdateTuple, NoteInsert, FinishInsert
<1>4. CASE \/ (\E l \in SetLevel : SetIsolation(c, l)) \/ SetSnapshot(c) \/ UndoLast(c)
           \/ AskAbort(c) \/ Abort(c) \/ ReleaseAll(c)
  BY <1>4 DEF SetIsolation, SetSnapshot, UndoLast, AskAbort, Abort, ReleaseAll
<1> QED
  BY Zenon, <1>1, <1>2, <1>3, <1>4 DEF Step

=============================================================================
