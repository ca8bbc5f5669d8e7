--------------------------- MODULE TxnTypeProofs ----------------------------
(***************************************************************************)
(* Every step of TxnManager keeps the types, gives a transaction one       *)
(* outcome, and keeps clients and XIDs apart.                              *)
(***************************************************************************)
EXTENDS TxnSteps

-----------------------------------------------------------------------------
(* Type correctness *)

\* A step keeps the types of the manager's sets and counters.
LEMMA StepMgrTypeOK ==
  ASSUME IInv, NEW c \in Client, Step(c)
  PROVE  MgrTypeOK'
<1> USE DEF MgrTypeOK
<1>1. MgrTypeOK /\ (pc[c] # "idle" => xid[c] \in Xid)
  BY XidOfClient DEF IInv, TypeOK
<1>2. CASE AllocateXid(c)
  BY <1>1, <1>2, TxnAssumption DEF AllocateXid, FetchAdd, FirstXid
<1>3. ASSUME NEW l \in Level, Register(c, l) PROVE MgrTypeOK'
  <2>1. xid[c] \in Xid /\ next_xid' = xid[c] + 1
    BY <1>1, <1>3 DEF Register
  <2>2. next_xid' \in FirstXid..MaxXid + 1
    BY <2>1, TxnAssumption DEF Xid, FirstXid
  <2> QED
    BY <1>1, <1>3, <2>1, <2>2 DEF Register
<1>4. CASE LogCommit(c)
  BY <1>1, <1>4 DEF LogCommit, mgr, IInv, TypeOK
<1>5. CASE LeaveActive(c)
  BY <1>1, <1>5 DEF LeaveActive, DropTransaction, Removed
<1>6. CASE PublishCommit(c)
  BY <1>1, <1>6 DEF PublishCommit
<1>7. CASE Abort(c)
  BY <1>1, <1>7 DEF Abort, DropTransaction, Removed
<1>8. CASE UNCHANGED <<mgr, durable>>
  BY <1>1, <1>8 DEF mgr
<1> QED
  BY <1>2, <1>3, <1>4, <1>5, <1>6, <1>7, <1>8, MgrSteps

\* A step keeps the types of the Transactions and of the lock table.
LEMMA StepTxnsTypeOK ==
  ASSUME IInv, NEW c \in Client, Step(c)
  PROVE  TxnsTypeOK'
<1>1. TypeOK /\ TxnsTypeOK /\ ScanTypeOK /\ (pc[c] # "idle" => xid[c] \in Xid)
  BY XidOfClient DEF IInv, TypeOK
<1>2. isolation' \in [Xid -> {RC, RR, SER}]
  <2>1. ASSUME NEW l \in Level, Register(c, l) PROVE isolation' \in [Xid -> {RC, RR, SER}]
    BY <1>1, <2>1, TxnAssumption DEF TxnsTypeOK, Register
  <2>2. ASSUME NEW l \in SetLevel, SetIsolation(c, l) PROVE isolation' \in [Xid -> {RC, RR, SER}]
    BY SMTT(30), <1>1, <2>2, TxnAssumption DEF TxnsTypeOK, SetIsolation
  <2> QED
    BY <1>1, <2>1, <2>2, TxnsSteps DEF TxnsTypeOK, txns, SetSnapshot, NoteReads, NoteDelete,
       NoteInsert, LeaveActive, Abort, DropTransaction
<1>3. snapshot' \in [Xid -> Snapshot]
  <2>1. NoSnapshot \in Snapshot
    BY TxnAssumption DEF NoSnapshot, Snapshot, FirstXid
  <2>2. ASSUME NEW l \in Level, Register(c, l) PROVE snapshot' \in [Xid -> Snapshot]
    <3>1. xid[c] \in Xid /\ xid[c] + 1 \in FirstXid..MaxXid + 1
      BY <1>1, <2>2, TxnAssumption DEF Register, Xid, FirstXid
    <3>2. TakeSnapshot(xid[c], xid[c] + 1) \in Snapshot
      BY <1>1, <3>1, SnapshotTaken
    <3> QED
      BY <1>1, <2>1, <2>2, <3>1, <3>2 DEF TxnsTypeOK, Register
  <2>3. CASE SetSnapshot(c)
    <3>1. xid[c] \in Xid /\ TakeSnapshot(xid[c], next_xid) \in Snapshot
      BY Zenon, <1>1, <2>3, SnapshotTaken DEF SetSnapshot, TypeOK, MgrTypeOK
    <3> QED
      BY <1>1, <2>3, <3>1 DEF TxnsTypeOK, SetSnapshot
  <2> QED
    BY <1>1, <2>1, <2>2, <2>3, TxnsSteps DEF TxnsTypeOK, txns, SetIsolation, NoteReads,
       NoteDelete, NoteInsert, LeaveActive, Abort, DropTransaction
<1>4. read_set' \in [Xid -> SUBSET Tid]
  <2>1. CASE NoteReads(c)
    <3>1. xid[c] \in Xid /\ seen[c] \in SUBSET Tid
      BY Zenon, <1>1, <2>1 DEF NoteReads, ScanTypeOK
    <3> QED
      BY <1>1, <2>1, <3>1 DEF TxnsTypeOK, NoteReads
  <2> QED
    BY Zenon, <1>1, <2>1, TxnsSteps DEF TxnsTypeOK, txns, Register, SetIsolation, SetSnapshot,
       NoteDelete, NoteInsert, LeaveActive, Abort, DropTransaction
<1>5. write_set' \in [Xid -> SUBSET Tid]
  <2>1. pc[c] \in {"note_delete", "note_insert"} => target[c] \in Tid
    BY TxnAssumption DEF IInv, ScanInv, TypeOK, HeapTypeOK, Tid
  <2>2. CASE NoteDelete(c) \/ NoteInsert(c)
    BY <1>1, <2>1, <2>2 DEF TxnsTypeOK, NoteDelete, NoteInsert
  <2>3. CASE LeaveActive(c) \/ Abort(c)
    BY <1>1, <2>3 DEF TxnsTypeOK, LeaveActive, Abort, DropTransaction
  <2> QED
    BY <1>1, <2>2, <2>3, TxnsSteps DEF TxnsTypeOK, txns, Register, SetIsolation, SetSnapshot,
       NoteReads
<1>6. write_locks' \in [Tid -> Xid \cup {0}]
  BY <1>1, LockSteps DEF TxnsTypeOK, AcquireWriteLock, Granted, ReleaseAll, Released
<1> QED
  BY <1>2, <1>3, <1>4, <1>5, <1>6 DEF TxnsTypeOK

\* A step keeps the types of the tuple headers.
LEMMA StepHeapTypeOK ==
  ASSUME IInv, NEW c \in Client, Step(c)
  PROVE  HeapTypeOK'
<1>1. HeapTypeOK /\ (pc[c] # "idle" => xid[c] \in Xid)
  BY XidOfClient DEF IInv, TypeOK
<1>2. CASE SetXmax(c)
  <2>1. target[c] \in Tid
    BY <1>1, <1>2, TxnAssumption DEF IInv, ScanInv, SetXmax, HeapTypeOK, Tid
  <2> QED
    BY <1>1, <1>2, <2>1 DEF HeapTypeOK, SetXmax
<1>3. CASE InsertTuple(c)
  BY <1>1, <1>3, TxnAssumption DEF HeapTypeOK, InsertTuple, InsertVersion, Tid
<1>4. CASE UpdateTuple(c)
  <2>1. target[c] \in Tid
    BY SMTT(30), <1>1, <1>4, TxnAssumption DEF IInv, ScanInv, UpdateTuple, HeapTypeOK, Tid
  <2> QED
    BY <1>1, <1>4, <2>1, TxnAssumption DEF HeapTypeOK, UpdateTuple, InsertVersion, Tid
<1>5. CASE UndoLast(c)
  <2>1. undo_log[c] \in Seq(UndoEntry) /\ undo_log[c] # << >>
    BY <1>5 DEF UndoLast, IInv, TypeOK, ClientTypeOK
  <2>2. undo_log[c][Len(undo_log[c])] \in UndoEntry
    BY <2>1
  <2> QED
    BY <1>1, <1>5, <2>2 DEF HeapTypeOK, UndoLast, UndoEntry
<1>6. CASE UNCHANGED heap
  BY <1>1, <1>6 DEF HeapTypeOK, heap
<1> QED
  BY <1>2, <1>3, <1>4, <1>5, <1>6, HeapSteps

\* A step keeps the types of the scan state.
LEMMA StepScanTypeOK ==
  ASSUME IInv, NEW c \in Client, Step(c)
  PROVE  ScanTypeOK'
<1>1. TypeOK /\ ScanTypeOK /\ HeapTypeOK /\ (pc[c] # "idle" => xid[c] \in Xid)
  BY XidOfClient DEF IInv, TypeOK
<1>2. CASE StartScan(c)
  <2>1. xid[c] \in Xid /\ TakeSnapshot(xid[c], next_xid) \in Snapshot
    BY <1>1, <1>2, SnapshotTaken DEF StartScan, TypeOK, MgrTypeOK
  <2>2. CurrentSnapshot(xid[c]) \in Snapshot
    BY <1>1, <2>1 DEF CurrentSnapshot, TypeOK, TxnsTypeOK
  <2> QED
    BY <1>1, <1>2, <2>2 DEF ScanTypeOK, StartScan
<1>3. CASE LockCommitted(c)
  BY <1>1, <1>3, TxnAssumption DEF ScanTypeOK, HeapTypeOK, LockCommitted
<1>4. CASE ScanPage(c)
  <2>1. cursor[c] \in Tid /\ cursor[c] + 1 \in 0..MaxTid + 1
    BY SMTT(30), <1>1, <1>4, TxnAssumption DEF ScanPage, ScanTypeOK, IInv, ScanInv, Tid
  <2> QED
    BY <1>1, <1>4, <2>1 DEF ScanTypeOK, ScanPage
<1>5. CASE EndStatement(c) \/ Abort(c)
  <2>1. NoSnapshot \in Snapshot /\ 0 \in 0..MaxTid /\ 0 \in 0..MaxTid + 1
    BY TxnAssumption DEF NoSnapshot, Snapshot, FirstXid
  <2> QED
    BY <1>1, <1>5, <2>1 DEF ScanTypeOK, EndStatement, Abort
<1>6. ASSUME NEW t \in Tid, AcquireWriteLock(c, t) PROVE ScanTypeOK'
  BY <1>1, <1>6 DEF ScanTypeOK, AcquireWriteLock
<1>7. CASE UNCHANGED scan
  BY <1>1, <1>7 DEF ScanTypeOK, scan
<1> QED
  BY <1>2, <1>3, <1>4, <1>5, <1>6, <1>7, ScanSteps

\* A step keeps the types of the clients' state.
LEMMA StepClientTypeOK ==
  ASSUME IInv, NEW c \in Client, Step(c)
  PROVE  ClientTypeOK'
<1>1. ClientTypeOK /\ HeapTypeOK
  BY DEF IInv, TypeOK
<1>2. pc' \in [Client -> Label]
  BY Zenon, <1>1, PcSteps DEF ClientTypeOK
<1>3. xid' \in [Client -> Xid \cup {0}]
  <2>1. CASE AllocateXid(c)
    <3>1. NEXT_XID \in Xid
      BY <2>1, TxnAssumption DEF AllocateXid, IInv, TypeOK, MgrTypeOK, Xid, FirstXid
    <3> QED
      BY <1>1, <2>1, <3>1 DEF ClientTypeOK, AllocateXid
  <2> QED
    BY Zenon, <1>1, <2>1, XidSteps DEF ClientTypeOK, SerializationFailure, ReleaseAll
<1>4. pc[c] = "delete" => target[c] \in Tid
  BY <1>1, TxnAssumption DEF IInv, ScanInv, HeapTypeOK, Tid
<1>5. npages < MaxTid => npages + 1 \in Tid
  BY <1>1, TxnAssumption DEF HeapTypeOK, Tid
<1>6. target' \in [Client -> Tid \cup {NoTid}]
  BY Zenon, <1>1, <1>5, TargetSteps DEF ClientTypeOK, AcquireWriteLock, FinishDelete, InsertTuple,
     UpdateTuple, InsertVersion, FinishInsert, Abort
<1>7. undo_log' \in [Client -> Seq(UndoEntry)]
  <2>1. undo_log[c] \in Seq(UndoEntry)
    BY <1>1 DEF ClientTypeOK
  <2>2. ASSUME NEW e \in UndoEntry PROVE Append(undo_log[c], e) \in Seq(UndoEntry)
    BY <2>1
  <2>3. undo_log[c] # << >> =>
          SubSeq(undo_log[c], 1, Len(undo_log[c]) - 1) \in Seq(UndoEntry)
    BY <2>1
  <2>4. CASE SetXmax(c)
    BY Zenon, <1>1, <1>4, <2>2, <2>4 DEF ClientTypeOK, SetXmax, UndoEntry
  <2>5. CASE InsertTuple(c) \/ UpdateTuple(c)
    <3>1. PICK e \in UndoEntry : undo_log' = [undo_log EXCEPT ![c] = Append(@, e)]
      BY <1>5, <2>5 DEF InsertTuple, UpdateTuple, InsertVersion, UndoEntry
    <3> QED
      BY <1>1, <2>2, <3>1 DEF ClientTypeOK
  <2>6. CASE UndoLast(c)
    BY <1>1, <2>3, <2>6 DEF ClientTypeOK, UndoLast
  <2>7. CASE SerializationFailure(c) \/ ReleaseAll(c)
    <3>1. undo_log' = [undo_log EXCEPT ![c] = << >>] /\ << >> \in Seq(UndoEntry)
      BY <2>7 DEF SerializationFailure, ReleaseAll
    <3> QED
      BY <1>1, <3>1 DEF ClientTypeOK
  <2> QED
    BY <1>1, <2>4, <2>5, <2>6, <2>7, UndoSteps DEF ClientTypeOK
<1> QED
  BY <1>2, <1>3, <1>6, <1>7 DEF ClientTypeOK

\* A step keeps all types.
LEMMA StepTypeOK ==
  ASSUME IInv, NEW c \in Client, Step(c)
  PROVE  TypeOK'
BY StepMgrTypeOK, StepTxnsTypeOK, StepHeapTypeOK, StepScanTypeOK, StepClientTypeOK
   DEF TypeOK

-----------------------------------------------------------------------------
(* The outcome of a transaction and its log record *)

\* No step gives a transaction a second outcome.
LEMMA StepOneOutcome ==
  ASSUME IInv, NEW c \in Client, Step(c)
  PROVE  OneOutcome'
<1> USE DEF IInv, OneOutcome
<1>1. ASSUME NEW l \in Level, Register(c, l) PROVE OneOutcome'
  BY SMTT(30), <1>1 DEF Register, XidInv, Fresh
<1>2. CASE LeaveActive(c)
  BY <1>2 DEF LeaveActive, DropTransaction, Removed
<1>3. CASE PublishCommit(c)
  BY <1>3 DEF PublishCommit, ClientInv
<1>4. CASE Abort(c)
  <2>1. xid[c] \in active
    BY <1>4 DEF Abort, ClientInv, Running, Label
  <2> QED
    BY <1>4, <2>1 DEF Abort, DropTransaction, Removed
<1>5. CASE UNCHANGED <<active, committed, aborted>>
  BY <1>5
<1> QED
  BY Zenon, <1>1, <1>2, <1>3, <1>4, <1>5, MgrSteps DEF AllocateXid, LogCommit, mgr

\* No step publishes a commit that is not in the log.
LEMMA StepCommitIsLogged ==
  ASSUME IInv, NEW c \in Client, Step(c)
  PROVE  CommitIsLogged'
<1> USE DEF IInv, CommitIsLogged
<1>1. CASE LogCommit(c)
  <2>1. xid[c] \in active
    BY <1>1 DEF LogCommit, ClientInv, Running, Label
  <2> QED
    BY <1>1, <2>1 DEF LogCommit, OneOutcome, mgr
<1>2. CASE PublishCommit(c)
  BY <1>2 DEF PublishCommit, ClientInv
<1>3. CASE Abort(c)
  <2>1. xid[c] \notin durable
    BY <1>3 DEF Abort, ClientInv, Running, Label
  <2> QED
    BY <1>3, <2>1 DEF Abort
<1>4. CASE UNCHANGED <<committed, aborted, durable>>
  BY <1>4
<1> QED
  BY Zenon, <1>1, <1>2, <1>3, <1>4, MgrSteps DEF AllocateXid, Register, LeaveActive, mgr

-----------------------------------------------------------------------------
(* XIDs and clients *)

\* A step keeps each client's label in agreement with the sets.
LEMMA StepClientInv ==
  ASSUME IInv, NEW c \in Client, Step(c)
  PROVE  ClientInv'
<1> DEFINE P(d) == /\ pc[d] = "idle" <=> xid[d] = 0
                   /\ pc[d] \in Running => xid[d] \in active
                   /\ pc[d] \in Running \ {"leave_active"} => xid[d] \notin durable
                   /\ pc[d] \in {"leave_active", "publish"} => xid[d] \in durable
                   /\ pc[d] = "publish" => xid[d] \notin active \cup committed \cup aborted
                   /\ pc[d] = "release" => xid[d] \in committed \cup aborted
<1>1. TypeOK /\ ClientInv /\ XidInv /\ OneOutcome /\ CommitIsLogged /\ \A d \in Client : P(d)
  BY DEF IInv, ClientInv
<1>2. ASSUME NEW d \in Client, d # c PROVE P(d)'
  <2>1. pc'[d] = pc[d] /\ xid'[d] = xid[d]
    BY <1>1, <1>2, OtherClients
  <2>2. CASE xid[d] = xid[c]
    <3>1. pc[c] = "idle" /\ pc[d] = "idle"
      BY <1>1, <1>2, <2>2 DEF XidInv
    <3> QED
      BY <1>1, <2>1, <3>1 DEF Running, Label
  <2>3. CASE xid[d] # xid[c]
    BY Zenon, <1>1, <2>1, <2>3, OtherXids
  <2> QED
    BY <2>2, <2>3
<1>3. P(c)'
  <2> USE DEF TypeOK, ClientTypeOK, Goto, Running, Label
  <2>1. CASE AllocateXid(c)
    BY SMTT(30), <1>1, <2>1 DEF AllocateXid, MgrTypeOK, FirstXid
  <2>2. ASSUME NEW l \in Level, Register(c, l) PROVE P(c)'
    BY <1>1, <2>2 DEF Register, XidInv, Fresh
  <2>3. CASE SerializationFailure(c) \/ ReleaseAll(c)
    BY <1>1, <2>3 DEF SerializationFailure, ReleaseAll
  <2>4. CASE LogCommit(c)
    BY Zenon, <1>1, <2>4 DEF LogCommit, mgr
  <2>5. CASE LeaveActive(c)
    BY <1>1, <2>5 DEF LeaveActive, DropTransaction, Removed, OneOutcome
  <2>6. CASE PublishCommit(c)
    BY SMTT(30), <1>1, <2>6 DEF PublishCommit
  <2>7. CASE Abort(c)
    BY <1>1, <2>7 DEF Abort, DropTransaction, Removed
  <2>8. CASE /\ UNCHANGED <<active, committed, aborted, durable, xid, NEXT_XID>>
             /\ {pc[c], pc'[c]} \subseteq Running \ {"leave_active"}
    BY <1>1, <2>8
  <2> QED
    BY ZenonT(30), <1>1, <2>1, <2>2, <2>3, <2>4, <2>5, <2>6, <2>7, <2>8, RunningSteps
<1> QED
  BY <1>2, <1>3 DEF ClientInv

\* A step keeps XIDs fresh and gives no two clients the same one.
LEMMA StepXidInv ==
  ASSUME IInv, NEW c \in Client, Step(c)
  PROVE  XidInv'
<1>1. TypeOK /\ ClientInv /\ XidInv /\ TypeOK'
  BY StepTypeOK DEF IInv
<1> DEFINE FreshNext(x) ==
      /\ x \notin active' \cup committed' \cup aborted' \cup durable'
      /\ \A t \in Tid : t_xmin'[t] # x /\ t_xmax'[t] # x /\ write_locks'[t] # x
<1>2. ASSUME NEW x \in Xid, Fresh(x), x # xid[c] PROVE FreshNext(x)
  <2>1. x \notin active' \cup committed' \cup aborted' \cup durable'
    BY Zenon, <1>2, OtherXids DEF Fresh
  <2>2. \A t \in Tid : t_xmin'[t] # x /\ t_xmax'[t] # x /\ write_locks'[t] # x
    BY Zenon, <1>2, OtherMarks DEF Fresh
  <2> QED
    BY Zenon, <2>1, <2>2
<1> HIDE DEF FreshNext
<1>3. \/ AllocateXid(c)
      \/ NEXT_XID' = NEXT_XID /\ pc'[c] # "begin" /\ xid'[c] \in {0, xid[c]}
  BY <1>1, RunningSteps DEF TypeOK, ClientTypeOK, Goto, Register, SerializationFailure,
     LogCommit, LeaveActive, PublishCommit, Abort, ReleaseAll, mgr, Running
<1>4. NEXT_XID' >= NEXT_XID /\ NEXT_XID \in Nat /\ NEXT_XID' \in Nat
  <2>1. NEXT_XID \in FirstXid..MaxXid + 1 /\ NEXT_XID' \in FirstXid..MaxXid + 1
    BY Zenon, <1>1 DEF TypeOK, MgrTypeOK
  <2>2. NEXT_XID' = NEXT_XID + 1 \/ NEXT_XID' = NEXT_XID
    BY Zenon, <1>3 DEF AllocateXid, FetchAdd
  <2> QED
    BY <2>1, <2>2 DEF FirstXid
<1>5. \A d \in Client : xid[d] \in Nat /\ xid'[d] \in Nat
  BY <1>1 DEF TypeOK, ClientTypeOK, Xid, FirstXid
<1>6. \A x \in Xid : x >= NEXT_XID' => FreshNext(x)
  <2> SUFFICES ASSUME NEW x \in Xid, x >= NEXT_XID' PROVE FreshNext(x)
    OBVIOUS
  <2>1. x \in Nat /\ x >= NEXT_XID
    BY <1>4 DEF Xid, FirstXid
  <2>2. Fresh(x) /\ x # xid[c]
    BY <1>1, <1>4, <1>5, <2>1 DEF XidInv
  <2> QED
    BY <1>2, <2>2
<1>7. CASE AllocateXid(c)
  <2>1. /\ xid'[c] = NEXT_XID /\ NEXT_XID \in Xid /\ NEXT_XID' = NEXT_XID + 1 /\ xid[c] = 0
        /\ pc[c] = "idle"
    <3>1. /\ pc[c] = "idle" /\ NEXT_XID <= MaxXid /\ NEXT_XID' = NEXT_XID + 1
          /\ xid' = [xid EXCEPT ![c] = NEXT_XID]
      BY Zenon, <1>7 DEF AllocateXid, FetchAdd
    <3>2. xid'[c] = NEXT_XID /\ xid[c] = 0
      BY Zenon, <1>1, <3>1 DEF TypeOK, ClientTypeOK, ClientInv
    <3>3. NEXT_XID \in FirstXid..MaxXid + 1
      BY Zenon, <1>1 DEF TypeOK, MgrTypeOK
    <3> QED
      BY <3>1, <3>2, <3>3, TxnAssumption DEF Xid, FirstXid
  <2>2. \A d \in Client : d # c => pc'[d] = pc[d] /\ xid'[d] = xid[d] /\ xid[d] < NEXT_XID
    BY Zenon, <1>1, OtherClients DEF XidInv
  <2>3. FreshNext(xid'[c])
    BY <1>1, <1>2, <1>4, <2>1 DEF XidInv, Xid, FirstXid
  <2>4. \A d \in Client : pc'[d] = "begin" => FreshNext(xid'[d])
    <3> SUFFICES ASSUME NEW d \in Client, pc'[d] = "begin", d # c PROVE FreshNext(xid'[d])
      BY SMTT(30), <2>3
    <3>1. xid[d] \in Xid /\ Fresh(xid[d]) /\ xid[d] # xid[c]
      BY <1>1, <2>1, <2>2, XidOfClient DEF XidInv, Xid, FirstXid
    <3> QED
      BY <1>2, <2>2, <3>1
  <2>5. \A d \in Client : xid'[d] < NEXT_XID'
    BY <1>4, <1>5, <2>1, <2>2
  <2>6. \A d, e \in Client : xid'[d] = xid'[e] /\ xid'[d] # 0 => d = e
    BY <1>1, <1>4, <1>5, <2>1, <2>2 DEF XidInv
  <2> QED
    BY Zenon, <1>6, <2>4, <2>5, <2>6 DEF XidInv, Fresh, FreshNext
<1>8. CASE NEXT_XID' = NEXT_XID /\ pc'[c] # "begin" /\ xid'[c] \in {0, xid[c]}
  <2>1. \A d \in Client : d # c => pc'[d] = pc[d] /\ xid'[d] = xid[d]
    BY <1>1, OtherClients
  <2>2. \A d \in Client : pc'[d] = "begin" => FreshNext(xid'[d])
    <3> SUFFICES ASSUME NEW d \in Client, pc'[d] = "begin" PROVE FreshNext(xid'[d])
      BY Zenon
    <3>1. d # c /\ pc[d] = "begin" /\ xid'[d] = xid[d]
      BY Zenon, <1>8, <2>1
    <3>2. xid[d] \in Xid /\ Fresh(xid[d]) /\ xid[d] # 0
      BY Zenon, <1>1, <3>1, XidOfClient DEF XidInv, ClientInv
    <3>3. xid[d] # xid[c]
      BY Zenon, <1>1, <3>1, <3>2 DEF XidInv
    <3> QED
      BY Zenon, <1>2, <3>1, <3>2, <3>3
  <2>3. \A d \in Client : xid'[d] < NEXT_XID'
    BY <1>1, <1>4, <1>5, <1>8, <2>1 DEF XidInv, TypeOK, MgrTypeOK, FirstXid
  <2>4. \A d, e \in Client : xid'[d] = xid'[e] /\ xid'[d] # 0 => d = e
    BY <1>1, <1>8, <2>1 DEF XidInv
  <2> QED
    BY <1>6, <2>2, <2>3, <2>4 DEF XidInv, Fresh, FreshNext
<1> QED
  BY <1>3, <1>7, <1>8

=============================================================================
