--------------------------- MODULE TxnHeapProofs ----------------------------
(***************************************************************************)
(* Every step of TxnManager keeps the invariants of the heap, of the       *)
(* write locks and of the scans.                                           *)
(***************************************************************************)
EXTENDS TxnTypeProofs

-----------------------------------------------------------------------------
(* The heap and its readers *)

\* No step puts a version of another unfinished transaction in a scan.
LEMMA StepNoDirtyRead ==
  ASSUME IInv, NEW c \in Client, Step(c)
  PROVE  NoDirtyRead'
<1>1. TypeOK /\ NoDirtyRead /\ ScanInv
  BY DEF IInv
<1>2. \A t \in Tid : t <= npages => t_xmin'[t] = t_xmin[t]
  BY <1>1, HeapGrows
<1>3. \A d \in Client : \A t \in seen[d] : t \in Tid /\ t <= npages
  BY <1>1, TxnAssumption DEF ScanInv, TypeOK, HeapTypeOK, ScanTypeOK
<1>4. ASSUME NEW d \in Client, d # c, NEW t \in seen'[d]
      PROVE  t_xmin'[t] = xid'[d] \/ t_xmin'[t] \in committed'
  <2>1. t \in seen[d] /\ xid'[d] = xid[d]
    BY <1>1, <1>4, OtherClients
  <2> QED
    BY <1>1, <1>2, <1>3, <2>1, CommittedGrows DEF NoDirtyRead
<1>5. ASSUME NEW t \in seen'[c]
      PROVE  t_xmin'[t] = xid'[c] \/ t_xmin'[t] \in committed'
  <2>1. CASE t \in seen[c]
    <3>1. pc[c] \notin {"idle", "open", "release"}
      BY <1>1, <2>1 DEF ScanInv, InStatement
    <3> QED
      BY <1>1, <1>2, <1>3, <2>1, <3>1, CommittedGrows, XidStays DEF NoDirtyRead
  <2>2. CASE t \notin seen[c]
    <3>1. ScanPage(c) /\ t = cursor[c] /\ Visible(t, xid[c], view[c])
      BY <1>1, <1>5, <2>2, ScanSteps DEF StartScan, LockCommitted, ScanPage, EndStatement,
         AcquireWriteLock, Abort, scan, TypeOK, ScanTypeOK
    <3>2. t_xmin[t] = xid[c] \/ t_xmin[t] \in committed
      BY <3>1 DEF Visible, IsTupleVisible
    <3> QED
      BY Zenon, <3>1, <3>2 DEF ScanPage, mgr, heap
  <2> QED
    BY <2>1, <2>2
<1> QED
  BY <1>4, <1>5 DEF NoDirtyRead

\* A step keeps others' marks off the versions of unfinished inserters.
LEMMA StepHeapInv ==
  ASSUME IInv, NEW c \in Client, Step(c)
  PROVE  HeapInv'
<1>1. /\ TypeOK /\ HeapInv /\ HeapTypeOK /\ OneOutcome /\ active \subseteq Xid
      /\ npages \in Nat /\ npages' \in Nat /\ npages <= npages'
      /\ \A t \in Tid : t \in Nat
      /\ (pc[c] # "idle" => xid[c] \in Xid /\ xid[c] # INVALID_XID)
  BY HeapGrows, XidOfClient DEF IInv, TypeOK, MgrTypeOK, Tid, Xid, FirstXid, INVALID_XID
<1>2. CASE SetXmax(c)
  <2>1. /\ target[c] \in Tid /\ target[c] <= npages
        /\ t_xmin[target[c]] \in committed \cup {xid[c]}
    <3>1. target[c] \in 1..npages /\ t_xmin[target[c]] \in committed \cup {xid[c]}
      BY <1>2 DEF SetXmax, IInv, ScanInv
    <3> QED
      BY <1>1, <3>1, TxnAssumption DEF HeapTypeOK, Tid
  <2> QED
    BY <1>1, <1>2, <2>1 DEF SetXmax, HeapInv, HeapTypeOK, OneOutcome, mgr
<1>3. CASE InsertTuple(c) \/ UpdateTuple(c)
  <2>1. /\ npages' = npages + 1 /\ t_xmin' = [t_xmin EXCEPT ![npages + 1] = xid[c]]
        /\ t_xmax' = [t_xmax EXCEPT ![npages + 1] = INVALID_XID] /\ active' = active
    BY <1>3 DEF InsertTuple, UpdateTuple, InsertVersion, mgr
  <2> QED
    BY <1>1, <2>1 DEF HeapInv, HeapTypeOK
<1>4. CASE UndoLast(c)
  <2>1. npages' = npages /\ t_xmin' = t_xmin /\ active' = active /\ pc[c] = "open"
    BY <1>4 DEF UndoLast, mgr
  <2> QED
    BY <1>1, <1>4, <2>1, UndoEffect DEF HeapInv
<1>5. CASE UNCHANGED heap
  <2>1. \A t \in Tid : t_xmin[t] \in active' => t_xmin[t] \in active \/ t_xmax[t] = INVALID_XID
    <3>1. ASSUME NEW l \in Level, Register(c, l), NEW t \in Tid PROVE t_xmin[t] # xid[c]
      BY <3>1 DEF Register, IInv, XidInv, Fresh
    <3> QED
      BY <3>1, MgrSteps DEF AllocateXid, Register, LogCommit, LeaveActive, PublishCommit,
         Abort, DropTransaction, Removed, mgr
  <2> QED
    BY <1>1, <1>5, <2>1 DEF HeapInv, heap
<1> QED
  BY <1>2, <1>3, <1>4, <1>5, HeapSteps

-----------------------------------------------------------------------------
(* Write locks *)

\* A step keeps the marks of unfinished transactions locked.
LEMMA StepDeleterHoldsLock ==
  ASSUME IInv, NEW c \in Client, Step(c)
  PROVE  DeleterHoldsLock'
<1> SUFFICES ASSUME NEW t \in Tid, t_xmax'[t] \in active', t_xmin'[t] # t_xmax'[t]
             PROVE  write_locks'[t] = t_xmax'[t]
  BY DEF DeleterHoldsLock
<1>1. /\ TypeOK /\ HeapTypeOK /\ TxnsTypeOK /\ DeleterHoldsLock /\ OneOutcome /\ ClientInv
      /\ active' \subseteq Xid /\ INVALID_XID \notin Xid /\ 0 \notin Xid
  BY StepTypeOK DEF IInv, TypeOK, MgrTypeOK, Xid, FirstXid, INVALID_XID
<1>2. CASE SetXmax(c)
  <2>1. target[c] = t => write_locks[t] = xid[c]
    BY <1>2 DEF SetXmax, IInv, ScanInv
  <2> QED
    BY <1>1, <1>2, <2>1 DEF SetXmax, DeleterHoldsLock, HeapTypeOK, mgr
<1>3. CASE InsertTuple(c) \/ UpdateTuple(c)
  <2>1. /\ t_xmin' = [t_xmin EXCEPT ![npages + 1] = xid[c]]
        /\ t_xmax' = [t_xmax EXCEPT ![npages + 1] = INVALID_XID]
        /\ active' = active /\ write_locks' = write_locks
    BY <1>3 DEF InsertTuple, UpdateTuple, InsertVersion, mgr
  <2> QED
    BY <1>1, <2>1 DEF DeleterHoldsLock, HeapTypeOK
<1>4. CASE UndoLast(c)
  <2>1. t_xmin' = t_xmin /\ active' = active /\ write_locks' = write_locks
    BY <1>4 DEF UndoLast, mgr
  <2> QED
    BY SMTT(30), <1>1, <1>4, <2>1, UndoEffect DEF DeleterHoldsLock
<1>5. CASE UNCHANGED heap
  <2>1. t_xmax[t] \in active
    <3>1. ASSUME NEW l \in Level, Register(c, l) PROVE t_xmax[t] # xid[c]
      BY <3>1 DEF Register, IInv, XidInv, Fresh
    <3> QED
      BY <1>5, <3>1, MgrSteps DEF heap, AllocateXid, Register, LogCommit, LeaveActive,
         PublishCommit, Abort, DropTransaction, Removed, mgr
  <2>2. write_locks[t] = t_xmax[t]
    BY <1>1, <1>5, <2>1 DEF DeleterHoldsLock, heap
  <2>3. ASSUME NEW u \in Tid, AcquireWriteLock(c, u) PROVE write_locks'[t] = t_xmax[t]
    BY <1>1, <2>1, <2>2, <2>3, StepTypeOK DEF AcquireWriteLock, Grantable, Granted, TypeOK,
       MgrTypeOK, TxnsTypeOK
  <2>4. CASE ReleaseAll(c)
    <3>1. xid[c] \notin active
      BY <1>1, <2>4 DEF ReleaseAll, ClientInv, OneOutcome
    <3> QED
      BY <1>5, <2>1, <2>2, <2>4, <3>1 DEF ReleaseAll, Released, heap
  <2> QED
    BY SMTT(30), <1>5, <2>2, <2>3, <2>4, LockSteps DEF heap
<1> QED
  BY <1>2, <1>3, <1>4, <1>5, HeapSteps

\* No step leaves a lock with a finished transaction.
LEMMA StepLockHolderUnfinished ==
  ASSUME IInv, NEW c \in Client, Step(c)
  PROVE  LockHolderUnfinished'
<1> SUFFICES ASSUME NEW t \in Tid, write_locks'[t] # 0
             PROVE  \/ write_locks'[t] \in active'
                    \/ \E d \in Client : /\ xid'[d] = write_locks'[t]
                                         /\ pc'[d] \in {"publish", "release"}
  BY DEF LockHolderUnfinished
<1> DEFINE x == write_locks'[t]
<1>1. TypeOK /\ TypeOK' /\ LockHolderUnfinished /\ ClientInv /\ x \in Xid
  BY StepTypeOK DEF IInv, TypeOK, TxnsTypeOK
<1>2. CASE x # xid[c]
  <2>1. write_locks[t] = x /\ x # 0
    BY <1>1, <1>2, OtherMarks
  <2>2. CASE x \in active
    BY <1>2, <2>2, OtherXids
  <2>3. CASE x \notin active
    <3>1. PICK d \in Client : xid[d] = x /\ pc[d] \in {"publish", "release"}
      BY Zenon, <1>1, <2>1, <2>3 DEF LockHolderUnfinished
    <3> QED
      <4>1. d # c
        BY <1>2, <3>1
    <4> QED
        BY <1>1, <3>1, <4>1, OtherClients
  <2> QED
    BY <2>2, <2>3
<1>3. CASE x = xid[c]
  <2> HIDE DEF x
  <2> USE DEF TypeOK, ClientTypeOK, TxnsTypeOK, Goto
  <2>0. (x \in active' \/ (xid'[c] = x /\ pc'[c] \in {"publish", "release"})) => 
          \/ write_locks'[t] \in active'
          \/ \E d \in Client : /\ xid'[d] = write_locks'[t]
                               /\ pc'[d] \in {"publish", "release"}
    BY Zenon DEF x
  <2>1. CASE AllocateXid(c)
    BY <1>1, <1>3, <2>1 DEF AllocateXid, ClientInv, Xid, FirstXid
  <2>2. ASSUME NEW l \in Level, Register(c, l) PROVE x \in active'
    BY Zenon, <1>3, <2>2 DEF Register
  <2>3. CASE SerializationFailure(c) \/ LogCommit(c)
    BY Zenon, <1>1, <1>3, <2>0, <2>3 DEF SerializationFailure, LogCommit, mgr, ClientInv, Running, Label
  <2>4. CASE LeaveActive(c) \/ PublishCommit(c) \/ Abort(c)
    BY <1>1, <1>3, <2>0, <2>4 DEF LeaveActive, PublishCommit, Abort
  <2>5. CASE ReleaseAll(c)
    BY <1>1, <1>3, <2>5 DEF ReleaseAll, Released, x, Xid, FirstXid
  <2>6. CASE /\ UNCHANGED <<active, committed, aborted, durable, xid, NEXT_XID>>
             /\ {pc[c], pc'[c]} \subseteq Running \ {"leave_active"}
    BY Zenon, <1>1, <1>3, <2>0, <2>6 DEF ClientInv
  <2> QED
    BY Zenon, <1>1, <2>0, <2>1, <2>2, <2>3, <2>4, <2>5, <2>6, RunningSteps
<1> QED
  BY <1>2, <1>3

-----------------------------------------------------------------------------
(* Scans *)

\* A step keeps scans and write targets inside the heap, and the lock held.
LEMMA StepScanInv ==
  ASSUME IInv, NEW c \in Client, Step(c)
  PROVE  ScanInv'
<1> DEFINE Bounds(d) == seen[d] \subseteq 1..npages /\ limit[d] <= npages
           Quiet(d)  == pc[d] \notin InStatement => seen[d] = {}
           Cursor(d) == pc[d] = "scan" => cursor[d] >= 1
           Target(d) == pc[d] \in {"delete", "note_delete", "deleted", "note_insert"}
                          => target[d] \in 1..npages
           Locked(d) == pc[d] = "delete" =>
                          /\ write_locks[target[d]] = xid[d]
                          /\ t_xmin[target[d]] \in committed \cup {xid[d]}
<1>1. /\ TypeOK /\ ScanTypeOK /\ ClientTypeOK /\ HeapTypeOK
      /\ npages \in Nat /\ npages' \in Nat /\ npages <= npages'
      /\ \A d \in Client : limit[d] \in Nat /\ cursor[d] \in Nat
      /\ \A d \in Client : Bounds(d) /\ Quiet(d) /\ Cursor(d) /\ Target(d) /\ Locked(d)
  BY HeapGrows DEF IInv, TypeOK, ScanTypeOK, ScanInv
<1>2. 1..npages \subseteq 1..npages' /\ 1..npages \subseteq Tid
  BY <1>1, TxnAssumption DEF HeapTypeOK, Tid
<1>3. ASSUME NEW d \in Client, d # c
      PROVE  Bounds(d)' /\ Quiet(d)' /\ Cursor(d)' /\ Target(d)' /\ Locked(d)'
  <2>1. /\ pc'[d] = pc[d] /\ xid'[d] = xid[d] /\ target'[d] = target[d]
        /\ seen'[d] = seen[d] /\ limit'[d] = limit[d] /\ cursor'[d] = cursor[d]
    BY <1>1, <1>3, OtherClients
  <2>2. Bounds(d)' /\ Quiet(d)' /\ Cursor(d)' /\ Target(d)'
    <3>1. Bounds(d) /\ Quiet(d) /\ Cursor(d) /\ Target(d)
      BY Zenon, <1>1
    <3> QED
      BY <1>1, <1>2, <2>1, <3>1
  <2>3. ASSUME pc[d] = "delete"
        PROVE  /\ write_locks'[target[d]] = xid[d]
               /\ t_xmin'[target[d]] \in committed' \cup {xid[d]}
    <3>1. target[d] \in 1..npages /\ target[d] \in Tid /\ target[d] <= npages
      <4>1. target[d] \in 1..npages
        BY Zenon, <1>1, <2>3
      <4> QED
        BY <1>2, <4>1
    <3>2. xid[d] \in Xid /\ xid[d] # xid[c]
      BY SMTT(30), <1>1, <1>3, <2>3, XidOfClient DEF IInv, XidInv, ClientInv
    <3>3. t_xmin'[target[d]] = t_xmin[target[d]]
      BY SMTT(30), <1>1, <3>1, HeapGrows
    <3>4. write_locks'[target[d]] = xid[d]
      BY <1>1, <2>3, <3>1, <3>2, OtherMarks
    <3> QED
      BY Zenon, <1>1, <2>3, <3>3, <3>4, CommittedGrows
  <2> QED
    BY <2>1, <2>2, <2>3
<1>4. Bounds(c)'
  <2>1. /\ seen[c] \subseteq 1..npages /\ limit[c] <= npages
        /\ npages \in Nat /\ limit[c] \in Nat /\ cursor[c] \in Nat
        /\ pc[c] = "scan" => cursor[c] >= 1
    BY Zenon, <1>1
  <2>2. limit \in [Client -> 0..MaxTid] /\ seen \in [Client -> SUBSET Tid]
    BY <1>1 DEF ScanTypeOK
  <2>3. CASE ScanPage(c)
    <3>1. cursor[c] \in 1..npages
      BY <2>1, <2>3 DEF ScanPage
    <3>2. seen'[c] \subseteq seen[c] \cup {cursor[c]} /\ limit' = limit /\ npages' = npages
      BY <2>2, <2>3 DEF ScanPage, heap
    <3> QED
      BY <2>1, <3>1, <3>2
  <2>4. CASE LockCommitted(c)
    <3>1. seen'[c] = {} /\ limit'[c] = npages /\ npages' = npages
      BY <2>2, <2>4 DEF LockCommitted, heap
    <3> QED
      BY <2>1, <3>1
  <2>5. CASE EndStatement(c) \/ Abort(c)
    <3>1. seen'[c] = {} /\ limit'[c] = 0 /\ npages' = npages
      BY Zenon, <2>2, <2>5 DEF EndStatement, Abort, heap
    <3> QED
      BY <2>1, <3>1
  <2>6. CASE seen'[c] \subseteq seen[c] /\ limit' = limit
    <3>1. Bounds(c) /\ npages \in Nat /\ npages' \in Nat /\ npages <= npages' /\ limit[c] \in Nat
      BY Zenon, <1>1
    <3> QED
      BY <1>2, <2>6, <3>1
  <2> QED
    BY Zenon, <2>2, <2>3, <2>4, <2>5, <2>6, ScanSteps DEF StartScan, AcquireWriteLock, scan
<1>5. Quiet(c)'
  <2> SUFFICES ASSUME pc'[c] \notin InStatement PROVE seen'[c] = {}
    OBVIOUS
  <2>1. TypeOK /\ seen \in [Client -> SUBSET Tid] /\ pc \in [Client -> Label]
    BY <1>1 DEF ScanTypeOK, ClientTypeOK
  <2>2. CASE EndStatement(c) \/ Abort(c)
    BY Zenon, <2>1, <2>2 DEF EndStatement, Abort
  <2>3. CASE pc[c] \notin InStatement
    <3>1. seen[c] = {}
      BY <1>1, <2>3
    <3>2. CASE LockCommitted(c)
      BY Zenon, <2>1, <3>2 DEF LockCommitted
    <3>3. ~ScanPage(c) /\ \A t \in Tid : ~AcquireWriteLock(c, t)
      BY Zenon, <2>3 DEF ScanPage, AcquireWriteLock, InStatement
    <3> QED
      BY Zenon, <2>2, <3>1, <3>2, <3>3, ScanSteps DEF StartScan, scan
  <2> QED
    BY <2>1, <2>2, <2>3, LabelSteps
<1>6. Cursor(c)'
  <2>1. /\ TypeOK /\ cursor \in [Client -> 0..MaxTid + 1] /\ cursor[c] \in Nat
        /\ pc[c] = "scan" => cursor[c] >= 1
    BY SMTT(30), <1>1 DEF ScanTypeOK
  <2>2. CASE LockCommitted(c)
    <3>1. cursor'[c] = 1
      BY <2>1, <2>2 DEF LockCommitted
    <3> QED
      BY <3>1
  <2>3. CASE ScanPage(c)
    <3>1. pc[c] = "scan" /\ cursor'[c] = cursor[c] + 1
      BY Zenon, <2>1, <2>3 DEF ScanPage
    <3> QED
      BY <2>1, <3>1
  <2> QED
    BY SMTT(30), <2>1, <2>2, <2>3, LabelSteps
<1>7. Target(c)'
  <2>1. ASSUME NEW t \in Tid, AcquireWriteLock(c, t) PROVE target'[c] \in 1..npages'
    BY Zenon, <1>1, <1>2, <2>1 DEF AcquireWriteLock, ClientTypeOK
  <2>2. CASE SetXmax(c) \/ NoteDelete(c)
    BY ZenonT(30), <1>1, <1>2, <2>2 DEF SetXmax, NoteDelete
  <2>3. CASE InsertTuple(c) \/ UpdateTuple(c)
    <3>1. npages' = npages + 1 /\ target' = [target EXCEPT ![c] = npages + 1]
      BY Zenon, <2>3 DEF InsertTuple, UpdateTuple, InsertVersion
    <3> QED
      BY <1>1, <3>1 DEF ClientTypeOK
  <2> QED
    BY Zenon, <1>1, <2>1, <2>2, <2>3, LabelSteps
<1>8. Locked(c)'
  <2> SUFFICES ASSUME NEW t \in Tid, AcquireWriteLock(c, t)
               PROVE  /\ write_locks'[target'[c]] = xid'[c]
                      /\ t_xmin'[target'[c]] \in committed' \cup {xid'[c]}
    BY Zenon, <1>1, LabelSteps
  <2>1. target'[c] = t /\ xid' = xid /\ t_xmin' = t_xmin /\ committed' = committed
    BY Zenon, <1>1 DEF AcquireWriteLock, ClientTypeOK, heap, mgr
  <2>2. write_locks'[t] = xid[c]
    BY Zenon DEF AcquireWriteLock, Granted, IInv, TypeOK, TxnsTypeOK
  <2>3. t_xmin[t] \in committed \cup {xid[c]}
    BY DEF AcquireWriteLock, IInv, NoDirtyRead
  <2> QED
    BY ZenonT(30), <2>1, <2>2, <2>3
<1> QED
  BY Zenon, <1>3, <1>4, <1>5, <1>6, <1>7, <1>8 DEF ScanInv

=============================================================================
