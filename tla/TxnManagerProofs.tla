-------------------------- MODULE TxnManagerProofs --------------------------
(***************************************************************************)
(* Proofs about TxnManager, for every set of clients and levels and every  *)
(* bound on XIDs and versions.  IInv is shown to be inductive one conjunct *)
(* at a time; the safety properties follow from it.                        *)
(***************************************************************************)
EXTENDS TxnHeapProofs

-----------------------------------------------------------------------------
(* The theorems *)

\* The initial states satisfy the inductive invariant.
LEMMA InitIInv == Init => IInv
<1> SUFFICES ASSUME Init PROVE IInv
  OBVIOUS
<1> USE TxnAssumption DEF Init
<1>1. MgrTypeOK /\ HeapTypeOK
  BY DEF MgrTypeOK, HeapTypeOK, Xid, Tid, FirstXid, Loader, INVALID_XID
<1>2. TxnsTypeOK
  BY DEF TxnsTypeOK, Snapshot, NoSnapshot, FirstXid
<1>3. ScanTypeOK /\ ClientTypeOK
  BY DEF ScanTypeOK, ClientTypeOK, Snapshot, NoSnapshot, Label, FirstXid
<1>4. XidInv
  BY DEF XidInv, Fresh, Xid, Tid, FirstXid, Loader, INVALID_XID
<1>5. ClientInv /\ OneOutcome /\ CommitIsLogged
  BY DEF ClientInv, OneOutcome, CommitIsLogged, Running
<1>6. ScanInv /\ NoDirtyRead /\ HeapInv /\ DeleterHoldsLock /\ LockHolderUnfinished
  BY DEF ScanInv, InStatement, NoDirtyRead, HeapInv, DeleterHoldsLock, LockHolderUnfinished,
     Tid, INVALID_XID
<1> QED
  BY <1>1, <1>2, <1>3, <1>4, <1>5, <1>6 DEF IInv, TypeOK

\* Every step preserves the inductive invariant.
LEMMA NextIInv == IInv /\ [Next]_vars => IInv'
<1> SUFFICES ASSUME IInv, [Next]_vars PROVE IInv'
  OBVIOUS
<1>1. ASSUME NEW c \in Client, Step(c) PROVE IInv'
  BY SMTT(30), <1>1, StepTypeOK, StepXidInv, StepClientInv, StepOneOutcome, StepCommitIsLogged,
     StepScanInv, StepNoDirtyRead, StepHeapInv, StepDeleterHoldsLock, StepLockHolderUnfinished
     DEF IInv
<1>2. CASE UNCHANGED vars
  BY <1>2 DEF IInv, vars, mgr, txns, heap, scan, TypeOK, MgrTypeOK, TxnsTypeOK, HeapTypeOK,
     ScanTypeOK, ClientTypeOK, XidInv, Fresh, ClientInv, OneOutcome, CommitIsLogged, ScanInv,
     NoDirtyRead, HeapInv, DeleterHoldsLock, LockHolderUnfinished
<1> QED
  BY <1>1, <1>2 DEF Next, Finished

\* All the parts of the inductive invariant hold in every reachable state.
THEOREM InductiveInvariant == Spec => []IInv
BY InitIInv, NextIInv, PTL DEF Spec

\* Every variable of the transaction manager keeps its type and its bounds.
THEOREM TypeCorrect == Spec => []TypeOK
<1>1. IInv => TypeOK
  BY DEF IInv
<1> QED
  BY <1>1, InductiveInvariant, PTL

\* commit and abort never both take effect on a transaction, and a finished
\* one is not active: `active', `committed' and `aborted' stay disjoint.
THEOREM OneOutcomeHolds == Spec => []OneOutcome
<1>1. IInv => OneOutcome
  BY DEF IInv
<1> QED
  BY <1>1, InductiveInvariant, PTL

\* What other transactions may see as committed has its Commit record on
\* disk; what has been aborted has none.
THEOREM CommitIsLoggedHolds == Spec => []CommitIsLogged
<1>1. IInv => CommitIsLogged
  BY DEF IInv
<1> QED
  BY <1>1, InductiveInvariant, PTL

\* No scan returns a version inserted by another, uncommitted transaction.
THEOREM NoDirtyReadHolds == Spec => []NoDirtyRead
<1>1. IInv => NoDirtyRead
  BY DEF IInv
<1> QED
  BY <1>1, InductiveInvariant, PTL

\* A deletion mark of an unfinished transaction is covered by its write lock.
THEOREM DeleterHoldsLockHolds == Spec => []DeleterHoldsLock
<1>1. IInv => DeleterHoldsLock
  BY DEF IInv
<1> QED
  BY <1>1, InductiveInvariant, PTL

\* No lock is held for a transaction that has finished.
THEOREM LockHolderUnfinishedHolds == Spec => []LockHolderUnfinished
<1>1. IInv => LockHolderUnfinished
  BY DEF IInv
<1> QED
  BY <1>1, InductiveInvariant, PTL

\* delete_tuple and the undo functions change the deletion mark of an
\* unfinished transaction only on behalf of that transaction.
THEOREM NoDirtyWriteHolds == Spec => NoDirtyWrite
<1> DEFINE MarksKept == \A t \in Tid : t_xmax[t] \in active /\ t_xmax'[t] # t_xmax[t] =>
                     \E c \in Client : xid[c] = t_xmax[t] /\ pc[c] = "open"
<1>1. ASSUME IInv, [Next]_vars PROVE [MarksKept]_vars
  <2> SUFFICES ASSUME NEW c \in Client, Step(c), NEW t \in Tid,
                      t_xmax[t] \in active, t_xmax'[t] # t_xmax[t]
               PROVE  \E d \in Client : xid[d] = t_xmax[t] /\ pc[d] = "open"
    BY <1>1 DEF Next, Finished
  <2>1. TypeOK /\ HeapTypeOK /\ OneOutcome /\ INVALID_XID \notin active
    BY <1>1 DEF IInv, TypeOK, MgrTypeOK, Xid, FirstXid, INVALID_XID
  <2>2. CASE SetXmax(c)
    <3>1. target[c] = t /\ write_locks[t] = xid[c] /\ t_xmin[t] \in committed \cup {xid[c]}
      BY <1>1, <2>1, <2>2 DEF SetXmax, HeapTypeOK, IInv, ScanInv
    <3>2. t_xmax[t] # xid[c]
      BY <2>1, <2>2, <3>1 DEF SetXmax, HeapTypeOK
    <3> QED
      BY <1>1, <2>1, <3>1, <3>2 DEF IInv, DeleterHoldsLock, OneOutcome
  <2>3. CASE InsertTuple(c) \/ UpdateTuple(c)
    <3>1. t_xmax' = [t_xmax EXCEPT ![npages + 1] = INVALID_XID]
      BY <2>3 DEF InsertTuple, UpdateTuple, InsertVersion
    <3>2. t > npages
      BY <2>1, <3>1, TxnAssumption DEF HeapTypeOK
    <3> QED
      BY <1>1, <2>1, <3>2 DEF IInv, HeapInv
  <2>4. CASE UndoLast(c)
    <3>1. xid[c] \in active /\ pc[c] = "open"
      BY <1>1, <2>4 DEF UndoLast, IInv, ClientInv, Running, Label
    <3> QED
      BY SMTT(30), <1>1, <2>1, <2>4, <3>1, UndoEffect DEF IInv, HeapInv
  <2> QED
    BY <2>2, <2>3, <2>4, HeapSteps DEF heap
<1> QED
  BY <1>1, InductiveInvariant, PTL DEF Spec, NoDirtyWrite

-----------------------------------------------------------------------------
(* Snapshots *)

\* A step keeps what was active when a snapshot was taken hidden from it.
LEMMA StepSnapshotHidesConcurrent ==
  ASSUME IInv, SnapshotHidesConcurrent, NEW c \in Client, Step(c)
  PROVE  SnapshotHidesConcurrent'
<1> DEFINE Hides(s, x) == \A y \in s.in_progress \ {x} : ~XidIsVisible(s, y)
<1>1. TypeOK /\ TxnsTypeOK /\ active \subseteq Xid /\ (pc[c] # "idle" => xid[c] \in Xid)
  BY XidOfClient DEF IInv, TypeOK, MgrTypeOK
<1>2. \A x \in active : Hides(snapshot[x], x)
  BY DEF SnapshotHidesConcurrent
<1>3. ASSUME NEW x \in Xid, NEW next \in FirstXid..MaxXid + 1
      PROVE  Hides(TakeSnapshot(x, next), x)
  BY <1>1, <1>3, SnapshotTaken DEF TakeSnapshot
<1>4. \A x : Hides(NoSnapshot, x)
  BY DEF NoSnapshot
<1> HIDE DEF Hides
<1>5. ASSUME NEW l \in Level, Register(c, l) PROVE \A x \in active' : Hides(snapshot'[x], x)
  <2>1. xid[c] \in Xid /\ xid[c] + 1 \in FirstXid..MaxXid + 1
    BY <1>1, <1>5, TxnAssumption DEF Register, Xid, FirstXid
  <2> QED
    BY <1>1, <1>2, <1>3, <1>4, <1>5, <2>1 DEF Register, TxnsTypeOK
<1>6. CASE SetSnapshot(c)
  <2>1. xid[c] \in Xid /\ next_xid \in FirstXid..MaxXid + 1
    BY <1>1, <1>6 DEF SetSnapshot, TypeOK, MgrTypeOK
  <2>2. \A x \in active' : Hides(snapshot'[x], x)
    BY SMTT(30), <1>1, <1>2, <1>3, <1>6, <2>1 DEF SetSnapshot, TxnsTypeOK, mgr
  <2> QED
    BY <2>2 DEF SnapshotHidesConcurrent, Hides, XidIsVisible
<1>7. CASE LeaveActive(c) \/ Abort(c)
  <2>1. \A x \in active' : Hides(snapshot'[x], x)
    BY <1>1, <1>2, <1>4, <1>7 DEF LeaveActive, Abort, DropTransaction, Removed, TxnsTypeOK
  <2> QED
    BY <2>1 DEF SnapshotHidesConcurrent, Hides, XidIsVisible
<1>8. CASE active' = active /\ snapshot' = snapshot
  BY <1>8 DEF SnapshotHidesConcurrent, XidIsVisible
<1>9. ASSUME NEW l \in Level, Register(c, l) PROVE SnapshotHidesConcurrent'
  BY <1>5, <1>9 DEF SnapshotHidesConcurrent, Hides, XidIsVisible
<1> QED
  <2>1. \/ \E l \in Level : Register(c, l)
        \/ LeaveActive(c) \/ Abort(c) \/ active' = active
    BY MgrSteps DEF AllocateXid, LogCommit, PublishCommit, mgr
  <2>2. \/ \E l \in Level : Register(c, l)
        \/ LeaveActive(c) \/ Abort(c) \/ SetSnapshot(c) \/ snapshot' = snapshot
    BY TxnsSteps DEF SetIsolation, NoteReads, NoteDelete, NoteInsert, txns
  <2> QED
    BY <1>6, <1>7, <1>8, <1>9, <2>1, <2>2

\* A stored snapshot never shows a transaction that was active when it was
\* taken, although xid_is_visible tests xmin before it looks at in_progress.
THEOREM SnapshotHidesConcurrentHolds == Spec => []SnapshotHidesConcurrent
<1>1. Init => SnapshotHidesConcurrent
  BY DEF Init, SnapshotHidesConcurrent
<1>2. IInv /\ SnapshotHidesConcurrent /\ [Next]_vars => SnapshotHidesConcurrent'
  <2>1. ASSUME UNCHANGED vars, SnapshotHidesConcurrent PROVE SnapshotHidesConcurrent'
    BY <2>1 DEF vars, mgr, txns, SnapshotHidesConcurrent, XidIsVisible
  <2> QED
    BY <2>1, StepSnapshotHidesConcurrent DEF Next, Finished
<1> QED
  BY <1>1, <1>2, InductiveInvariant, PTL DEF Spec

-----------------------------------------------------------------------------
(* The serializability check *)

\* A transaction that passes the check closes no cycle with those that have
\* passed it before.
LEMMA CheckClosesNoCycle ==
  ASSUME NoCommittingCycle, NEW x \in SerActive, ~SerializableConflict(x),
         NEW S \in SUBSET (Passed \cup {x}), S # {}
  PROVE  ~\A a \in S : \E b \in S : RwEdge(a, b)
<1> SUFFICES ASSUME \A a \in S : \E b \in S : RwEdge(a, b) PROVE FALSE
  OBVIOUS
<1>1. S \subseteq SerActive
  BY DEF Passed
<1>2. x \in S
  BY DEF NoCommittingCycle
<1>3. PICK b \in S : RwEdge(x, b)
  BY <1>2
<1>4. HasCycle(x)
  <2> DEFINE E == {e \in SerActive \X SerActive : RwEdge(e[1], e[2])}
  <2>1. \A a \in S : \E d \in S : <<a, d>> \in E
    BY <1>1
  <2> HIDE DEF E
  <2>2. CycleFrom(x, SerActive, E)
    BY Zenon, <1>1, <1>2, <2>1 DEF CycleFrom
  <2> QED
    BY <2>2 DEF HasCycle, E
<1>5. read_set[x] # {} /\ b # x
  BY <1>3 DEF RwEdge
<1>6. write_set[x] = {}
  BY <1>4, <1>5 DEF SerializableConflict, SerActive
<1>7. \A a \in S \ {x} : \E d \in S \ {x} : RwEdge(a, d)
  BY <1>6 DEF RwEdge
<1>8. S \ {x} \in SUBSET Passed /\ S \ {x} # {}
  BY <1>5
<1> QED
  BY Zenon, <1>7, <1>8 DEF NoCommittingCycle

\* A step closes no cycle among transactions past their commit check.
LEMMA StepNoCommittingCycle ==
  ASSUME IInv, NoCommittingCycle, NEW c \in Client, Step(c)
  PROVE  NoCommittingCycle'
<1>1. /\ TypeOK /\ TypeOK' /\ TxnsTypeOK /\ active \subseteq Xid
      /\ (pc[c] # "idle" => xid[c] \in Xid)
  BY StepTypeOK, XidOfClient DEF IInv, TypeOK, MgrTypeOK
<1> DEFINE Ready(d) == pc[d] \in {"log_commit", "leave_active"}
<1>2. Ready(c)' => CommitCheck(c) \/ LogCommit(c)
  <2> USE DEF TypeOK, ClientTypeOK, Goto, GotoOrNote
  <2>1. CASE Begin(c) \/ Scan(c)
    BY Zenon, <1>1, <2>1 DEF Begin, Scan, AllocateXid, Register, StartScan, LockCommitted, ScanPage,
       UnlockCommitted, NoteReads, EndStatement
  <2>2. CASE Write(c)
    BY ZenonT(30), <1>1, <2>2 DEF Write, AcquireWriteLock, WriteWriteConflict, SetXmax, NoteDelete,
       FinishDelete, InsertTuple, UpdateTuple, NoteInsert, FinishInsert
  <2>3. CASE ~(Begin(c) \/ Scan(c) \/ Write(c))
    BY SMTT(30), <1>1, <2>3 DEF Step, Commit, SerializationFailure, LeaveActive, PublishCommit,
       SetIsolation, SetSnapshot, UndoLast, AskAbort, Abort, ReleaseAll
  <2> QED
    BY Zenon, <2>1, <2>2, <2>3
<1>3. ASSUME NEW a \in Passed', ~(CommitCheck(c) /\ a = xid[c])
      PROVE  a \in Passed /\ read_set'[a] = read_set[a] /\ write_set'[a] = write_set[a]
  <2>1. PICK d \in Client : xid'[d] = a /\ Ready(d)'
    BY DEF Passed
  <2>2. a \in active' /\ isolation'[a] = SER /\ a \in Xid
    BY <1>1 DEF Passed, SerActive, TypeOK, MgrTypeOK
  <2>3. CASE d # c
    <3>1. xid[d] = a /\ Ready(d) /\ a # xid[c]
      <4>1. xid[d] = a /\ Ready(d)
        BY <1>1, <2>1, <2>3, OtherClients
      <4>2. a # 0
        BY <2>2 DEF Xid, FirstXid
      <4> QED
        BY Zenon, <1>1, <2>3, <4>1, <4>2 DEF IInv, XidInv
    <3>2. /\ isolation'[a] = isolation[a] /\ read_set'[a] = read_set[a]
          /\ write_set'[a] = write_set[a]
      BY Zenon, <1>1, <2>2, <3>1, TxnsSteps DEF TxnsTypeOK, Register, SetIsolation, SetSnapshot,
         NoteReads, NoteDelete, NoteInsert, LeaveActive, Abort, DropTransaction, txns
    <3> QED
      BY Zenon, <2>2, <3>1, <3>2, OtherXids DEF Passed, SerActive
  <2>4. CASE d = c
    <3>1. LogCommit(c)
      <4>1. CASE CommitCheck(c)
        BY <1>3, <2>1, <2>4, <4>1 DEF CommitCheck
      <4> QED
        BY <1>2, <2>1, <2>4, <4>1
    <3>2. UNCHANGED <<active, isolation, read_set, write_set, xid>> /\ pc[c] = "log_commit"
      BY <3>1 DEF LogCommit, mgr, txns
    <3> QED
      BY <2>1, <2>2, <2>4, <3>2 DEF Passed, SerActive
  <2> QED
    BY <2>3, <2>4
<1>4. CASE CommitCheck(c)
  <2>1. xid[c] \in active /\ UNCHANGED <<active, isolation, read_set, write_set>>
    BY <1>4 DEF CommitCheck, mgr, txns, IInv, ClientInv, Running, Label
  <2>2. ASSUME NEW S \in SUBSET Passed', S # {} PROVE ~\A a \in S : \E b \in S : RwEdge(a, b)
    <3>1. CASE xid[c] \in S
      <4>1. xid[c] \in SerActive
        BY <2>1, <2>2, <3>1 DEF Passed, SerActive
      <4>2. S \in SUBSET (Passed \cup {xid[c]})
        BY <1>3, <2>2
      <4> QED
        BY <1>4, <2>2, <4>1, <4>2, CheckClosesNoCycle DEF CommitCheck
    <3>2. CASE xid[c] \notin S
      BY <1>3, <2>2, <3>2 DEF NoCommittingCycle
    <3> QED
      BY <3>1, <3>2
  <2> QED
    BY <2>1, <2>2 DEF NoCommittingCycle, RwEdge
<1>5. CASE ~CommitCheck(c)
  <2>1. \A a \in Passed' : a \in Passed /\ read_set'[a] = read_set[a] /\ write_set'[a] = write_set[a]
    BY <1>3, <1>5
  <2> SUFFICES ASSUME NEW S \in SUBSET Passed', S # {},
                      \A a \in S : \E b \in S : RwEdge(a, b)'
               PROVE  FALSE
    BY DEF NoCommittingCycle
  <2>2. S \in SUBSET Passed /\ \A a \in S : \E b \in S : RwEdge(a, b)
    BY <2>1 DEF RwEdge
  <2> QED
    BY Zenon, <2>2 DEF NoCommittingCycle
<1> QED
  BY <1>4, <1>5

\* The transactions between the check of commit and active.remove never form
\* a cycle of read-write conflicts.
THEOREM NoCommittingCycleHolds == Spec => []NoCommittingCycle
<1>1. Init => NoCommittingCycle
  BY DEF Init, NoCommittingCycle, Passed, SerActive
<1>2. IInv /\ NoCommittingCycle /\ [Next]_vars => NoCommittingCycle'
  <2>1. ASSUME UNCHANGED vars, NoCommittingCycle PROVE NoCommittingCycle'
    BY <2>1 DEF vars, mgr, txns, NoCommittingCycle, Passed, SerActive, RwEdge
  <2> QED
    BY <2>1, StepNoCommittingCycle DEF Next, Finished
<1> QED
  BY <1>1, <1>2, InductiveInvariant, PTL DEF Spec

=============================================================================
