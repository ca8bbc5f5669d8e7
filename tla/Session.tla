------------------------------- MODULE Session -------------------------------
(***************************************************************************)
(* The sessions of one query engine (crates/sql/src/engine.rs): BEGIN,     *)
(* COMMIT, ROLLBACK, savepoints with their undo log, SET TRANSACTION,      *)
(* autocommit, and the prepared statements all sessions share.             *)
(*                                                                         *)
(* One action is one statement of one session: a connection sends the next *)
(* one only after the answer to the last.  What happens inside statements  *)
(* that run at the same time is the subject of TxnManager.                 *)
(*                                                                         *)
(* A tuple is a tid with the header fields t_xmin and t_xmax, a statement  *)
(* an INSERT, a DELETE or an UPDATE of one tuple.                          *)
(***************************************************************************)
EXTENDS Integers, Sequences, FiniteSets

CONSTANTS
  SessionId, \* session ids
  Name,      \* savepoint names
  Stmt,      \* names of prepared statements
  PrepareOp, \* operations the clients prepare
  Level,     \* isolation levels the clients ask for
  Loaded,    \* tuples a first, committed transaction inserted
  MaxXid,    \* bound: the last XID handed out
  MaxTid,    \* bound: tuples the heap can hold
  MaxSave    \* bound: savepoints of all sessions together

RC  == "ReadCommitted"
SER == "Serializable"

Loader  == 3
Xid     == Loader..MaxXid
Tid     == 1..MaxTid
Op      == {"INSERT", "DELETE", "UPDATE"}
NoStmt  == "none"

\* SessionState; the one without a transaction stands for None.
State(x, frames, log) == [xid |-> x, savepoints |-> frames, undo_log |-> log]
NoState == State(0, << >>, << >>)

ASSUME SessionAssumption ==
  /\ MaxXid \in Nat /\ Loader <= MaxXid /\ MaxTid \in Nat /\ MaxSave \in Nat
  /\ Loaded \in 0..MaxTid
  /\ PrepareOp \subseteq Op
  /\ Level \subseteq {RC, "RepeatableRead", SER}

VARIABLES
  next_xid,            \* the next XID to hand out
  active, committed,   \* the transaction manager's sets
  isolation,           \* isolation level of each active transaction
  snapshot,            \* committed transactions its stored snapshot shows; {}: none
  t_xmin, t_xmax,      \* tuple headers
  write_locks,         \* holder of each tuple's write lock, or 0
  session_states,      \* SessionState of each session, or NoState
  session_isolation,   \* level the session's next BEGIN takes
  prepared_statements  \* the operation behind each name, or NoStmt

heap == <<t_xmin, t_xmax>>
txns == <<next_xid, active, committed, isolation, snapshot>>
vars == <<txns, heap, write_locks, session_states, session_isolation,
          prepared_statements>>

Init ==
  /\ next_xid = Loader + 1 /\ active = {} /\ committed = {Loader}
  /\ isolation = [x \in Xid |-> RC] /\ snapshot = [x \in Xid |-> {}]
  /\ t_xmin = [t \in Tid |-> IF t <= Loaded THEN Loader ELSE 0]
  /\ t_xmax = [t \in Tid |-> 0]
  /\ write_locks = [t \in Tid |-> 0]
  /\ session_states = [s \in SessionId |-> NoState]
  /\ session_isolation = [s \in SessionId |-> RC]
  /\ prepared_statements = [p \in Stmt |-> NoStmt]

-----------------------------------------------------------------------------
(* The transaction manager, as the engine calls it.                        *)

\* begin: the levels above READ COMMITTED take their snapshot here.
BeginTxn(level) ==
  /\ next_xid <= MaxXid
  /\ next_xid' = next_xid + 1
  /\ active' = active \cup {next_xid}
  /\ isolation' = [isolation EXCEPT ![next_xid] = level]
  /\ snapshot' = [snapshot EXCEPT ![next_xid] = IF level = RC THEN {} ELSE committed]

ReleaseAll(x) ==
  write_locks' = [t \in Tid |-> IF write_locks[t] = x THEN 0 ELSE write_locks[t]]

\* The Transaction record goes with the entry in active.
Forget(x) ==
  /\ isolation' = [isolation EXCEPT ![x] = RC]
  /\ snapshot' = [snapshot EXCEPT ![x] = {}]

CommitTxn(x) ==
  /\ active' = active \ {x} /\ committed' = committed \cup {x}
  /\ Forget(x) /\ ReleaseAll(x)
  /\ UNCHANGED next_xid

AbortTxn(x) ==
  /\ active' = active \ {x}
  /\ Forget(x) /\ ReleaseAll(x)
  /\ UNCHANGED <<next_xid, committed>>

\* check_serializable_conflict finds a cycle: only a transaction that wrote, and
\* only through another active one, both SERIALIZABLE.  (TxnManager has the
\* read and write sets the graph is built from; here the answer is left open.)
ConflictPossible(x) ==
  /\ isolation[x] = SER
  /\ \E y \in active \ {x} : isolation[y] = SER
  /\ \E t \in Tid : x \in {t_xmin[t], t_xmax[t]}

\* current_snapshot: stored for the higher levels, fresh for READ COMMITTED.
CurrentSnapshot(x) == IF isolation[x] = RC THEN committed ELSE snapshot[x]

\* scan_visible_tuples
Visible(x) ==
  {t \in Tid :
     /\ t_xmax[t] # x
     /\ \/ t_xmin[t] = x
        \/ t_xmin[t] \in CurrentSnapshot(x) /\ t_xmax[t] \notin CurrentSnapshot(x)}

Fresh == {t \in Tid : t_xmin[t] = 0 /\ \A u \in 1..t - 1 : t_xmin[u] # 0}

\* What one operation of x may do: the tuple it deletes and the one it inserts
\* (0: none).  A write lock another transaction holds is an error instead.
Changes(x, op) ==
  {c \in [del : Visible(x) \cup {0}, ins : Fresh \cup {0}] :
     /\ c.del = 0 <=> op = "INSERT"
     /\ c.ins = 0 <=> op = "DELETE"
     /\ c.del # 0 => write_locks[c.del] \in {0, x}}

\* insert_tuple, delete_tuple, update_tuple
Apply(x, c) ==
  /\ t_xmin' = [t \in Tid |-> IF t = c.ins THEN x ELSE t_xmin[t]]
  /\ t_xmax' = [t \in Tid |-> IF t = c.del THEN x ELSE t_xmax[t]]

Lock(x, c) == write_locks' = [t \in Tid |-> IF t = c.del THEN x ELSE write_locks[t]]

\* What the executor records of it in the undo log
LogOf(c) ==
  (IF c.del = 0 THEN << >> ELSE <<[kind |-> "Delete", tid |-> c.del]>>)
  \o (IF c.ins = 0 THEN << >> ELSE <<[kind |-> "Insert", tid |-> c.ins]>>)

-----------------------------------------------------------------------------
(* execute_session_single, one action per kind of statement.               *)

InBlock(s) == session_states[s] # NoState

\* SessionState::new and with_isolation
NewState(x) == State(x, << >>, << >>)

\* BEGIN [ISOLATION LEVEL level]; inside a block it does nothing.
Begin(s, level) ==
  /\ ~InBlock(s)
  /\ BeginTxn(level)
  /\ session_states' = [session_states EXCEPT ![s] = NewState(next_xid)]
  /\ UNCHANGED <<committed, heap, write_locks, session_isolation, prepared_statements>>

BeginDefault(s) == Begin(s, session_isolation[s])

Leave(s) ==
  /\ InBlock(s)
  /\ session_states' = [session_states EXCEPT ![s] = NoState]
  /\ UNCHANGED <<session_isolation, prepared_statements>>

Commit(s) ==
  /\ Leave(s)
  /\ CommitTxn(session_states[s].xid)
  /\ UNCHANGED heap

\* The session is removed before txn_manager.commit fails, and nothing aborts
\* the transaction.
CommitFails(s) ==
  /\ Leave(s)
  /\ ConflictPossible(session_states[s].xid)
  /\ UNCHANGED <<txns, heap, write_locks>>

\* Mutant: the session goes, its transaction is not aborted.
RollbackSessionOnly(s) == Leave(s) /\ UNCHANGED <<txns, heap, write_locks>>

\* ROLLBACK, and abort_session when a connection drops
Rollback(s) ==
  /\ Leave(s)
  /\ AbortTxn(session_states[s].xid)
  /\ UNCHANGED heap

SaveCount ==
  Cardinality({u \in SessionId \X (1..MaxSave) :
                 InBlock(u[1]) /\ u[2] <= Len(session_states[u[1]].savepoints)})

\* SAVEPOINT n, opening a READ COMMITTED block if there is none
Savepoint(s, n) ==
  LET opened == IF InBlock(s) THEN session_states[s] ELSE NewState(next_xid)
      frame  == [name |-> n, undo_log_start |-> Len(opened.undo_log)]
  IN /\ SaveCount < MaxSave
     /\ IF InBlock(s) THEN UNCHANGED txns ELSE BeginTxn(RC) /\ UNCHANGED committed
     /\ session_states' = [session_states EXCEPT ![s] =
          State(opened.xid, Append(opened.savepoints, frame), opened.undo_log)]
     /\ UNCHANGED <<heap, write_locks, session_isolation, prepared_statements>>

\* undo_insert and undo_delete
UndoEntry(x, e, xmin, xmax) ==
  [xmax EXCEPT ![e.tid] =
     IF e.kind = "Insert" THEN (IF xmin[e.tid] = x THEN x ELSE @)
                          ELSE (IF @ = x THEN 0 ELSE @)]

\* Mutant: first entry first.
UndoneForward(x, entries, xmin, xmax) ==
  LET undo[i \in 0..Len(entries)] ==
        IF i = 0 THEN xmax ELSE UndoEntry(x, entries[i], xmin, undo[i - 1])
  IN undo[Len(entries)]

\* apply_undo_entries: last entry first
Undone(x, entries, xmin, xmax) ==
  LET undo[i \in 0..Len(entries)] ==
        IF i = Len(entries) THEN xmax ELSE UndoEntry(x, entries[i + 1], xmin, undo[i + 1])
  IN undo[0]

\* The innermost frame of the name, 0 when there is none.
LastNamed(frames, n) ==
  LET named == {i \in DOMAIN frames : frames[i].name = n}
  IN IF named = {} THEN 0 ELSE CHOOSE i \in named : \A j \in named : i >= j

\* Mutant: the frames inside the one rolled back to stay as well.
AllFrames(frames, pos) == frames

\* The frames up to the one rolled back to stay.
FramesKept(frames, pos) == SubSeq(frames, 1, pos)

Without(frames, pos) == SubSeq(frames, 1, pos - 1) \o SubSeq(frames, pos + 1, Len(frames))

\* ROLLBACK TO n: drains the log from the frame's start and keeps the frame.
RollbackTo(s, n) ==
  LET st  == session_states[s]
      pos == LastNamed(st.savepoints, n)
  IN /\ InBlock(s) /\ pos # 0
     /\ LET start == st.savepoints[pos].undo_log_start
        IN /\ session_states' = [session_states EXCEPT ![s] =
                State(st.xid, FramesKept(st.savepoints, pos), SubSeq(st.undo_log, 1, start))]
           /\ t_xmax' = Undone(st.xid, SubSeq(st.undo_log, start + 1, Len(st.undo_log)),
                               t_xmin, t_xmax)
     /\ UNCHANGED <<txns, t_xmin, write_locks, session_isolation, prepared_statements>>

\* RELEASE n: only that frame goes, its entries stay in the log.
Release(s, n) ==
  LET st  == session_states[s]
      pos == LastNamed(st.savepoints, n)
  IN /\ InBlock(s) /\ pos # 0
     /\ session_states' = [session_states EXCEPT ![s] =
          State(st.xid, Without(st.savepoints, pos), st.undo_log)]
     /\ UNCHANGED <<txns, heap, write_locks, session_isolation, prepared_statements>>

\* SET TRANSACTION: changes the running transaction, and the session's default.
SetTransaction(s, level) ==
  /\ session_isolation' = [session_isolation EXCEPT ![s] = level]
  /\ IF InBlock(s)
     THEN LET x == session_states[s].xid
          IN /\ isolation' = [isolation EXCEPT ![x] = level]
             /\ snapshot' = [snapshot EXCEPT ![x] =
                               IF level # RC /\ @ = {} THEN committed ELSE @]
     ELSE UNCHANGED <<isolation, snapshot>>
  /\ UNCHANGED <<next_xid, active, committed, heap, write_locks, session_states,
                 prepared_statements>>

\* A statement of an open block: the executor records its writes in the log.
Statement(s, op) ==
  LET st == session_states[s]
      x  == st.xid
  IN /\ InBlock(s)
     /\ \E c \in Changes(x, op) :
          /\ Apply(x, c) /\ Lock(x, c)
          /\ session_states' = [session_states EXCEPT ![s] =
               State(x, st.savepoints, st.undo_log \o LogOf(c))]
     /\ UNCHANGED <<txns, session_isolation, prepared_statements>>

\* EXECUTE p of an open block: execute_in_txn passes no undo log.
Execute(s, p) ==
  LET x == session_states[s].xid
  IN /\ InBlock(s)
     /\ prepared_statements[p] # NoStmt
     /\ \E c \in Changes(x, prepared_statements[p]) : Apply(x, c) /\ Lock(x, c)
     /\ UNCHANGED <<txns, session_states, session_isolation, prepared_statements>>

\* What a statement of x that failed half way has left in the heap
Partial(x) ==
  \/ UNCHANGED heap
  \/ \E op \in Op : \E c \in Changes(x, op) : Apply(x, c)

\* Mutant: the session keeps the aborted transaction.
StatementFailsInPlace(s) ==
  /\ InBlock(s)
  /\ AbortTxn(session_states[s].xid)
  /\ Partial(session_states[s].xid)
  /\ UNCHANGED <<session_states, session_isolation, prepared_statements>>

\* A statement of an open block fails: a lock conflict, a constraint, an
\* unknown name.  The whole transaction is aborted.
StatementFails(s) ==
  /\ Leave(s)
  /\ AbortTxn(session_states[s].xid)
  /\ Partial(session_states[s].xid)

\* execute: outside a block the statement, or what EXECUTE stands for, is a
\* READ COMMITTED transaction of its own.
AutoCommit(s) ==
  /\ ~InBlock(s) /\ next_xid <= MaxXid
  /\ next_xid' = next_xid + 1
  /\ \/ /\ \E op \in Op : \E c \in Changes(next_xid, op) : Apply(next_xid, c)
        /\ committed' = committed \cup {next_xid}
     \/ Partial(next_xid) /\ UNCHANGED committed
  /\ UNCHANGED <<active, isolation, snapshot, write_locks, session_states,
                 session_isolation, prepared_statements>>

\* PREPARE p AS op: the map belongs to the engine, any session replaces it.
Prepare(p, op) ==
  /\ prepared_statements' = [prepared_statements EXCEPT ![p] = op]
  /\ UNCHANGED <<txns, heap, write_locks, session_states, session_isolation>>

\* DEALLOCATE p, DEALLOCATE ALL
Deallocate(P) ==
  /\ prepared_statements' = [p \in Stmt |-> IF p \in P THEN NoStmt ELSE prepared_statements[p]]
  /\ UNCHANGED <<txns, heap, write_locks, session_states, session_isolation>>

Next ==
  \/ \E s \in SessionId :
       \/ BeginDefault(s) \/ Commit(s) \/ CommitFails(s) \/ Rollback(s)
       \/ StatementFails(s) \/ AutoCommit(s)
       \/ \E n \in Name : Savepoint(s, n) \/ RollbackTo(s, n) \/ Release(s, n)
       \/ \E level \in Level : Begin(s, level) \/ SetTransaction(s, level)
       \/ \E op \in Op : Statement(s, op)
       \/ \E p \in Stmt : Execute(s, p)
  \/ \E p \in Stmt, op \in PrepareOp : Prepare(p, op)
  \/ \E P \in {{p} : p \in Stmt} \cup {Stmt} : Deallocate(P)

Spec == Init /\ [][Next]_vars

-----------------------------------------------------------------------------
(* Properties.                                                             *)

States == {session_states[s] : s \in {r \in SessionId : InBlock(r)}}

\* A session's transaction is active, so neither committed nor unborn, and no
\* other session's.
OwnTransactions ==
  /\ next_xid \in Loader + 1..MaxXid + 1
  /\ active \cup committed \subseteq Loader..next_xid - 1 /\ active \cap committed = {}
  /\ \A s \in SessionId : InBlock(s) =>
       /\ session_states[s].xid \in active
       /\ \A r \in SessionId \ {s} : session_states[r].xid # session_states[s].xid

\* A transaction, or 0, for each tuple.
Headers == [Tid -> Xid \cup {0}]

\* The types of the variables.
TypeOK ==
  /\ OwnTransactions
  /\ {t_xmin, t_xmax, write_locks} \subseteq Headers

\* ROLLBACK TO drains undo_log[start..]: a start beyond the end would panic, and
\* a start below that of an outer frame would undo too much.  The starts are
\* within the log and never decrease from the outer frames to the inner ones.
DrainInBounds ==
  \A st \in States : \A i \in DOMAIN st.savepoints :
    /\ st.savepoints[i].undo_log_start <= Len(st.undo_log)
    /\ \A j \in 1..i : st.savepoints[j].undo_log_start <= st.savepoints[i].undo_log_start

\* Savepoint positions lie inside the undo log they cut, in order, and the session
\* state has its type.
InBounds == TypeOK /\ DrainInBounds

\* A transaction no session can end any more (its locks are never released) is
\* one whose SERIALIZABLE commit failed: no other path of the engine loses one.
OrphansAreSerializable ==
  \A x \in active \ {st.xid : st \in States} : isolation[x] = SER

-----------------------------------------------------------------------------
(* Why they hold: an inductive invariant.                                  *)

Levels == {RC, "RepeatableRead", SER}
Frame  == [name : Name, undo_log_start : Nat]
Entry  == [kind : {"Insert", "Delete"}, tid : Tid]

StateOK ==
  /\ isolation \in [Xid -> Levels] /\ session_isolation \in [SessionId -> Levels]
  /\ session_states \in [SessionId -> [xid : Xid \cup {0}, savepoints : Seq(Frame),
                                        undo_log : Seq(Entry)]]
  /\ \A s \in SessionId : session_states[s].xid = 0 => session_states[s] = NoState

CoreInv    == StateOK /\ OwnTransactions /\ DrainInBounds /\ OrphansAreSerializable
SessionInv == CoreInv /\ TypeOK

-----------------------------------------------------------------------------
(* What a transaction has changed, and what a savepoint would put back.    *)

\* The abstract transaction of x in a heap with these headers.
WorkOf(x, xmin, xmax) ==
  [ins |-> {t \in Tid : xmin[t] = x /\ xmax[t] # x},
   del |-> {t \in Tid : xmin[t] # x /\ xmax[t] = x}]

CopyOf(st, i, xmin, xmax) ==
  LET start == st.savepoints[i].undo_log_start
  IN WorkOf(st.xid, xmin,
            Undone(st.xid, SubSeq(st.undo_log, start + 1, Len(st.undo_log)), xmin, xmax))

=============================================================================
