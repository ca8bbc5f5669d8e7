----------------------------- MODULE Savepoints ------------------------------
(***************************************************************************)
(* The sessions of Session, with their flat undo logs, against the         *)
(* transactions and savepoints of NestedTxn.                               *)
(***************************************************************************)
EXTENDS Session

\* The rows committed, the sessions in a block, what each has changed, and what
\* its savepoints would put back.
Rows   == {t \in Tid : t_xmin[t] \in committed /\ t_xmax[t] \notin committed}
Opened == {s \in SessionId : InBlock(s)}
Works  == [s \in SessionId |->
             IF InBlock(s) THEN WorkOf(session_states[s].xid, t_xmin, t_xmax) ELSE [ins |-> {}, del |-> {}]]
Copies(st, xmin, xmax) ==
  [i \in DOMAIN st.savepoints |->
     [name |-> st.savepoints[i].name, copy |-> CopyOf(st, i, xmin, xmax)]]
Stacks == [s \in SessionId |-> Copies(session_states[s], t_xmin, t_xmax)]

Nested == INSTANCE NestedTxn WITH
  Session <- SessionId, Row <- Tid, db <- Rows, open <- Opened, work <- Works, stack <- Stacks

\* Leaving out the deletes of transactions that read from a stored snapshot (they
\* may bring a row back that another transaction has deleted), the engine with
\* its flat undo log is NestedTxn: ROLLBACK TO puts back exactly what the
\* transaction had changed at the savepoint, nested, released, repeated or
\* reused names included, and nobody but the session itself changes its work.
SavepointsNest ==
  /\ Nested!Init
  /\ [][(\A t \in Tid : t_xmax'[t] \in {0, t_xmax[t]} \/ snapshot[t_xmax'[t]] = {})
          => Nested!Next]_<<committed, heap, session_states>>

\* Recorded for every tuple-level write inside a session transaction: undoing
\* the whole log leaves nothing of the transaction behind.
LogIsComplete ==
  \A st \in States : WorkOf(st.xid, t_xmin, Undone(st.xid, st.undo_log, t_xmin, t_xmax)) = Nested!NoWork

=============================================================================
