------------------------------ MODULE NestedTxn ------------------------------
(***************************************************************************)
(* What the sessions of a query engine promise about savepoints, without   *)
(* undo logs, tuple headers or transaction ids.                            *)
(*                                                                         *)
(* A database is a set of rows.  A session's transaction is the rows it    *)
(* has added and the rows it has removed; a savepoint is a named copy of   *)
(* these two sets, and ROLLBACK TO puts the copy back.  A statement run    *)
(* through EXECUTE is the exception: no savepoint of the transaction takes *)
(* it back, so it changes the copies as well.                              *)
(***************************************************************************)
EXTENDS Sequences, Integers, FiniteSets

CONSTANTS Session, Row, Name

VARIABLES
  db,     \* committed rows
  open,   \* sessions inside a transaction block
  work,   \* [ins, del] of each session's transaction
  stack   \* savepoints of each session, innermost last

vars == <<db, open, work, stack>>

NoWork == [ins |-> {}, del |-> {}]

Init ==
  /\ db \in SUBSET Row
  /\ open = {}
  /\ work = [s \in Session |-> NoWork]
  /\ stack = [s \in Session |-> << >>]

Visible(s) == (db \ work[s].del) \cup work[s].ins

\* One transaction's changes after it adds the rows A and removes the rows R.
\* A removed row that is not in the database was added by the transaction
\* itself, so it leaves no trace.
Change(w, A, R) ==
  [ins |-> (w.ins \ R) \cup A, del |-> w.del \cup (R \cap db)]

\* Rows the transactions of other sessions have removed: they are locked.
Taken(s) == UNION {work[o].del : o \in open \ {s}}
Added    == UNION {work[o].ins : o \in open}

\* s may add the rows A and remove the rows R.
Allowed(s, A, R) == A \cap (db \cup Added) = {} /\ R \cap Taken(s) = {}

Begin(s) ==
  /\ s \notin open
  /\ open' = open \cup {s}
  /\ UNCHANGED <<db, work, stack>>

\* A statement of an open block: savepoints keep their copies.
Write(s) ==
  /\ s \in open
  /\ UNCHANGED <<open, db, stack>>
  /\ \E A \in SUBSET Row, R \in SUBSET Visible(s) :
       /\ work' = [work EXCEPT ![s] = Change(@, A, R)]
       /\ Allowed(s, A, R)

\* The same statement run through EXECUTE: it also changes every copy.
WriteThrough(s) ==
  /\ s \in open
  /\ UNCHANGED <<open, db>>
  /\ \E A \in SUBSET Row, R \in SUBSET Visible(s) :
       /\ work' = [work EXCEPT ![s] = Change(@, A, R)]
       /\ Allowed(s, A, R)
       /\ stack' = [stack EXCEPT ![s] =
                      [i \in DOMAIN @ |->
                         [name |-> @[i].name, copy |-> Change(@[i].copy, A, R)]]]

\* A statement outside a block commits at once.
AutoCommit(s) ==
  /\ s \notin open
  /\ UNCHANGED <<open, work, stack>>
  /\ \E A \in SUBSET Row, R \in SUBSET db :
       Allowed(s, A, R) /\ db' = (db \ R) \cup A

\* SAVEPOINT outside a block opens one.
Savepoint(s, n) ==
  /\ open' = open \cup {s}
  /\ UNCHANGED <<db, work>>
  /\ stack' = [stack EXCEPT ![s] = Append(@, [name |-> n, copy |-> work[s]])]

\* The innermost savepoint called n is at place i.
Names(s, n, i) ==
  /\ stack[s][i].name = n
  /\ \A j \in i + 1..Len(stack[s]) : stack[s][j].name # n

RollbackTo(s, n) ==
  /\ UNCHANGED <<open, db>>
  /\ \E i \in DOMAIN stack[s] :
       /\ Names(s, n, i)
       /\ work' = [work EXCEPT ![s] = stack[s][i].copy]
       /\ stack' = [stack EXCEPT ![s] = SubSeq(@, 1, i)]

Release(s, n) ==
  /\ UNCHANGED <<open, db, work>>
  /\ \E i \in DOMAIN stack[s] :
       /\ Names(s, n, i)
       /\ stack' = [stack EXCEPT ![s] = SubSeq(@, 1, i - 1) \o SubSeq(@, i + 1, Len(@))]

Close(s) ==
  /\ s \in open
  /\ open' = open \ {s}
  /\ work' = [work EXCEPT ![s] = NoWork]
  /\ stack' = [stack EXCEPT ![s] = << >>]

Commit(s) == Close(s) /\ db' = Visible(s)
Abort(s)  == Close(s) /\ UNCHANGED db

Next ==
  \E s \in Session :
       \/ AutoCommit(s) \/ Begin(s) \/ Write(s) \/ WriteThrough(s)
       \/ Commit(s) \/ Abort(s)
       \/ \E n \in Name : Savepoint(s, n) \/ RollbackTo(s, n) \/ Release(s, n)

Spec == Init /\ [][Next]_vars

=============================================================================
