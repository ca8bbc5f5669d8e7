------------------------- MODULE CatalogFilesProofs -------------------------
(***************************************************************************)
(* For any number of sessions, sequences, tables and calls, a sequence     *)
(* gives out no value twice, and what a finished call changed is what a    *)
(* restart reads.                                                          *)
(***************************************************************************)
EXTENDS CatalogFiles, TLAPS

\* What a session is doing, by its pc.
LEMMA CallTypes ==
  ASSUME CallsOK, NEW s \in Session
  PROVE  /\ At(s, "idle") <=> call[s] = Idle
         /\ call[s].pc \in {"nextval", "store"} => call[s] \in Waiting
         /\ call[s].pc = "remember" => call[s] \in Setting
         /\ call[s].pc \in {"acl", "aclfill"} => call[s] \in Sharing
         /\ call[s].pc \in {"fk", "fkfill"} => call[s] \in Binding
BY DEF CallsOK, At, Idle, Waiting, Setting, Sharing, Binding

\* A step keeps the types.
LEMMA StepTypes ==
  ASSUME FilesConstants, TypeOK, CallsOK, ValuesRise, Next
  PROVE  TypeOK' /\ CallsOK'
<1> USE DEF FilesConstants
<1>1. ASSUME NEW s \in Session, NEW k \in Sequence, NextVal(s, k)
      PROVE  TypeOK' /\ CallsOK'
  BY <1>1 DEF NextVal, Start, TypeOK, CallsOK, Current, Absent, Waiting, aclVars, fkVars
<1>2. ASSUME NEW s \in Session, NEW k \in Sequence, DropFile(s, k)
      PROVE  TypeOK' /\ CallsOK'
  BY <1>2 DEF DropFile, Start, TypeOK, CallsOK, Absent, Setting, aclVars, fkVars
<1>3. ASSUME NEW s \in Session, NEW k \in Sequence, NEW v \in 1..MaxVal, StoreFile(s, k, v)
      PROVE  TypeOK' /\ CallsOK'
  BY <1>3 DEF StoreFile, Start, TypeOK, CallsOK, Absent, Waiting, aclVars, fkVars
<1>4. ASSUME NEW s \in Session, NEW t \in Table, NEW g \in Grant,
             GrantTable(s, t, {g}) \/ RevokeTable(s, t, {g})
      PROVE  TypeOK' /\ CallsOK'
  BY <1>4 DEF GrantTable, RevokeTable, Granted, Revoked, Start, TypeOK, CallsOK, Sharing, seqVars, fkVars
<1>5. ASSUME NEW s \in Session, NEW o \in Oid, SetForeignKeys(s, o)
      PROVE  TypeOK' /\ CallsOK'
  BY <1>5 DEF SetForeignKeys, Start, TypeOK, CallsOK, Binding, seqVars, aclVars
<1>6. ASSUME NEW s \in Session, NextValWritten(s)
      PROVE  TypeOK' /\ CallsOK'
  BY <1>6, CallTypes DEF NextValWritten, Return, At, TypeOK, CallsOK, Absent, Waiting, aclVars, fkVars
<1>7. ASSUME NEW s \in Session, StoreWritten(s)
      PROVE  TypeOK' /\ CallsOK'
  BY <1>7, CallTypes DEF StoreWritten, Goto, At, TypeOK, CallsOK, Absent, Waiting, Setting, aclVars, fkVars
<1>8. ASSUME NEW s \in Session, Remember(s)
      PROVE  TypeOK' /\ CallsOK'
  BY <1>8, CallTypes DEF Remember, Return, At, TypeOK, CallsOK, Absent, Setting, aclVars, fkVars
<1>9. ASSUME NEW s \in Session, EmptyAcl(s) \/ FillAcl(s)
      PROVE  TypeOK' /\ CallsOK'
  BY <1>9, CallTypes DEF EmptyAcl, FillAcl, Goto, Return, At, TypeOK, CallsOK, Sharing, seqVars, fkVars
<1>10. ASSUME NEW s \in Session, EmptyFk(s) \/ FillFk(s)
      PROVE  TypeOK' /\ CallsOK'
  BY <1>10, CallTypes DEF EmptyFk, FillFk, Goto, Return, At, TypeOK, CallsOK, Binding, seqVars, aclVars
<1>11. ASSUME Restart PROVE TypeOK' /\ CallsOK'
  BY <1>11 DEF Restart, AclsRead, FksRead, TypeOK, CallsOK, fileVars
<1> QED
  BY Zenon, <1>1, <1>2, <1>3, <1>4, <1>5, <1>6, <1>7, <1>8, <1>9, <1>10, <1>11 DEF Next

-----------------------------------------------------------------------------
(* No value twice *)

\* A step keeps the values given out below those to come.
LEMMA StepValues ==
  ASSUME FilesConstants, TypeOK, CallsOK, ValuesRise, Next
  PROVE  ValuesRise'
<1> USE DEF FilesConstants, ValuesRise, Below, Current, Stored, At
<1>1. ASSUME NEW s \in Session, NEW k \in Sequence, NextVal(s, k)
      PROVE  ValuesRise'
  <2>1. \A u \in Session : ~At(u, "nextval")
    BY <1>1 DEF NextVal
  <2>2. /\ call' = [call EXCEPT ![s] = [pc |-> "nextval", key |-> k, val |-> Current(k)]]
        /\ sequences' = [sequences EXCEPT ![k] = Current(k) + 1]
        /\ seq_file' = [seq_file EXCEPT ![k] = Absent]
        /\ seq_lock' = {s} /\ UNCHANGED <<issued, torn>> /\ call[s].pc = "idle"
    BY <1>1 DEF NextVal, Start
  <2>3. Current(k) \in 1..MaxVal + 1 /\ (k \notin torn => Below(k, Current(k)))
    BY DEF TypeOK, Absent
  <2>4. /\ call'[s] = [pc |-> "nextval", key |-> k, val |-> Current(k)]
        /\ \A u \in Session \ {s} : call'[u] = call[u]
    BY <2>2 DEF CallsOK
  <2>5. \A u \in Session :
          (At(u, "nextval"))' =>
            /\ seq_lock' = {u}
            /\ sequences'[call'[u].key] = call'[u].val + 1
            /\ call'[u].key \notin torn' => Below(call[u].key, call[u].val)'
    BY <2>1, <2>2, <2>3, <2>4 DEF TypeOK
  <2>6. \A j \in Sequence \ torn' : Below(j, Current(j))'
    BY <2>2, <2>3 DEF TypeOK, Absent
  <2>7. \A j \in Sequence \ torn' :
          (\A u \in Session : call'[u].pc \in {"nextval", "store"} => call'[u].key # j)
            => Below(j, Stored(j))'
    BY <2>2, <2>4 DEF TypeOK
  <2> QED
    BY <2>5, <2>6, <2>7
<1>2. ASSUME NEW s \in Session, NEW k \in Sequence, DropFile(s, k)
      PROVE  ValuesRise'
  BY <1>2, CallTypes DEF DropFile, Start, TypeOK, CallsOK, Absent, Waiting
<1>3. ASSUME NEW s \in Session, NEW k \in Sequence, NEW v \in 1..MaxVal, StoreFile(s, k, v)
      PROVE  ValuesRise'
  BY <1>3, CallTypes DEF StoreFile, Start, TypeOK, CallsOK, Absent, Waiting
<1>4. ASSUME NEW s \in Session, NextValWritten(s)
      PROVE  ValuesRise'
  <2> DEFINE k == call[s].key
             v == call[s].val
  <2>1. /\ k \in Sequence /\ v \in 1..MaxVal
        /\ seq_lock = {s} /\ sequences[k] = v + 1 /\ (k \notin torn => Below(k, v))
    BY <1>4, CallTypes DEF NextValWritten, Waiting
  <2>2. \A u \in Session \ {s} : ~At(u, "nextval")
    BY <2>1
  <2>3. /\ seq_file' = [seq_file EXCEPT ![k] = v + 1]
        /\ issued' = [issued EXCEPT ![k] = @ \cup {v}]
        /\ UNCHANGED <<sequences, torn>>
        /\ call'[s] = Idle /\ \A u \in Session \ {s} : call'[u] = call[u]
    BY <1>4 DEF NextValWritten, Return, CallsOK
  <2> HIDE DEF k, v
  <2>4. \A u \in Session : (~At(u, "nextval"))'
    BY <2>2, <2>3 DEF Idle
  <2>5. \A j \in Sequence \ torn' : Below(j, Current(j))'
    BY <2>1, <2>3 DEF TypeOK, Absent
  <2>6. \A j \in Sequence \ torn' :
          (\A u \in Session : call'[u].pc \in {"nextval", "store"} => call'[u].key # j)
            => Below(j, Stored(j))'
    <3> SUFFICES ASSUME NEW j \in Sequence \ torn,
                        \A u \in Session : call'[u].pc \in {"nextval", "store"} => call'[u].key # j
                 PROVE  Below(j, Stored(j))'
      BY <2>3
    <3>1. CASE j = k
      BY <2>1, <2>3, <3>1 DEF TypeOK, Absent
    <3>2. CASE j # k
      <4>1. \A u \in Session : call[u].pc \in {"nextval", "store"} => call[u].key # j
        BY <2>3, <3>2 DEF k
      <4> QED
        BY <2>1, <2>3, <3>2, <4>1 DEF TypeOK
    <3> QED
      BY <3>1, <3>2
  <2> QED
    BY <2>4, <2>5, <2>6
<1>5. ASSUME NEW s \in Session, StoreWritten(s)
      PROVE  ValuesRise'
  BY <1>5, CallTypes DEF StoreWritten, Goto, TypeOK, CallsOK, Absent, Waiting
<1>6. ASSUME NEW s \in Session, Remember(s)
      PROVE  ValuesRise'
  BY Zenon, <1>6, CallTypes DEF Remember, Return, Idle, TypeOK, CallsOK, Absent, Waiting, Setting
<1>7. ASSUME NEW s \in Session, NEW c, call' = [call EXCEPT ![s] = c],
             c.pc \notin {"nextval", "store"}, call[s].pc \notin {"nextval", "store"},
             UNCHANGED <<seqVars, torn>>
      PROVE  ValuesRise'
  BY Zenon, <1>7 DEF seqVars, TypeOK, CallsOK
<1>8. ASSUME NEW s \in Session, NEW t \in Table, NEW g \in Grant,
             GrantTable(s, t, {g}) \/ RevokeTable(s, t, {g})
      PROVE  ValuesRise'
  BY <1>7, <1>8 DEF GrantTable, RevokeTable, Start
<1>9. ASSUME NEW s \in Session, NEW o \in Oid, SetForeignKeys(s, o)
      PROVE  ValuesRise'
  BY Zenon, <1>7, <1>9 DEF SetForeignKeys, Start
<1>10. ASSUME NEW s \in Session, EmptyAcl(s) \/ FillAcl(s) \/ EmptyFk(s) \/ FillFk(s)
      PROVE  ValuesRise'
  BY <1>7, <1>10 DEF EmptyAcl, FillAcl, EmptyFk, FillFk, Goto, Return, Idle
<1>11. ASSUME Restart PROVE ValuesRise'
  BY <1>11 DEF Restart, Idle, TypeOK, CallsOK, fileVars, Absent
<1> QED
  BY Zenon, <1>1, <1>2, <1>3, <1>4, <1>5, <1>6, <1>8, <1>9, <1>10, <1>11 DEF Next

-----------------------------------------------------------------------------
(* Map and file *)

\* A call that starts alone leaves what is known of the others.
LEMMA StepOneCaller ==
  ASSUME CallsOK, OneCaller, Next
  PROVE  OneCaller'
<1> USE DEF OneCaller, At
<1>1. ASSUME NEW s \in Session, NEW c, Start(s, c) PROVE OneCaller'
  BY <1>1 DEF Start, CallsOK
<1>2. ASSUME NEW s \in Session, Return(s), UNCHANGED overlap PROVE OneCaller'
  BY <1>2 DEF Return, Idle, CallsOK
<1>3. ASSUME NEW s \in Session, NEW pc, Goto(s, pc), ~At(s, "idle"), UNCHANGED overlap PROVE OneCaller'
  BY <1>3 DEF Goto, CallsOK
<1>4. ASSUME Restart PROVE OneCaller'
  BY <1>4 DEF Restart, Idle
<1> QED
  BY Zenon, <1>1, <1>2, <1>3, <1>4 DEF Next, NextVal, DropFile, StoreFile, GrantTable, RevokeTable,
     SetForeignKeys, NextValWritten, StoreWritten, Remember, EmptyAcl, FillAcl, EmptyFk, FillFk

\* What a call still has to copy is not changed by another call, unless the two
\* overlap.
LEMMA StepHalfDone ==
  ASSUME CallsOK, TypeOK, OneCaller, HalfDone, Next
  PROVE  HalfDone'
<1> USE DEF HalfDone, OneCaller, At
<1>1. ASSUME NEW s \in Session, NEW k \in Sequence, NextVal(s, k) PROVE HalfDone'
  BY <1>1, CallTypes DEF NextVal, Start, CallsOK, TypeOK, Setting, Sharing, aclVars
<1>2. ASSUME NEW s \in Session, NEW k \in Sequence, DropFile(s, k) PROVE HalfDone'
  BY <1>2, CallTypes DEF DropFile, Start, CallsOK, TypeOK, Setting, Sharing, aclVars
<1>3. ASSUME NEW s \in Session, NEW k \in Sequence, NEW v \in 1..MaxVal, StoreFile(s, k, v)
      PROVE  HalfDone'
  BY <1>3, CallTypes DEF StoreFile, Start, CallsOK, TypeOK, Setting, Sharing, aclVars
<1>4. ASSUME NEW s \in Session, NEW t \in Table, NEW g \in Grant,
             GrantTable(s, t, {g}) \/ RevokeTable(s, t, {g})
      PROVE  HalfDone'
  BY <1>4, CallTypes DEF GrantTable, RevokeTable, Start, CallsOK, TypeOK, Setting, Sharing, seqVars
<1>5. ASSUME NEW s \in Session, NEW o \in Oid, SetForeignKeys(s, o) PROVE HalfDone'
  BY <1>5 DEF SetForeignKeys, Start, CallsOK, seqVars, aclVars
<1>6. ASSUME NEW s \in Session, NextValWritten(s) \/ StoreWritten(s) PROVE HalfDone'
  BY <1>6, CallTypes DEF NextValWritten, StoreWritten, Return, Goto, Idle, CallsOK, TypeOK, Waiting, Setting, aclVars
<1>7. ASSUME NEW s \in Session, Remember(s) \/ EmptyAcl(s) \/ FillAcl(s) \/ EmptyFk(s) \/ FillFk(s)
      PROVE  HalfDone'
  BY <1>7 DEF Remember, EmptyAcl, FillAcl, EmptyFk, FillFk, Return, Goto, Idle, CallsOK, seqVars, aclVars
<1>8. ASSUME Restart PROVE HalfDone'
  BY Zenon, <1>8 DEF Restart, Idle
<1> QED
  BY Zenon, <1>1, <1>2, <1>3, <1>4, <1>5, <1>6, <1>7, <1>8 DEF Next

\* Where no call is under way, map and file stay the same.
LEMMA StepCopied ==
  ASSUME CallsOK, TypeOK, ValuesRise, OneCaller, HalfDone, Copied, Next
  PROVE  Copied'
<1> USE DEF Copied, At
<1>1. ASSUME NEW s \in Session, NEW k \in Sequence, NextVal(s, k) PROVE Copied'
  BY <1>1, CallTypes DEF NextVal, Start, CallsOK, TypeOK, aclVars, fkVars
<1>2. ASSUME NEW s \in Session, NEW k \in Sequence, DropFile(s, k) PROVE Copied'
  BY <1>2, CallTypes DEF DropFile, Start, CallsOK, TypeOK, aclVars, fkVars
<1>3. ASSUME NEW s \in Session, NEW k \in Sequence, NEW v \in 1..MaxVal, StoreFile(s, k, v)
      PROVE  Copied'
  BY <1>3, CallTypes DEF StoreFile, Start, CallsOK, TypeOK, aclVars, fkVars
<1>4. ASSUME NEW s \in Session, NEW t \in Table, NEW g \in Grant,
             GrantTable(s, t, {g}) \/ RevokeTable(s, t, {g})
      PROVE  Copied'
  <2>1. CASE GrantTable(s, t, {g})
    BY <2>1, CallTypes DEF GrantTable, Start, CallsOK, TypeOK, seqVars, fkVars
  <2>2. CASE RevokeTable(s, t, {g})
    BY <2>2, CallTypes DEF RevokeTable, Start, CallsOK, TypeOK, seqVars, fkVars
  <2> QED
    BY Zenon, <1>4, <2>1, <2>2
<1>5. ASSUME NEW s \in Session, NEW o \in Oid, SetForeignKeys(s, o) PROVE Copied'
  BY <1>5 DEF SetForeignKeys, Start, CallsOK, seqVars, aclVars
<1>6. ASSUME NEW s \in Session, NextValWritten(s) PROVE Copied'
  BY <1>6, CallTypes DEF NextValWritten, Return, Idle, CallsOK, TypeOK, ValuesRise, OneCaller, Waiting, aclVars, fkVars
<1>7. ASSUME NEW s \in Session, StoreWritten(s) PROVE Copied'
  BY <1>7, CallTypes DEF StoreWritten, Goto, CallsOK, TypeOK, Waiting, aclVars, fkVars
<1>8. ASSUME NEW s \in Session, Remember(s) PROVE Copied'
  BY <1>8, CallTypes DEF Remember, Return, Idle, CallsOK, TypeOK, HalfDone, Setting, aclVars, fkVars
<1>9. ASSUME NEW s \in Session, EmptyAcl(s) \/ FillAcl(s) PROVE Copied'
  <2>1. CASE EmptyAcl(s)
    BY <2>1, CallTypes DEF EmptyAcl, Goto, CallsOK, TypeOK, HalfDone, Sharing, seqVars, fkVars
  <2>2. CASE FillAcl(s)
    BY SMTT(30), <2>2, CallTypes DEF FillAcl, Return, Idle, CallsOK, TypeOK, HalfDone, Sharing, seqVars, fkVars
  <2> QED
    BY Zenon, <1>9, <2>1, <2>2
<1>10. ASSUME NEW s \in Session, EmptyFk(s) \/ FillFk(s) PROVE Copied'
  BY <1>10 DEF EmptyFk, FillFk, Return, Goto, Idle, CallsOK, seqVars, aclVars
<1>11. ASSUME Restart PROVE Copied'
  BY <1>11 DEF Restart, Idle, AclsRead, FksRead, fileVars
<1> QED
  BY Zenon, <1>1, <1>2, <1>3, <1>4, <1>5, <1>6, <1>7, <1>8, <1>9, <1>10, <1>11 DEF Next

-----------------------------------------------------------------------------
(* Theorems *)

\* FilesInv is inductive.
THEOREM FilesInvariant ==
  ASSUME FilesConstants
  PROVE  Spec => []FilesInv
<1>1. Init => FilesInv
  BY DEF Init, FilesInv, TypeOK, CallsOK, ValuesRise, CopyInv, OneCaller, HalfDone, Copied,
     Below, Current, Stored, At, Idle, Absent, FilesConstants
<1>2. FilesInv /\ [Next]_vars => FilesInv'
  <2>1. ASSUME FilesInv, Next PROVE FilesInv'
    BY <2>1, StepTypes, StepValues, StepOneCaller, StepHalfDone, StepCopied DEF FilesInv, CopyInv
  <2>2. ASSUME FilesInv, UNCHANGED vars PROVE FilesInv'
    BY <2>2 DEF vars, FilesInv, TypeOK, CallsOK, ValuesRise, CopyInv, OneCaller, HalfDone, Copied,
       Below, Current, Stored, At
  <2> QED
    BY <2>1, <2>2
<1> QED
  BY <1>1, <1>2, PTL DEF Spec

\* What a finished call changed of a sequence, an access list or the foreign keys is
\* what a restart reads, unless calls for the same one overlapped
\* (catalog/src/manager.rs).
THEOREM FilesAgreeHolds ==
  ASSUME FilesConstants
  PROVE  Spec => []FilesAgree
<1>1. FilesInv => FilesAgree
  BY DEF FilesInv, CopyInv, Copied, FilesAgree, At
<1> QED
  BY <1>1, FilesInvariant, PTL

\* next_sequence_val and nextval_standalone give out no value twice, over restarts,
\* unless a crash emptied the sequence's file or it was set again.
THEOREM NoValueTwiceHolds ==
  ASSUME FilesConstants
  PROVE  Spec => NoValueTwice
<1>1. ASSUME FilesInv, NEW s \in Session, NextValWritten(s), call[s].key \notin torn
      PROVE  call[s].val \notin issued[call[s].key]
  BY <1>1, CallTypes DEF FilesInv, ValuesRise, Below, NextValWritten, At, Waiting
<1>2. FilesInv => [\A s \in Session :
                     NextValWritten(s) /\ call[s].key \notin torn =>
                       call[s].val \notin issued[call[s].key]]_vars
  BY <1>1
<1> QED
  BY <1>2, FilesInvariant, PTL DEF NoValueTwice, Spec
=============================================================================
