---------------------------- MODULE CatalogFiles ----------------------------
(***************************************************************************)
(* The parts of the catalog that live in small files beside the heaps:     *)
(* sequences/*.seq (serial columns and CREATE SEQUENCE), acls/*.acl        *)
(* (GRANT and REVOKE) and fk_registry.json (catalog/src/manager.rs).       *)
(* Each is a map in memory and a file that a restart reads back.           *)
(*                                                                         *)
(* std::fs::write empties the file and then fills it; a process that ends  *)
(* in between leaves a file that does not parse, which a restart treats    *)
(* like a missing one.  The three stores differ in which lock is held      *)
(* while the file is written, and that is what the steps below keep.       *)
(***************************************************************************)
EXTENDS Integers, FiniteSets

CONSTANTS
  Session,
  Serial,      \* sequences of serial columns
  Standalone,  \* sequences made by CREATE SEQUENCE
  Table,       \* tables with an access list
  Grant,       \* <<grantee, column or all columns, privilege>>, as one value
  Oid,         \* tables with foreign keys
  MaxVal,      \* bound: values of a sequence
  MaxCalls     \* bound: calls

\* What the proofs assume of the constants
FilesConstants == MaxVal \in Nat

Sequence == Serial \cup Standalone

\* No entry in memory, no file, or a file without a number in it
Absent == -1

VARIABLES
  sequences, seq_file,   \* the next value of each sequence
  table_acls, acl_file,  \* the grants on each table
  fk_registry, fk_file,  \* the tables whose foreign keys are registered
  seq_lock,              \* the session inside sequences.lock(), or {}
  call,                  \* what each session is doing
  calls,
  issued,                \* history: values given out since the sequence was set
  overlap,               \* history: calls for one sequence or table overlapped
  torn                   \* history: sequences whose file a crash left empty

vars == <<sequences, seq_file, table_acls, acl_file, fk_registry, fk_file,
          seq_lock, call, calls, issued, overlap, torn>>

Idle == [pc |-> "idle"]

Init ==
  /\ sequences = [k \in Sequence |-> Absent] /\ seq_file = sequences
  /\ table_acls = [t \in Table |-> {}] /\ acl_file = table_acls
  /\ fk_registry = {} /\ fk_file = {}
  /\ seq_lock = {} /\ call = [s \in Session |-> Idle] /\ calls = 0
  /\ issued = [k \in Sequence |-> {}] /\ overlap = {} /\ torn = {}

\* The types of the variables: no sequence counts below one.
TypeOK ==
  /\ sequences \in [Sequence -> {Absent} \cup 1..MaxVal + 1]
  /\ seq_file \in [Sequence -> {Absent} \cup 1..MaxVal + 1]
  /\ table_acls \in [Table -> SUBSET Grant] /\ acl_file \in [Table -> SUBSET Grant]
  /\ fk_registry \subseteq Oid /\ fk_file \subseteq Oid
  /\ seq_lock \in {{}} \cup {{s} : s \in Session}
  /\ issued \in [Sequence -> SUBSET (1..MaxVal)]

At(s, pc) == call[s].pc = pc

\* A call starts.  key is the sequence or table whose file it will write.
Start(s, c) ==
  /\ At(s, "idle") /\ calls < MaxCalls
  /\ calls' = calls + 1
  /\ call' = [call EXCEPT ![s] = c]
  /\ overlap' = overlap \cup
       (IF \E u \in Session : ~At(u, "idle") /\ call[u].key = c.key THEN {c.key} ELSE {})

Goto(s, pc) == call' = [call EXCEPT ![s] = [pc |-> pc, key |-> @.key, val |-> @.val]]
Return(s) == call' = [call EXCEPT ![s] = Idle]

fileVars == <<seq_file, acl_file, fk_file>>
seqVars  == <<sequences, seq_file, seq_lock, issued>>
aclVars  == <<table_acls, acl_file>>
fkVars   == <<fk_registry, fk_file>>

-----------------------------------------------------------------------------
(* Sequences *)

\* Mutant: a missing sequence is not noticed.
CurrentRaw(k) == sequences[k]

\* A serial column whose sequence is missing starts again at 1.
Current(k) == IF sequences[k] = Absent THEN 1 ELSE sequences[k]

\* Mutant: the lock is not held until the file is written.
NextValUnlocked(s, k) ==
  LET v == Current(k)
  IN  /\ v <= MaxVal
      /\ k \in Standalone => sequences[k] # Absent
      /\ sequences' = [sequences EXCEPT ![k] = v + 1]
      /\ seq_file' = [seq_file EXCEPT ![k] = Absent]
      /\ seq_lock' = {s}
      /\ Start(s, [pc |-> "nextval", key |-> k, val |-> v])
      /\ UNCHANGED <<aclVars, fkVars, issued, torn>>

\* next_sequence_val and nextval_standalone: value and file under the lock
NextVal(s, k) ==
  LET v == Current(k)
  IN  /\ seq_lock = {} /\ v <= MaxVal
      /\ k \in Standalone => sequences[k] # Absent
      /\ sequences' = [sequences EXCEPT ![k] = v + 1]
      /\ seq_file' = [seq_file EXCEPT ![k] = Absent]
      /\ seq_lock' = {s}
      /\ Start(s, [pc |-> "nextval", key |-> k, val |-> v])
      /\ UNCHANGED <<aclVars, fkVars, issued, torn>>

NextValWritten(s) ==
  LET k == call[s].key
  IN  /\ At(s, "nextval")
      /\ seq_file' = [seq_file EXCEPT ![k] = call[s].val + 1]
      /\ issued' = [issued EXCEPT ![k] = @ \cup {call[s].val}]
      /\ seq_lock' = {}
      /\ Return(s)
      /\ UNCHANGED <<sequences, aclVars, fkVars, calls, overlap, torn>>

\* create_sequence, create_standalone_sequence (v is 1), setval_standalone: the
\* file first, without the lock, then the map.
StoreFile(s, k, v) ==
  /\ v # 1 => k \in Standalone
  /\ seq_file' = [seq_file EXCEPT ![k] = Absent]
  /\ Start(s, [pc |-> "store", key |-> k, val |-> v])
  /\ UNCHANGED <<sequences, seq_lock, issued, aclVars, fkVars, torn>>

StoreWritten(s) ==
  LET k == call[s].key
  IN  /\ At(s, "store")
      /\ seq_file' = [seq_file EXCEPT ![k] = call[s].val]
      /\ issued' = [issued EXCEPT ![k] = {}]
      /\ torn' = torn \ {k}
      /\ Goto(s, "remember")
      /\ UNCHANGED <<sequences, seq_lock, aclVars, fkVars, calls, overlap>>

\* drop_standalone_sequence
DropFile(s, k) ==
  /\ k \in Standalone
  /\ seq_file' = [seq_file EXCEPT ![k] = Absent]
  /\ issued' = [issued EXCEPT ![k] = {}]
  /\ Start(s, [pc |-> "remember", key |-> k, val |-> Absent])
  /\ UNCHANGED <<sequences, seq_lock, aclVars, fkVars, torn>>

\* Mutant: the value goes to the file only.
RememberNothing(s) ==
  /\ At(s, "remember") /\ seq_lock = {}
  /\ issued' = [issued EXCEPT ![call[s].key] = {}]
  /\ Return(s)
  /\ UNCHANGED <<sequences, seq_file, seq_lock, aclVars, fkVars, calls, overlap, torn>>

Remember(s) ==
  LET k == call[s].key
  IN  /\ At(s, "remember") /\ seq_lock = {}
      /\ sequences' = [sequences EXCEPT ![k] = call[s].val]
      /\ issued' = [issued EXCEPT ![k] = {}]
      /\ Return(s)
      /\ UNCHANGED <<seq_file, seq_lock, aclVars, fkVars, calls, overlap, torn>>

-----------------------------------------------------------------------------
(* Access lists: the map under the lock, then a copy of it to the file *)

\* grant_column_privileges does for the named columns what grant_table does for
\* all of them, and likewise for the revokes.
Granted(t, G) == table_acls[t] \cup G
Revoked(t, G) == table_acls[t] \ G

GrantTable(s, t, G) ==
  /\ table_acls' = [table_acls EXCEPT ![t] = Granted(t, G)]
  /\ Start(s, [pc |-> "acl", key |-> t, val |-> Granted(t, G)])
  /\ UNCHANGED <<acl_file, seqVars, fkVars, torn>>

RevokeTable(s, t, G) ==
  /\ table_acls' = [table_acls EXCEPT ![t] = Revoked(t, G)]
  /\ Start(s, [pc |-> "acl", key |-> t, val |-> Revoked(t, G)])
  /\ UNCHANGED <<acl_file, seqVars, fkVars, torn>>

\* persist_acl
EmptyAcl(s) ==
  /\ At(s, "acl")
  /\ acl_file' = [acl_file EXCEPT ![call[s].key] = {}]
  /\ Goto(s, "aclfill")
  /\ UNCHANGED <<table_acls, seqVars, fkVars, calls, overlap, torn>>

FillAcl(s) ==
  /\ At(s, "aclfill")
  /\ acl_file' = [acl_file EXCEPT ![call[s].key] = call[s].val]
  /\ Return(s)
  /\ UNCHANGED <<table_acls, seqVars, fkVars, calls, overlap, torn>>

-----------------------------------------------------------------------------
(* Foreign keys: the map under the write lock, the file under a read lock  *)
(* taken afterwards                                                        *)

FkReaders == {s \in Session : At(s, "fkfill")}

SetForeignKeys(s, o) ==
  /\ FkReaders = {}
  /\ fk_registry' = fk_registry \cup {o}
  /\ Start(s, [pc |-> "fk", key |-> o, val |-> Absent])
  /\ UNCHANGED <<fk_file, seqVars, aclVars, torn>>

\* persist_fk_registry
EmptyFk(s) ==
  /\ At(s, "fk")
  /\ fk_file' = {}
  /\ Goto(s, "fkfill")
  /\ UNCHANGED <<fk_registry, seqVars, aclVars, calls, overlap, torn>>

FillFk(s) ==
  /\ At(s, "fkfill")
  /\ fk_file' = fk_registry
  /\ Return(s)
  /\ UNCHANGED <<fk_registry, seqVars, aclVars, calls, overlap, torn>>

-----------------------------------------------------------------------------
\* load_acls_from_disk and load_fk_registry_from_disk; a file that does not
\* parse was left empty above.
AclsRead == acl_file
FksRead == fk_file

\* The process ends; what is on disk, sequences first, is read back.
Restart ==
  /\ sequences' = seq_file /\ table_acls' = AclsRead /\ fk_registry' = FksRead
  /\ torn' = torn \cup {call[s].key : s \in {u \in Session : call[u].pc \in {"nextval", "store"}}}
  /\ seq_lock' = {} /\ call' = [s \in Session |-> Idle]
  /\ UNCHANGED <<fileVars, calls, issued, overlap>>

Next ==
  \/ \E s \in Session :
       \/ \E k \in Sequence :
            \/ NextVal(s, k) \/ DropFile(s, k)
            \/ \E v \in 1..MaxVal : StoreFile(s, k, v)
       \/ \E t \in Table, g \in Grant : GrantTable(s, t, {g}) \/ RevokeTable(s, t, {g})
       \/ \E o \in Oid : SetForeignKeys(s, o)
       \/ NextValWritten(s) \/ StoreWritten(s) \/ Remember(s)
       \/ EmptyAcl(s) \/ FillAcl(s) \/ EmptyFk(s) \/ FillFk(s)
  \/ Restart

Spec == Init /\ [][Next]_vars

-----------------------------------------------------------------------------
(* Properties *)

\* A sequence never gives out a value twice, over restarts and with any number
\* of sessions, unless a crash emptied its file or it was set again.
NoValueTwice ==
  [][\A s \in Session :
       NextValWritten(s) /\ call[s].key \notin torn =>
         call[s].val \notin issued[call[s].key]]_vars

\* What a finished call changed is what a restart reads.  For sequences and
\* access lists this needs that no two calls for the same one overlapped; the
\* foreign keys need nothing, since the file is written under the read lock.
FilesAgree ==
  /\ \A k \in Sequence \ overlap :
       (\A s \in Session : At(s, "idle") \/ call[s].key # k) => seq_file[k] = sequences[k]
  /\ \A t \in Table \ overlap :
       (\A s \in Session : At(s, "idle") \/ call[s].key # t) => acl_file[t] = table_acls[t]
  /\ (\A s \in Session : call[s].pc \notin {"fk", "fkfill"}) => fk_file = fk_registry

-----------------------------------------------------------------------------
(* Why they hold: an inductive invariant *)

Waiting == [pc : {"nextval", "store"}, key : Sequence, val : 1..MaxVal]
Setting == [pc : {"remember"}, key : Sequence, val : {Absent} \cup 1..MaxVal]
Sharing == [pc : {"acl", "aclfill"}, key : Table, val : SUBSET Grant]
Binding == [pc : {"fk", "fkfill"}, key : Oid, val : {Absent}]
CallsOK == call \in [Session -> {Idle} \cup Waiting \cup Setting \cup Sharing \cup Binding]

\* The next value if the process restarted now
Stored(k) == IF seq_file[k] = Absent THEN 1 ELSE seq_file[k]

Below(k, n) == \A i \in issued[k] : i < n

\* The session inside the lock has the value before the one in the map; what was
\* given out is below the map's value, below the value about to be given out,
\* and below the file's value unless the file is being written.
ValuesRise ==
  /\ \A s \in Session :
       At(s, "nextval") =>
         /\ seq_lock = {s}
         /\ sequences[call[s].key] = call[s].val + 1
         /\ call[s].key \notin torn => Below(call[s].key, call[s].val)
  /\ \A k \in Sequence \ torn : Below(k, Current(k))
  /\ \A k \in Sequence \ torn :
       (\A s \in Session : call[s].pc \in {"nextval", "store"} => call[s].key # k)
         => Below(k, Stored(k))

\* Without an overlap there is one call for a file, and what it still has to
\* copy is known: from the file to the map, or from the map to the file.
OneCaller ==
  \A s, u \in Session :
    ~At(s, "idle") /\ ~At(u, "idle") /\ s # u /\ call[s].key = call[u].key
      => call[s].key \in overlap
HalfDone ==
  \A s \in Session :
    /\ At(s, "remember") /\ call[s].key \notin overlap => seq_file[call[s].key] = call[s].val
    /\ call[s].pc \in {"acl", "aclfill"} /\ call[s].key \notin overlap
         => table_acls[call[s].key] = call[s].val
Copied ==
  /\ \A k \in Sequence \ overlap :
       (\A s \in Session : call[s].pc \in {"nextval", "store", "remember"} => call[s].key # k)
         => seq_file[k] = sequences[k]
  /\ \A t \in Table \ overlap :
       (\A s \in Session : call[s].pc \in {"acl", "aclfill"} => call[s].key # t)
         => acl_file[t] = table_acls[t]
  /\ (\A s \in Session : call[s].pc \notin {"fk", "fkfill"}) => fk_file = fk_registry

\* The inductive invariant
CopyInv == OneCaller /\ HalfDone /\ Copied
FilesInv == TypeOK /\ CallsOK /\ ValuesRise /\ CopyInv

-----------------------------------------------------------------------------
(* Promises not kept *)

\* Each serial column keeps counting after a restart.
SerialRestored ==
  [][\A s \in Session :
       NextValWritten(s) => call[s].val \notin issued[call[s].key]]_vars

\* The access list a restart reads is the one in force.
AclRestored ==
  (\A s \in Session : At(s, "idle")) => acl_file = table_acls
=============================================================================
