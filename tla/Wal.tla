-------------------------------- MODULE Wal ---------------------------------
(***************************************************************************)
(* The write-ahead log of icedb (crates/wal) and what a restart makes of   *)
(* it (TransactionManager::new_with_wal_recovery).                         *)
(*                                                                         *)
(* The log is a sequence of segment files.  A file is a sequence of cells; *)
(* a record takes one or more of them, so that a record can be written in  *)
(* part, cut off, or overwritten in part by another writer.  Files live in *)
(* the page cache of the operating system (files) and, as far as fsync has *)
(* put them there, on the disk.                                            *)
(*                                                                         *)
(* A client runs transactions: it logs a page image, writes the heap page, *)
(* may insert into an index, and commits or aborts.  The engine has one    *)
(* WalWriter; every index operation opens another one on the same          *)
(* directory.  The process may crash, the machine may lose power.          *)
(***************************************************************************)
EXTENDS Integers, Sequences, FiniteSets, FiniteSetsExt

CONSTANTS
  Client,       \* sessions
  SegmentSize,  \* cells after which a segment is full
  MaxXid,       \* bound: the last XID handed out in one life of the process
  MaxCrash,     \* bound: restarts
  Indexed,      \* TRUE if the table has an index
  Tearing,      \* TRUE if a crash can interrupt a write
  PowerFails    \* TRUE if the page cache can be lost

FirstXid == 3

\* What the constants may be
WalConstants ==
  /\ SegmentSize \in Nat \ {0} /\ MaxXid \in Nat /\ MaxCrash \in Nat
  /\ {Indexed, Tearing, PowerFails} \subseteq BOOLEAN

VARIABLES
  files,     \* segment files as the page cache shows them
  disk,      \* segment files as of the last fsync of each
  up,        \* the process is running
  wal,       \* the engine's WalWriter: segment, position, current_lsn
  idx_wal,   \* the WalWriter of each client's index operation
  NEXT_XID,  \* the global counter of xid.rs
  committed, \* the committed set of the transaction manager
  pc,        \* next step of each client
  xid,       \* transaction of each client, or 0
  heap,      \* XIDs of the tuples in the heap file
  acked,     \* XIDs whose COMMIT has been answered
  crashes    \* restarts so far

vars == <<files, disk, up, wal, idx_wal, NEXT_XID, committed, pc, xid, heap,
          acked, crashes>>

-----------------------------------------------------------------------------
(* Records and files *)

\* A PageImage is longer than the other records.
Size(kind) == IF kind = "PageImage" THEN 3 ELSE 1

\* WalRecord::encode
Encode(rec) == [i \in 1..Size(rec.kind) |-> [rec |-> rec, part |-> i]]

\* write_all at position pos
WriteAt(f, pos, cells) ==
  [i \in 1..Max({Len(f), pos + Len(cells)}) |->
     IF i \in pos + 1..pos + Len(cells) THEN cells[i - pos] ELSE f[i]]

\* Cell i is part of a record that has all its cells in place.
Complete(f, i) ==
  LET first == i - f[i].part + 1
      cells == Encode(f[i].rec)
  IN  /\ first >= 1 /\ first + Len(cells) - 1 <= Len(f)
      /\ SubSeq(f, first, first + Len(cells) - 1) = cells

\* Reading a file from its start stops at the first cell that is not.
Stop(f) == Min({i \in 1..Len(f) : ~Complete(f, i)} \cup {Len(f) + 1})

\* What reading f from its start returns before it stops
Readable(f) == {f[i].rec : i \in {j \in 1..Stop(f) - 1 : f[j].part = 1}}

\* read_one_record_with_crc fails, instead of reporting the end of the file,
\* when a length and enough bytes for it are there but not the record.  A cell
\* from inside a page image is read as any length.
MayFail(f) == Stop(f) <= Len(f) /\ (f[Stop(f)].part # 1
                                    \/ Stop(f) + Size(f[Stop(f)].rec.kind) - 1 <= Len(f))
MustFail(f) == MayFail(f) /\ f[Stop(f)].part = 1

-----------------------------------------------------------------------------
(* WalWriter *)

\* rotate_segment_if_needed; the new file is written from its start
Rotated(w) ==
  IF w.pos >= SegmentSize THEN [w EXCEPT !.seg = @ + 1, !.pos = 0] ELSE w

\* append_inner: the record, the files after the write, the writer after it
Record(w, x, kind) == [lsn |-> w.lsn + 1, xid |-> x, kind |-> kind]

Put(w, cells) ==
  LET r == Rotated(w)
  IN  IF r.seg > Len(files) THEN Append(files, WriteAt(<< >>, 0, cells))
      ELSE [files EXCEPT ![r.seg] = WriteAt(@, r.pos, cells)]

Advanced(w, kind) ==
  LET r == Rotated(w)
  IN  [seg |-> r.seg, pos |-> r.pos + Size(kind), lsn |-> w.lsn + 1]

AppendInner(w, x, kind) ==
  /\ files' = Put(w, Encode(Record(w, x, kind)))
  /\ disk' = IF Len(files') > Len(disk) THEN Append(disk, << >>) ELSE disk

\* Mutant: the LSN of a reopened log starts again.
ScanLsnNone == 0

\* scan_segments: the LSN of the last record that can be read
ScanLsn ==
  LET segs == {s \in 1..Len(files) : Stop(files[s]) > 1}
      f    == files[Max(segs)]
  IN  IF segs = {} THEN 0 ELSE f[Stop(f) - 1].rec.lsn

\* Mutant: the seek to the end of the file is missing.
OpenedAtStart == [seg |-> Len(files), pos |-> 0, lsn |-> ScanLsn]

\* WalWriter::open on a directory that has segments: to the end of the last
Opened == [seg |-> Len(files), pos |-> Len(files[Len(files)]), lsn |-> ScanLsn]

Closed == [seg |-> 0, pos |-> 0, lsn |-> 0]

-----------------------------------------------------------------------------
Init ==
  /\ files = << << >> >> /\ disk = << << >> >>
  /\ up = TRUE
  /\ wal = [seg |-> 1, pos |-> 0, lsn |-> 0]
  /\ idx_wal = [c \in Client |-> Closed]
  /\ NEXT_XID = FirstXid
  /\ committed = {} /\ heap = {} /\ acked = {}
  /\ pc = [c \in Client |-> "idle"] /\ xid = [c \in Client |-> 0]
  /\ crashes = 0

At(c, l) == up /\ pc[c] = l
Goto(c, l) == pc' = [pc EXCEPT ![c] = l]

Begin(c) ==
  /\ At(c, "idle") /\ NEXT_XID <= MaxXid
  /\ NEXT_XID' = NEXT_XID + 1
  /\ xid' = [xid EXCEPT ![c] = NEXT_XID]
  /\ Goto(c, "begun")
  /\ UNCHANGED <<files, disk, up, wal, idx_wal, committed, heap, acked, crashes>>

\* insert_tuple: the page image goes to the log, then the page to the heap.
LogImage(c) ==
  /\ At(c, "begun")
  /\ AppendInner(wal, xid[c], "PageImage")
  /\ wal' = Advanced(wal, "PageImage")
  /\ Goto(c, "logged")
  /\ UNCHANGED <<up, idx_wal, NEXT_XID, committed, xid, heap, acked, crashes>>

WriteHeap(c) ==
  /\ At(c, "logged")
  /\ heap' = heap \cup {xid[c]}
  /\ Goto(c, IF Indexed THEN "index" ELSE "open")
  /\ UNCHANGED <<files, disk, up, wal, idx_wal, NEXT_XID, committed, xid, acked, crashes>>

\* maintain_indexes_on_insert: a WalWriter of its own, then BTree::insert
OpenIndexWal(c) ==
  /\ At(c, "index")
  /\ idx_wal' = [idx_wal EXCEPT ![c] = Opened]
  /\ Goto(c, "index_log")
  /\ UNCHANGED <<files, disk, up, wal, NEXT_XID, committed, xid, heap, acked, crashes>>

LogIndexImage(c) ==
  /\ At(c, "index_log")
  /\ AppendInner(idx_wal[c], xid[c], "PageImage")
  /\ idx_wal' = [idx_wal EXCEPT ![c] = Closed]
  /\ Goto(c, "open")
  /\ UNCHANGED <<up, wal, NEXT_XID, committed, xid, heap, acked, crashes>>

\* append_and_flush takes the lock of the writer twice: once to append ...
AppendCommit(c) ==
  /\ pc[c] \in {"begun", "open"} /\ up
  /\ AppendInner(wal, xid[c], "Commit")
  /\ wal' = Advanced(wal, "Commit")
  /\ Goto(c, "flush")
  /\ UNCHANGED <<up, idx_wal, NEXT_XID, committed, xid, heap, acked, crashes>>

\* Mutant: nothing is synced.
NotSynced == disk

\* sync_all on the segment the writer is in
Synced == [disk EXCEPT ![wal.seg] = files[wal.seg]]

\* ... and once to fsync, whatever segment is current by then.
Flush(c) ==
  /\ At(c, "flush")
  /\ disk' = Synced
  /\ Goto(c, "publish")
  /\ UNCHANGED <<files, up, wal, idx_wal, NEXT_XID, committed, xid, heap, acked, crashes>>

\* The rest of commit; the session answers its client.
Publish(c) ==
  /\ At(c, "publish")
  /\ committed' = committed \cup {xid[c]}
  /\ acked' = acked \cup {xid[c]}
  /\ xid' = [xid EXCEPT ![c] = 0]
  /\ Goto(c, "idle")
  /\ UNCHANGED <<files, disk, up, wal, idx_wal, NEXT_XID, heap, crashes>>

\* abort appends its record and does not flush it.
Abort(c) ==
  /\ pc[c] \in {"begun", "open"} /\ up
  /\ AppendInner(wal, xid[c], "Abort")
  /\ wal' = Advanced(wal, "Abort")
  /\ xid' = [xid EXCEPT ![c] = 0]
  /\ Goto(c, "idle")
  /\ UNCHANGED <<up, idx_wal, NEXT_XID, committed, heap, acked, crashes>>

-----------------------------------------------------------------------------
(* Crashes, and the file system behind them *)

\* What dies with the process
Down ==
  /\ up /\ crashes < MaxCrash
  /\ up' = FALSE
  /\ wal' = Closed /\ idx_wal' = [c \in Client |-> Closed]
  /\ NEXT_XID' = FirstXid /\ committed' = {}
  /\ pc' = [c \in Client |-> "idle"] /\ xid' = [c \in Client |-> 0]
  /\ crashes' = crashes + 1
  /\ UNCHANGED acked

\* The page cache survives the process.
Crash == Down /\ UNCHANGED <<files, disk, heap>>

\* The process is killed inside the write of a page image.
CrashInWrite(c) ==
  /\ Tearing /\ pc[c] = "begun"
  /\ Down
  /\ \E n \in 1..Size("PageImage") - 1 :
       files' = Put(wal, SubSeq(Encode(Record(wal, xid[c], "PageImage")), 1, n))
  /\ disk' = IF Len(files') > Len(disk) THEN Append(disk, << >>) ELSE disk
  /\ UNCHANGED heap

\* What may be left of segment s: at least what was synced
Surviving(s) ==
  {disk[s]} \cup {SubSeq(files[s], 1, n) : n \in Len(disk[s])..Len(files[s])}

\* Heap pages are never synced; each of them may or may not have been written
\* back by then.
PowerLoss ==
  /\ PowerFails /\ Down
  /\ files' \in {g \in [1..Len(files) -> UNION {Surviving(s) : s \in 1..Len(files)}] :
                   \A s \in 1..Len(files) : g[s] \in Surviving(s)}
  /\ disk' = files'
  /\ heap' \in SUBSET heap

-----------------------------------------------------------------------------
(* open_engine: WalWriter::open, then new_with_wal_recovery *)

\* The records next_record returns before it fails in segment n, or at the end
Recovered(n) == UNION {Readable(files[s]) : s \in 1..n}

\* Mutant: the counter starts where a new database starts.
FirstNext(recs) == FirstXid

\* Mutant: max_xid starts from zero, so an empty log hands out XID 1.
RecoveredNextZero(recs) == Max({0} \cup {r.xid : r \in recs}) + 1

\* advance_next_xid(max_xid + 1); max_xid starts from FROZEN_XID.
RecoveredNext(recs) == Max({2} \cup {r.xid : r \in recs}) + 1

Restart ==
  /\ ~up
  /\ up' = TRUE
  /\ wal' = Opened
  /\ \E n \in 1..Len(files) :
       /\ \A s \in 1..n - 1 : ~MustFail(files[s])
       /\ n = Len(files) \/ MayFail(files[n])
       /\ committed' = {r.xid : r \in {q \in Recovered(n) : q.kind = "Commit"}}
       /\ NEXT_XID' = RecoveredNext(Recovered(n))
  /\ UNCHANGED <<files, disk, idx_wal, pc, xid, heap, acked, crashes>>

Step(c) ==
  \/ Begin(c) \/ LogImage(c) \/ WriteHeap(c) \/ OpenIndexWal(c) \/ LogIndexImage(c)
  \/ AppendCommit(c) \/ Flush(c) \/ Publish(c) \/ Abort(c) \/ CrashInWrite(c)

\* No XID is left and every client is done.
Finished ==
  /\ up /\ NEXT_XID > MaxXid /\ \A c \in Client : pc[c] = "idle"
  /\ UNCHANGED vars

Next == Crash \/ PowerLoss \/ Restart \/ Finished \/ \E c \in Client : Step(c)

Spec == Init /\ [][Next]_vars

-----------------------------------------------------------------------------
(* Properties *)

Kind   == {"PageImage", "Commit", "Abort"}
Rec    == [lsn : Nat \ {0}, xid : FirstXid..MaxXid, kind : Kind]
Cell   == [rec : Rec, part : 1..Size("PageImage")]
Writer == [seg : Nat, pos : Nat, lsn : Nat]
Label  == {"idle", "begun", "logged", "index", "index_log", "open", "flush", "publish"}

\* The state is well-formed; a restarted counter is never below the first XID
\* a transaction may have.
TypeOK ==
  /\ files \in Seq(Seq(Cell)) /\ disk \in Seq(Seq(Cell)) /\ Len(disk) = Len(files)
  /\ up \in BOOLEAN
  /\ wal \in Writer /\ idx_wal \in [Client -> Writer]
  /\ NEXT_XID \in FirstXid..MaxXid + 1
  /\ {committed, heap, acked} \subseteq SUBSET (FirstXid..MaxXid)
  /\ pc \in [Client -> Label]
  /\ xid \in [Client -> (FirstXid..MaxXid) \cup {0}]
  /\ crashes \in 0..MaxCrash

\* Durability: a transaction whose COMMIT was answered is committed for every
\* later life of the process.
Durable == up => acked \subseteq committed

\* advance_next_xid keeps a restarted process from handing out an XID that a
\* tuple in the heap already carries: that tuple would change hands.
XidUnused ==
  [][\A c \in DOMAIN xid : xid[c] = 0 /\ xid'[c] # 0 => xid'[c] \notin heap]_vars

\* WalWriter::open goes on with the LSN after the last one in the log: no LSN
\* is given to two records.
LsnUnique ==
  \A s, t \in 1..Len(files) : \A i \in 1..Len(files[s]), j \in 1..Len(files[t]) :
    files[s][i].rec.lsn = files[t][j].rec.lsn => files[s][i].rec = files[t][j].rec

\* A running engine has, in its heap file, the row of every committed
\* transaction whose page image the log still holds: a restart has redone it.
RowsRedone ==
  up => \A s \in 1..Len(files) : \A r \in Readable(files[s]) :
          r.kind = "PageImage" /\ r.xid \in committed => r.xid \in heap

=============================================================================
