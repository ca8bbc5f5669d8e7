------------------------------ MODULE MCStorage ------------------------------
(***************************************************************************)
(* The parts of the storage layer, each on a small instance.  A behaviour  *)
(* is one of the part it starts with; the others stay as they begin.       *)
(***************************************************************************)
EXTENDS Integers, Sequences, FiniteSets, TLC

CONSTANTS Client, Thread, First

VARIABLES
  part,
  pages, meta,
  frames, descriptors, clock_hand, pool_heap, page_table, latch, held, call,
  pins, writes, latest, overlapped,
  file, op, ended, locks, inserts, rows, clobbered,
  ckpt_heap, memory, ckpt_log, ctl, writing, ckpt, redo, changes, ckpt_crashes,
  files, disk, up, wal, idx_wal, NEXT_XID, committed, pc, xid, heap, acked, crashes

tree_vars == <<pages, meta>>
pool_vars == <<frames, descriptors, clock_hand, pool_heap, page_table, latch, held,
               call, pins, writes, latest, overlapped>>
heap_vars == <<file, op, ended, locks, inserts, rows, clobbered>>
ckpt_vars == <<ckpt_heap, memory, ckpt_log, ctl, writing, ckpt, redo, changes,
               ckpt_crashes>>
wal_vars  == <<files, disk, up, wal, idx_wal, NEXT_XID, committed, pc, xid, heap,
               acked, crashes>>
vars == <<part, tree_vars, pool_vars, heap_vars, ckpt_vars, wal_vars>>

-----------------------------------------------------------------------------
(* Seven keys in nodes of two entries; one key is longer than the others, and
   neighbours have different tuple ids. *)

Length(k)  == IF k = 3 THEN 4 ELSE 2
RowTid(k)  == 1 + (k % 2)

Tree == INSTANCE BTree WITH
  Key <- 1..7, Tid <- {1, 2}, TidOfRow <- RowTid, KeyLen <- Length,
  PAGE_SIZE <- 45, FULL_THRESHOLD <- 12, MaxPage <- 12

ASSUME Tree!EntriesFit

(* Two callers and three pages compete for two frames. *)
Pool == INSTANCE BufferPool WITH
  NumFrames <- 2, NumPages <- 3, MaxUsage <- 2, MaxPins <- 1, MaxWrite <- 2,
  heap <- pool_heap

(* A page holds a long tuple or two short ones. *)
Table == INSTANCE Heap WITH
  Session <- {1, 2}, Vacuum <- {3}, TupleLen <- {36, 120}, PAGE_SIZE <- 140,
  MaxPages <- 2, MaxInserts <- 3

Ckpt == INSTANCE Checkpoint WITH
  NumPages <- 2, MaxChange <- 3, MaxLog <- 6, MaxCrash <- 2,
  heap <- ckpt_heap, log <- ckpt_log, crashes <- ckpt_crashes

(* Two clients and small segments, for two crashes *)
Log == INSTANCE Wal WITH
  SegmentSize <- 4, MaxXid <- 5, MaxCrash <- 2,
  Indexed <- FALSE, Tearing <- FALSE, PowerFails <- FALSE

(* One client, whose table has an index; a write may be torn and the page cache
   lost. *)
Alone == INSTANCE Wal WITH
  Client <- {First}, SegmentSize <- 40, MaxXid <- 6, MaxCrash <- 1,
  Indexed <- TRUE, Tearing <- TRUE, PowerFails <- TRUE

ASSUME Log!WalConstants /\ Alone!WalConstants

-----------------------------------------------------------------------------
Init ==
  /\ part \in {"tree", "pool", "heap", "checkpoint", "wal", "wal_alone"}
  /\ Tree!Init /\ Pool!Init /\ Table!Init /\ Ckpt!Init
  /\ part # "wal_alone" => Log!Init
  /\ part = "wal_alone" => Alone!Init

TreeStep ==
  /\ part = "tree" /\ UNCHANGED <<part, pool_vars, heap_vars, ckpt_vars, wal_vars>>
  /\ Tree!Next
PoolStep ==
  /\ part = "pool" /\ UNCHANGED <<part, tree_vars, heap_vars, ckpt_vars, wal_vars>>
  /\ Pool!Next
HeapStep ==
  /\ part = "heap" /\ UNCHANGED <<part, tree_vars, pool_vars, ckpt_vars, wal_vars>>
  /\ Table!Next
CheckpointStep ==
  /\ part = "checkpoint" /\ UNCHANGED <<part, tree_vars, pool_vars, heap_vars, wal_vars>>
  /\ Ckpt!Next
WalStep ==
  /\ part = "wal" /\ UNCHANGED <<part, tree_vars, pool_vars, heap_vars, ckpt_vars>>
  /\ Log!Next
WalAloneStep ==
  /\ part = "wal_alone" /\ UNCHANGED <<part, tree_vars, pool_vars, heap_vars, ckpt_vars>>
  /\ Alone!Next

Next == TreeStep \/ PoolStep \/ HeapStep \/ CheckpointStep \/ WalStep \/ WalAloneStep

Spec == Init /\ [][Next]_vars

\* Nothing is claimed of what follows two overlapping calls of the pool, or a
\* heap page written over a change made since it was read.
Kept == ~overlapped /\ ~clobbered

Symmetric == Permutations(Thread)

-----------------------------------------------------------------------------
(* Properties *)

\* Every leaf of the B+ tree is at the depth of the meta page and on a chain that
\* reads the same both ways, after any splits and deletes, and search and range
\* scans return what the leaves hold.
TreeSound == part = "tree" => Tree!TypeOK /\ Tree!TreeShape /\ Tree!ReadsAgree

\* The B+ tree implements a sorted map.
ImplementsMap == Tree!Map!Init /\ [][part = "tree" => Tree!Map!Next]_(Tree!Content)

\* A pinned frame of the buffer pool keeps its page and the page's last content; the
\* last write to any page is in the heap file or in a frame that is not dropped.
PagesCurrent == part = "pool" => Pool!TypeOK /\ Pool!PinnedIsCurrent /\ Pool!NothingLost

\* A TID stays the address of its tuple through inserts, deletes and VACUUM, and the
\* tuples of a page overlap neither each other nor the item array.
TidsStay == part = "heap" => Table!PagesLaidOut /\ Table!TidsStay

\* A recovery, interrupted or not, redoes the images logged after the checkpoint.
RedoneAfterCheckpoint == part = "checkpoint" => Ckpt!RedoneAfterCheckpoint

\* A transaction whose COMMIT was answered is committed after every restart.  In a
\* log with one writer no LSN is given to two records.
Durable ==
  /\ part = "wal" => Log!TypeOK /\ Log!Durable /\ Log!LsnUnique
  /\ part = "wal_alone" => Alone!TypeOK /\ Alone!Durable

\* A process restarted after a crash that lost no file content hands out no XID
\* that a tuple of the heap carries.
XidUnused ==
  [][part = "wal" => \A c \in Client : xid[c] = 0 /\ xid'[c] # 0 => xid'[c] \notin heap]_wal_vars

=============================================================================
