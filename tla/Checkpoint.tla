----------------------------- MODULE Checkpoint -----------------------------
(***************************************************************************)
(* CheckpointManager (wal/src/checkpoint.rs) and RecoveryManager           *)
(* (wal/src/recovery.rs) over a heap file and a log without torn records   *)
(* (module Wal has those).  A writer changes pages: it logs the image of a *)
(* page and then writes the page, as the transaction manager does, or only *)
(* changes it in memory and leaves it to the checkpoint.  The process may  *)
(* stop between any two steps of a writer, a checkpoint or a recovery.     *)
(*                                                                         *)
(* The content of a page is the number of the change that produced it.     *)
(* The LSN of a record is its index in the log.                            *)
(***************************************************************************)
EXTENDS Integers, Sequences, FiniteSets, FiniteSetsExt, SequencesExt

CONSTANTS
  NumPages,   \* pages the writer changes
  MaxChange,  \* bound: changes of pages
  MaxLog,     \* bound: records
  MaxCrash    \* bound: crashes

Page == 1..NumPages
INVALID_LSN == 0
Empty == 0

VARIABLES
  heap,      \* pages of the heap file
  memory,    \* set of <<page, content>>: dirty pages of the process
  log,       \* records [type, page_no, data]
  ctl,       \* checkpoint.ctl: <<>> when empty, <<INVALID_LSN>> when absent
  writing,   \* the image logged and not yet written to the heap: <<page, content>>
  ckpt,      \* the checkpoint in progress: step and the images still to log
  redo,      \* LSN of the record recovery reads next; 0 when the process is up
  changes,
  crashes

vars == <<heap, memory, log, ctl, writing, ckpt, redo, changes, crashes>>

NoCheckpoint == [step |-> "none", images |-> <<>>]

Init ==
  /\ heap = <<>>
  /\ memory = {} /\ log = <<>> /\ ctl = <<INVALID_LSN>>
  /\ writing = <<>> /\ ckpt = NoCheckpoint
  /\ redo = 0 /\ changes = 0 /\ crashes = 0

Up == redo = 0

Record(type, p, c) == [type |-> type, page_no |-> p, data |-> c]

\* ensure_pages, then write_page
WriteTo(h, p, c) ==
  [i \in 1..Max({Len(h), p}) |->
     IF i = p THEN c ELSE IF i <= Len(h) THEN h[i] ELSE Empty]

\* perform_checkpoint borrows the dirty pages: they do not change under it.
Borrowed(p) == ckpt.step # "none" /\ \E m \in memory : m[1] = p

\* A page is changed in memory only.
Change(p) ==
  /\ ~Borrowed(p)
  /\ Up /\ changes < MaxChange /\ writing = <<>>
  /\ changes' = changes + 1
  /\ memory' = {m \in memory : m[1] # p} \cup {<<p, changes + 1>>}
  /\ UNCHANGED <<heap, log, ctl, writing, ckpt, redo, crashes>>

\* TransactionManager::insert_tuple and delete_tuple: the image, then the page
LogImage(p) ==
  /\ ~Borrowed(p)
  /\ Up /\ changes < MaxChange /\ Len(log) < MaxLog /\ writing = <<>>
  /\ changes' = changes + 1
  /\ log' = Append(log, Record("PageImage", p, changes + 1))
  /\ writing' = <<p, changes + 1>>
  /\ memory' = {m \in memory : m[1] # p}
  /\ UNCHANGED <<heap, ctl, ckpt, redo, crashes>>

WritePage ==
  /\ Up /\ writing # <<>>
  /\ heap' = WriteTo(heap, writing[1], writing[2])
  /\ writing' = <<>>
  /\ UNCHANGED <<memory, log, ctl, ckpt, redo, changes, crashes>>

-----------------------------------------------------------------------------
(* perform_checkpoint(dirty_pages): the caller passes its dirty pages, in   *)
(* the order of their numbers.                                             *)

BeginCheckpoint ==
  /\ Up /\ ckpt.step = "none" /\ writing = <<>>
  /\ ckpt' = [step |-> "images",
              images |-> SetToSortSeq(memory, LAMBDA a, b : a[1] < b[1])]
  /\ UNCHANGED <<heap, memory, log, ctl, writing, redo, changes, crashes>>

CheckpointImage ==
  /\ Up /\ ckpt.step = "images" /\ ckpt.images # <<>> /\ Len(log) < MaxLog
  /\ log' = Append(log, Record("PageImage", Head(ckpt.images)[1],
                               Head(ckpt.images)[2]))
  /\ ckpt' = [ckpt EXCEPT !.images = Tail(@)]
  /\ UNCHANGED <<heap, memory, ctl, writing, redo, changes, crashes>>

\* append_and_flush of the Checkpoint record
CheckpointRecord ==
  /\ Up /\ ckpt.step = "images" /\ ckpt.images = <<>> /\ Len(log) < MaxLog
  /\ log' = Append(log, Record("Checkpoint", 0, Empty))
  /\ ckpt' = [step |-> "truncate", images |-> <<Len(log) + 1>>]
  /\ UNCHANGED <<heap, memory, ctl, writing, redo, changes, crashes>>

\* The control file is truncated when it is opened, and then written.
TruncateCtl ==
  /\ Up /\ ckpt.step = "truncate"
  /\ ctl' = <<>>
  /\ ckpt' = [ckpt EXCEPT !.step = "persist"]
  /\ UNCHANGED <<heap, memory, log, writing, redo, changes, crashes>>

PersistCtl ==
  /\ Up /\ ckpt.step = "persist"
  /\ ctl' = ckpt.images
  /\ ckpt' = NoCheckpoint
  /\ UNCHANGED <<heap, memory, log, writing, redo, changes, crashes>>

-----------------------------------------------------------------------------
(* Crash and recover *)

\* What the process holds in memory is gone.
Crash ==
  /\ crashes < MaxCrash
  /\ crashes' = crashes + 1
  /\ memory' = {} /\ writing' = <<>> /\ ckpt' = NoCheckpoint
  /\ redo' = -1
  /\ UNCHANGED <<heap, log, ctl, changes>>

\* Mutant: past the record after the checkpoint.
FirstRedoPast(lsn) == lsn + 2

\* The record redo starts from
FirstRedo(lsn) == Max({lsn, 1})

\* read_checkpoint_lsn and WalReader::open: the first record at or after the
\* checkpoint LSN.  read_exact fails on an empty control file, and with it
\* recover: the process stays down.
StartRedo ==
  /\ redo = -1 /\ ctl # <<>>
  /\ redo' = FirstRedo(ctl[1])
  /\ UNCHANGED <<heap, memory, log, ctl, writing, ckpt, changes, crashes>>

\* Only a PageImage is replayed.
Redo ==
  /\ redo \in DOMAIN log
  /\ heap' = IF log[redo].type = "PageImage"
             THEN WriteTo(heap, log[redo].page_no, log[redo].data)
             ELSE heap
  /\ redo' = redo + 1
  /\ UNCHANGED <<memory, log, ctl, writing, ckpt, changes, crashes>>

Recovered ==
  /\ redo > Len(log)
  /\ redo' = 0
  /\ UNCHANGED <<heap, memory, log, ctl, writing, ckpt, changes, crashes>>

Next ==
  \/ \E p \in Page : Change(p) \/ LogImage(p)
  \/ WritePage
  \/ BeginCheckpoint \/ CheckpointImage \/ CheckpointRecord
  \/ TruncateCtl \/ PersistCtl
  \/ Crash \/ StartRedo \/ Redo \/ Recovered

Spec == Init /\ [][Next]_vars

-----------------------------------------------------------------------------
(* Properties *)

\* LSNs of the images of page p
Images(p) == {i \in DOMAIN log : log[i].type = "PageImage" /\ log[i].page_no = p}

\* Content of page p in the heap file
OnDisk(p) == IF p \in DOMAIN heap THEN heap[p] ELSE Empty

\* Whatever crashes interrupt, also in the middle of a recovery: while the
\* process is up, a page whose last image was logged after the checkpoint is in
\* the heap file as that image has it, or is being written.
RedoneAfterCheckpoint ==
  Up /\ ctl # <<>> =>
    \A p \in Page :
      LET last == Max(Images(p) \cup {0})
      IN  last > ctl[1] =>
            \/ OnDisk(p) = log[last].data
            \/ writing = <<p, log[last].data>>
            \/ \E m \in memory : m[1] = p

\* A checkpoint keeps what it was given: while the process is up, the last
\* image of a page in the log, before the checkpoint record or after it, is
\* what the heap file holds, unless the page is still dirty in memory.
CheckpointKeepsPages ==
  Up /\ writing = <<>> =>
    \A p \in Page :
      \/ Images(p) = {} \/ OnDisk(p) >= log[Max(Images(p))].data
      \/ \E m \in memory : m[1] = p
=============================================================================
