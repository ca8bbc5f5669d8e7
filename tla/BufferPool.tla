----------------------------- MODULE BufferPool -----------------------------
(***************************************************************************)
(* The buffer pool of icedb (crates/storage/src/buffer.rs): frames with a  *)
(* descriptor each, a page table, and clock-sweep replacement over a heap  *)
(* file.  Every critical section of the code is one step, so that threads  *)
(* interleave wherever the code releases a latch; where the code takes a   *)
(* second latch while it holds one, the wait for it is a step too.         *)
(*                                                                         *)
(* The content of a page is abstracted to the number of the write_frame    *)
(* call that produced it, 0 being the page Page::new() makes.              *)
(***************************************************************************)
EXTENDS Integers, Sequences, FiniteSets, FiniteSetsExt, SequencesExt

CONSTANTS
  Thread,    \* callers of the pool
  NumFrames, \* num_frames of BufferPool::new
  NumPages,  \* pages of the heap file the callers use
  MaxUsage,  \* the largest usage_count (255 in the code)
  MaxPins,   \* bound: pins a caller holds at a time
  MaxWrite   \* bound: calls of write_frame

Frame == 0..NumFrames - 1
Page  == 0..NumPages - 1
None  == -1

VARIABLES
  frames,      \* content of each frame
  descriptors, \* page_no, dirty, pin_count, usage_count of each frame
  clock_hand,  \* index of the frame the next tick looks at
  heap,        \* content of the pages of the heap file, as a sequence
  page_table,  \* set of <<page, frame>>
  latch,       \* the thread that holds page_table and waits, or None
  held,        \* for each frame the thread that holds its descriptor and waits
  call,        \* the call each thread is in: pc, page, frame, ticks
  pins,        \* the pins each thread holds: page, frame and whether it wrote
  writes,      \* calls of write_frame so far
  latest,      \* history: the last content written for each page
  overlapped   \* history: a call ran while another one replaced or flushed

vars == <<frames, descriptors, clock_hand, heap, page_table, latch, held,
          call, pins, writes, latest, overlapped>>

NewDescriptor ==
  [page_no |-> None, dirty |-> FALSE, pin_count |-> 0, usage_count |-> 0]

Idle == [pc |-> "idle", page |-> None, frame |-> None, ticks |-> 0]

Init ==
  /\ frames = [f \in Frame |-> 0]
  /\ descriptors = [f \in Frame |-> NewDescriptor]
  /\ clock_hand = 0
  /\ heap = <<0>>
  /\ page_table = {}
  /\ latch = None
  /\ held = [f \in Frame |-> None]
  /\ call = [t \in Thread |-> Idle]
  /\ pins = [t \in Thread |-> <<>>]
  /\ writes = 0
  /\ latest = [p \in Page |-> 0]
  /\ overlapped = FALSE

At(t, pc) == call[t].pc = pc
Goto(t, pc) == call' = [call EXCEPT ![t].pc = pc]
Return(t) == call' = [call EXCEPT ![t] = Idle]

\* Threads inside pin_page's slow path or flush_frame
Busy == {t \in Thread :
           call[t].pc \in {"evict", "unmap", "load", "install", "describe",
                           "map", "write", "clean"}}

Overlap(t) == overlapped' = (overlapped \/ Busy \ {t} # {})

\* pin_page returns the frame to its caller.
Pinned(t) ==
  /\ pins' = [pins EXCEPT ![t] = Append(@,
       [page |-> call[t].page, frame |-> call[t].frame, wrote |-> FALSE])]
  /\ Return(t)

-----------------------------------------------------------------------------
(* pin_page *)

\* The latch on page_table is taken and the page looked up.  A hit goes on to
\* the descriptor with the latch held.
Lookup(t, p) ==
  LET hit == {e \in page_table : e[1] = p}
  IN  /\ At(t, "idle") /\ Len(pins[t]) < MaxPins /\ latch = None
      /\ IF hit = {}
         THEN /\ call' = [call EXCEPT ![t] = [Idle EXCEPT !.pc = "evict",
                                                          !.page = p]]
              /\ Overlap(t)
              /\ UNCHANGED latch
         ELSE /\ call' = [call EXCEPT ![t] = [Idle EXCEPT !.pc = "fast",
                             !.page = p, !.frame = (CHOOSE e \in hit : TRUE)[2]]]
              /\ latch' = t
              /\ UNCHANGED overlapped
      /\ UNCHANGED <<frames, descriptors, clock_hand, heap, page_table, held,
                     pins, writes, latest>>

\* The descriptor of a hit: pinned when it still is about the page
Fast(t) ==
  LET f == call[t].frame
      d == descriptors[f]
  IN  /\ At(t, "fast") /\ held[f] = None
      /\ latch' = None
      /\ IF d.page_no = call[t].page
         THEN /\ descriptors' = [descriptors EXCEPT
                   ![f].pin_count = @ + 1,
                   ![f].usage_count = Min({@ + 1, MaxUsage})]
              /\ Pinned(t)
              /\ UNCHANGED overlapped
         ELSE /\ Goto(t, "evict")
              /\ Overlap(t)
              /\ UNCHANGED <<descriptors, pins>>
      /\ UNCHANGED <<frames, clock_hand, heap, page_table, held, writes,
                     latest>>

\* Mutant: the caller that pinned a page last does not count.
InUseByTwo(d) == d.pin_count > 1

\* The clock sweep passes over the frame.
InUse(d) == d.pin_count > 0

\* evict_frame: one tick of the clock.  A victim with a page stays latched
\* until page_table can be latched as well.
Tick(t) ==
  LET f == clock_hand
      d == descriptors[f]
  IN  /\ At(t, "evict") /\ call[t].ticks < 2 * NumFrames /\ held[f] = None
      /\ clock_hand' = (clock_hand + 1) % NumFrames
      /\ \/ /\ InUse(d) \/ d.usage_count > 0
            /\ descriptors' = IF InUse(d) THEN descriptors
                              ELSE [descriptors EXCEPT ![f].usage_count = @ - 1]
            /\ call' = [call EXCEPT ![t].ticks = @ + 1]
            /\ UNCHANGED <<heap, held>>
         \/ /\ ~InUse(d) /\ d.usage_count = 0
            /\ heap' = IF d.dirty /\ d.page_no # None
                       THEN [heap EXCEPT ![d.page_no + 1] = frames[f]]
                       ELSE heap
            /\ descriptors' = [descriptors EXCEPT ![f].dirty = FALSE]
            /\ held' = [held EXCEPT ![f] = IF d.page_no = None THEN None ELSE t]
            /\ call' = [call EXCEPT ![t].frame = f, ![t].ticks = 0,
                          ![t].pc = IF d.page_no = None THEN "load" ELSE "unmap"]
      /\ UNCHANGED <<frames, page_table, latch, pins, writes, latest,
                     overlapped>>

\* Both latches are held: the victim leaves the page table.
Unmap(t) ==
  LET f == call[t].frame
  IN  /\ At(t, "unmap") /\ latch = None
      /\ page_table' = {e \in page_table : e[1] # descriptors[f].page_no}
      /\ descriptors' = [descriptors EXCEPT ![f].page_no = None]
      /\ held' = [held EXCEPT ![f] = None]
      /\ Goto(t, "load")
      /\ UNCHANGED <<frames, clock_hand, heap, latch, pins, writes, latest,
                     overlapped>>

\* AllFramesPinned after two sweeps
GiveUp(t) ==
  /\ At(t, "evict") /\ call[t].ticks = 2 * NumFrames
  /\ Return(t)
  /\ UNCHANGED <<frames, descriptors, clock_hand, heap, page_table, latch,
                 held, pins, writes, latest, overlapped>>

\* The heap file is extended up to the page, and the page read.  The local
\* variable `page` is kept in call.ticks.
Load(t) ==
  LET p == call[t].page
      extended == [i \in 1..Max({Len(heap), p + 1}) |->
                     IF i <= Len(heap) THEN heap[i] ELSE 0]
  IN  /\ At(t, "load")
      /\ heap' = extended
      /\ call' = [call EXCEPT ![t].pc = "install", ![t].ticks = extended[p + 1]]
      /\ UNCHANGED <<frames, descriptors, clock_hand, page_table, latch, held,
                     pins, writes, latest, overlapped>>

Install(t) ==
  /\ At(t, "install")
  /\ frames' = [frames EXCEPT ![call[t].frame] = call[t].ticks]
  /\ call' = [call EXCEPT ![t].pc = "describe", ![t].ticks = 0]
  /\ UNCHANGED <<descriptors, clock_hand, heap, page_table, latch, held, pins,
                 writes, latest, overlapped>>

Describe(t) ==
  /\ At(t, "describe") /\ held[call[t].frame] = None
  /\ descriptors' = [descriptors EXCEPT ![call[t].frame] =
       [page_no |-> call[t].page, dirty |-> FALSE, pin_count |-> 1,
        usage_count |-> 1]]
  /\ Goto(t, "map")
  /\ UNCHANGED <<frames, clock_hand, heap, page_table, latch, held, pins,
                 writes, latest, overlapped>>

Map(t) ==
  /\ At(t, "map") /\ latch = None
  /\ page_table' = {e \in page_table : e[1] # call[t].page}
                     \cup {<<call[t].page, call[t].frame>>}
  /\ Pinned(t)
  /\ UNCHANGED <<frames, descriptors, clock_hand, heap, latch, held, writes,
                 latest, overlapped>>

-----------------------------------------------------------------------------
(* write_frame, unpin_page, flush_frame *)

\* A caller that holds a pin changes the page.
WriteFrame(t, i) ==
  LET pin == pins[t][i]
  IN  /\ At(t, "idle") /\ writes < MaxWrite
      /\ writes' = writes + 1
      /\ frames' = [frames EXCEPT ![pin.frame] = writes + 1]
      /\ latest' = [latest EXCEPT ![pin.page] = writes + 1]
      /\ pins' = [pins EXCEPT ![t][i].wrote = TRUE]
      /\ UNCHANGED <<descriptors, clock_hand, heap, page_table, latch, held,
                     call, overlapped>>

\* Mutant: the last unpin decides.
DirtyLast(dirty, wrote) == wrote

\* A page stays dirty, whoever unpins it next.
DirtyAfter(dirty, wrote) == dirty \/ wrote

\* The caller passes dirty when it has written.
UnpinPage(t, i) ==
  LET pin == pins[t][i]
      f   == pin.frame
  IN  /\ At(t, "idle") /\ held[f] = None
      /\ descriptors' = [descriptors EXCEPT
           ![f].pin_count = IF @ > 0 THEN @ - 1 ELSE @,
           ![f].dirty = DirtyAfter(@, pin.wrote)]
      /\ pins' = [pins EXCEPT ![t] = RemoveAt(@, i)]
      /\ overlapped' = (overlapped \/ \E u \in Busy : call[u].frame = f /\ pin.wrote)
      /\ UNCHANGED <<frames, clock_hand, heap, page_table, latch, held, call,
                     writes, latest>>

\* flush_frame, also for each frame of flush_all_dirty: the descriptor is read,
\* the page written, the descriptor marked clean, in three sections.
FlushFrame(t, f) ==
  /\ At(t, "idle") /\ held[f] = None /\ descriptors[f].dirty
  /\ call' = [call EXCEPT ![t] = [Idle EXCEPT !.pc = "write", !.frame = f,
                                     !.page = descriptors[f].page_no]]
  /\ Overlap(t)
  /\ UNCHANGED <<frames, descriptors, clock_hand, heap, page_table, latch,
                 held, pins, writes, latest>>

FlushWrite(t) ==
  /\ At(t, "write")
  /\ heap' = IF call[t].page = None THEN heap
             ELSE [heap EXCEPT ![call[t].page + 1] = frames[call[t].frame]]
  /\ Goto(t, "clean")
  /\ UNCHANGED <<frames, descriptors, clock_hand, page_table, latch, held,
                 pins, writes, latest, overlapped>>

FlushClean(t) ==
  /\ At(t, "clean") /\ held[call[t].frame] = None
  /\ descriptors' = [descriptors EXCEPT ![call[t].frame].dirty = FALSE]
  /\ Return(t)
  /\ UNCHANGED <<frames, clock_hand, heap, page_table, latch, held, pins,
                 writes, latest, overlapped>>

Next ==
  \E t \in Thread :
    \/ \E p \in Page : Lookup(t, p)
    \/ Fast(t) \/ Tick(t) \/ Unmap(t) \/ GiveUp(t)
    \/ Load(t) \/ Install(t) \/ Describe(t) \/ Map(t)
    \/ \E i \in DOMAIN pins[t] : WriteFrame(t, i) \/ UnpinPage(t, i)
    \/ \E f \in Frame : FlushFrame(t, f)
    \/ FlushWrite(t) \/ FlushClean(t)

Spec == Init /\ [][Next]_vars

-----------------------------------------------------------------------------
(* Properties *)

\* The types of the variables.
TypeOK ==
  /\ frames \in [Frame -> 0..MaxWrite]
  /\ descriptors \in [Frame -> [page_no : Page \cup {None}, dirty : BOOLEAN,
                                pin_count : 0..MaxPins * Cardinality(Thread),
                                usage_count : 0..MaxUsage]]
  /\ clock_hand \in Frame
  /\ heap \in Seq(0..MaxWrite) /\ Len(heap) <= NumPages
  /\ page_table \subseteq Page \X Frame
  /\ latch \in Thread \cup {None}
  /\ held \in [Frame -> Thread \cup {None}]
  /\ \A t \in Thread : \A i \in DOMAIN pins[t] :
       pins[t][i] \in [page : Page, frame : Frame, wrote : BOOLEAN]

\* A pinned frame keeps its page: until two calls overlap in the slow path of
\* pin_page or in flush_frame, every holder of a pin finds in its frame what
\* was last written to its page, whatever the clock sweep has replaced since.
PinnedIsCurrent ==
  overlapped \/
    \A t \in Thread : \A i \in DOMAIN pins[t] :
      /\ descriptors[pins[t][i].frame].page_no = pins[t][i].page
      /\ frames[pins[t][i].frame] = latest[pins[t][i].page]

\* No write is lost: until two calls overlap, the last write to a page is in
\* the heap file or in a frame that eviction will not drop without writing it.
NothingLost ==
  overlapped \/
    \A p \in Page :
      \/ latest[p] = IF p < Len(heap) THEN heap[p + 1] ELSE 0
      \/ \E f \in Frame : /\ descriptors[f].page_no = p
                          /\ frames[f] = latest[p]
                          /\ descriptors[f].dirty \/ descriptors[f].pin_count > 0

\* The error "all buffer frames are pinned" is returned only if they are.
AllFramesPinned ==
  [][\A t \in Thread :
       GiveUp(t) => \A f \in Frame : descriptors[f].pin_count > 0]_vars
=============================================================================
