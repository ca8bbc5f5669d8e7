---------------------------- MODULE SessionProofs ----------------------------
(***************************************************************************)
(* The safety of the sessions, for any number of sessions, savepoints,     *)
(* tuples and transactions: a session owns its transaction, a transaction  *)
(* nobody owns is a SERIALIZABLE one, and ROLLBACK TO never drains the     *)
(* undo log out of its bounds.                                             *)
(***************************************************************************)
EXTENDS Session, SequenceTheorems, WellFoundedInduction, TLAPS

-----------------------------------------------------------------------------
(* Facts about the operators *)

\* The starts of a state's frames lie in its log, in order.
Bounded(st) ==
  \A i \in DOMAIN st.savepoints :
    /\ st.savepoints[i].undo_log_start <= Len(st.undo_log)
    /\ \A j \in 1..i : st.savepoints[j].undo_log_start <= st.savepoints[i].undo_log_start

StateType == [xid : Xid \cup {0}, savepoints : Seq(Frame), undo_log : Seq(Entry)]

\* A session state is a record of its three fields.
LEMMA StateFields ==
  ASSUME NEW x, NEW frames, NEW log
  PROVE  /\ State(x, frames, log).xid = x /\ State(x, frames, log).savepoints = frames
         /\ State(x, frames, log).undo_log = log
         /\ x \in Xid \cup {0} /\ frames \in Seq(Frame) /\ log \in Seq(Entry)
              => State(x, frames, log) \in StateType
  BY DEF State, StateType

\* A set of naturals that is not empty has a least element.
LEMMA LeastNat ==
  ASSUME NEW T \in SUBSET Nat, T # {}
  PROVE  \E x \in T : \A y \in T : x <= y
<1> DEFINE Less == {u \in Nat \X Nat : u[1] < u[2]}
<1>1. IsWellFoundedOn(Less, Nat)
  BY NatLessThanWellFounded, Zenon DEF OpToRel
<1>2. PICK x \in T : \A y \in T : ~ (<<y, x>> \in Less)
  <2> HIDE DEF Less
  <2> QED
    BY Zenon, <1>1, WFMin
<1>3. ASSUME NEW y \in T
      PROVE  x <= y
  <2>1. x \in Nat /\ y \in Nat
    OBVIOUS
  <2>2. ~ (y < x)
    BY Zenon, <1>2, <2>1
  <2> QED
    BY <2>1, <2>2
<1> QED
  BY <1>3

\* A set of positions that is not empty has a largest element.
LEMMA LargestPosition ==
  ASSUME NEW n \in Nat, NEW I \in SUBSET (1..n), I # {}
  PROVE  \E m \in I : \A i \in I : m >= i
<1> DEFINE T == {k \in Nat : n - k \in I}
<1>1. T \in SUBSET Nat /\ T # {}
  <2>1. PICK i \in I : TRUE
    BY Zenon
  <2>2. n - i \in Nat /\ n - (n - i) = i
    BY <2>1
  <2>3. n - i \in T
    BY <2>1, <2>2
  <2> QED
    BY Zenon, <2>3
<1>2. PICK x \in T : \A y \in T : x <= y
  <2> HIDE DEF T
  <2> QED
    BY <1>1, LeastNat
<1>3. ASSUME NEW i \in I
      PROVE  n - x >= i
  <2>1. n - i \in Nat /\ n - (n - i) = i /\ x \in Nat
    BY <1>2
  <2>2. x <= n - i
    BY <1>2, <2>1
  <2> QED
    BY <2>1, <2>2
<1>4. n - x \in I
  BY <1>2
<1> QED
  BY Zenon, <1>3, <1>4

\* The elements of a session's frames have their type.
LEMMA FrameTypes ==
  ASSUME NEW frames \in Seq(Frame)
  PROVE  /\ Len(frames) \in Nat /\ DOMAIN frames = 1..Len(frames)
         /\ \A i \in 1..Len(frames) : frames[i] \in Frame /\ frames[i].undo_log_start \in Nat
<1>1. \A i \in 1..Len(frames) : frames[i] \in Frame
  OBVIOUS
<1> QED
  BY <1>1 DEF Frame

\* The innermost frame of a name, when there is one, is one of the frames.
LEMMA LastNamedInFrames ==
  ASSUME NEW frames \in Seq(Frame), NEW n, LastNamed(frames, n) # 0
  PROVE  /\ LastNamed(frames, n) \in 1..Len(frames)
         /\ frames[LastNamed(frames, n)].name = n
         /\ \A j \in 1..Len(frames) : frames[j].name = n => j <= LastNamed(frames, n)
<1> DEFINE I == {i \in DOMAIN frames : frames[i].name = n}
<1>1. I # {} /\ LastNamed(frames, n) = CHOOSE i \in I : \A j \in I : i >= j
  BY Zenon DEF LastNamed
<1>2. DOMAIN frames = 1..Len(frames) /\ Len(frames) \in Nat /\ I \in SUBSET (1..Len(frames))
  OBVIOUS
<1>3. \E m \in I : \A i \in I : m >= i
  <2> HIDE DEF I
  <2> QED
    BY Zenon, <1>1, <1>2, LargestPosition
<1>4. LastNamed(frames, n) \in I /\ \A j \in I : LastNamed(frames, n) >= j
  BY Zenon, <1>1, <1>3
<1> QED
  BY <1>2, <1>4

\* What a write adds to the undo log is a sequence of entries.
LEMMA LogOfType ==
  ASSUME NEW x, NEW op, NEW c \in Changes(x, op)
  PROVE  LogOf(c) \in Seq(Entry)
<1>1. c.del \in Tid \cup {0} /\ c.ins \in Tid \cup {0}
  BY DEF Changes, Visible, Fresh
<1>2. (IF c.del = 0 THEN << >> ELSE <<[kind |-> "Delete", tid |-> c.del]>>) \in Seq(Entry)
  <2>1. c.del # 0 => [kind |-> "Delete", tid |-> c.del] \in Entry
    BY <1>1 DEF Entry
  <2> QED
    BY <2>1
<1>3. (IF c.ins = 0 THEN << >> ELSE <<[kind |-> "Insert", tid |-> c.ins]>>) \in Seq(Entry)
  <2>1. c.ins # 0 => [kind |-> "Insert", tid |-> c.ins] \in Entry
    BY <1>1 DEF Entry
  <2> QED
    BY <2>1
<1> QED
  BY <1>2, <1>3, ConcatProperties DEF LogOf

\* A new block has no frames.
LEMMA NewStateBounded ==
  ASSUME NEW x \in Xid
  PROVE  NewState(x) \in StateType /\ Bounded(NewState(x)) /\ NewState(x).xid = x
<1>1. << >> \in Seq(Frame) /\ << >> \in Seq(Entry)
  OBVIOUS
<1>2. NewState(x).savepoints = << >> /\ NewState(x).xid = x /\ NewState(x) \in StateType
  BY <1>1 DEF NewState, State, StateType
<1>3. DOMAIN << >> = {}
  OBVIOUS
<1> QED
  BY <1>2, <1>3 DEF Bounded

\* A frame that starts at the end of the log keeps the starts in order.
LEMMA SavepointBounded ==
  ASSUME NEW st \in StateType, Bounded(st), NEW n \in Name
  PROVE  LET new == State(st.xid, Append(st.savepoints, [name |-> n, undo_log_start |-> Len(st.undo_log)]),
                          st.undo_log)
         IN  new \in StateType /\ Bounded(new)
<1> DEFINE frame == [name |-> n, undo_log_start |-> Len(st.undo_log)]
           saves == Append(st.savepoints, frame)
           new   == State(st.xid, saves, st.undo_log)
<1>1. st.savepoints \in Seq(Frame) /\ st.undo_log \in Seq(Entry) /\ st.xid \in Xid \cup {0}
      /\ Len(st.undo_log) \in Nat /\ Len(st.savepoints) \in Nat
  BY DEF StateType
<1>2. frame \in Frame /\ frame.undo_log_start = Len(st.undo_log)
  BY <1>1 DEF Frame
<1>3. /\ saves \in Seq(Frame) /\ DOMAIN saves = 1..Len(st.savepoints) + 1
      /\ saves[Len(st.savepoints) + 1] = frame
      /\ \A i \in 1..Len(st.savepoints) : saves[i] = st.savepoints[i]
  BY <1>1, <1>2
<1>4. \A i \in 1..Len(st.savepoints) : st.savepoints[i].undo_log_start \in Nat
  BY <1>1, FrameTypes
<1>5. \A i \in 1..Len(st.savepoints) :
        /\ st.savepoints[i].undo_log_start <= Len(st.undo_log)
        /\ \A j \in 1..i : st.savepoints[j].undo_log_start <= st.savepoints[i].undo_log_start
  BY <1>1 DEF Bounded
<1> HIDE DEF saves
<1>6. new \in StateType /\ new.savepoints = saves /\ new.undo_log = st.undo_log
  BY <1>1, <1>3, StateFields
<1>7. ASSUME NEW i \in DOMAIN saves
      PROVE  /\ saves[i].undo_log_start <= Len(st.undo_log)
             /\ \A j \in 1..i : saves[j].undo_log_start <= saves[i].undo_log_start
  <2> HIDE DEF frame
  <2>1. CASE i = Len(st.savepoints) + 1
    <3>1. \A j \in 1..i : j \in 1..Len(st.savepoints) \/ j = i
      BY <1>1, <2>1
    <3> QED
      BY <1>1, <1>2, <1>3, <1>5, <2>1, <3>1
  <2>2. CASE i # Len(st.savepoints) + 1
    <3>1. i \in 1..Len(st.savepoints) /\ \A j \in 1..i : j \in 1..Len(st.savepoints)
      BY <1>1, <1>3, <1>7, <2>2
    <3> QED
      BY <1>3, <1>5, <3>1
  <2> QED
    BY <2>1, <2>2
<1> HIDE DEF frame, new
<1>8. Bounded(new)
  BY <1>6, <1>7 DEF Bounded
<1> QED
  BY <1>6, <1>8 DEF new, saves, frame

\* Cutting the log at a frame's start and the frames after it keeps the order.
LEMMA RollbackBounded ==
  ASSUME NEW st \in StateType, Bounded(st), NEW pos \in 1..Len(st.savepoints)
  PROVE  LET new == State(st.xid, FramesKept(st.savepoints, pos),
                          SubSeq(st.undo_log, 1, st.savepoints[pos].undo_log_start))
         IN  new \in StateType /\ Bounded(new)
<1> DEFINE start == st.savepoints[pos].undo_log_start
           saves == FramesKept(st.savepoints, pos)
           log   == SubSeq(st.undo_log, 1, start)
           new   == State(st.xid, saves, log)
<1>1. st.savepoints \in Seq(Frame) /\ st.undo_log \in Seq(Entry) /\ st.xid \in Xid \cup {0}
      /\ Len(st.undo_log) \in Nat /\ Len(st.savepoints) \in Nat
  BY DEF StateType
<1>2. \A i \in 1..Len(st.savepoints) : st.savepoints[i].undo_log_start \in Nat
  BY <1>1, FrameTypes
<1>3. start \in Nat /\ start <= Len(st.undo_log)
      /\ \A i \in 1..pos : \A j \in 1..i :
           st.savepoints[j].undo_log_start <= st.savepoints[i].undo_log_start
  BY <1>1, <1>2 DEF Bounded
<1>4. saves \in Seq(Frame) /\ DOMAIN saves = 1..pos /\ \A i \in 1..pos : saves[i] = st.savepoints[i]
  BY <1>1 DEF FramesKept
<1>5. log \in Seq(Entry) /\ Len(log) = start
  BY <1>1, <1>3
<1> HIDE DEF saves, log
<1>6. new \in StateType /\ new.savepoints = saves /\ new.undo_log = log
  BY <1>1, <1>4, <1>5, StateFields
<1>7. ASSUME NEW i \in DOMAIN saves
      PROVE  /\ saves[i].undo_log_start <= start
             /\ \A j \in 1..i : saves[j].undo_log_start <= saves[i].undo_log_start
  <2>1. i \in 1..pos /\ pos \in 1..pos /\ \A j \in 1..i : j \in 1..pos
    BY <1>4, <1>7
  <2> QED
    BY <1>3, <1>4, <2>1
<1> HIDE DEF new, start
<1>8. Bounded(new)
  BY <1>5, <1>6, <1>7 DEF Bounded
<1> QED
  BY <1>6, <1>8 DEF new, saves, log, start

\* Taking one frame out keeps the order of the others.
LEMMA ReleaseBounded ==
  ASSUME NEW st \in StateType, Bounded(st), NEW pos \in 1..Len(st.savepoints)
  PROVE  LET new == State(st.xid, Without(st.savepoints, pos), st.undo_log)
         IN  new \in StateType /\ Bounded(new)
<1> DEFINE saves == Without(st.savepoints, pos)
           new   == State(st.xid, saves, st.undo_log)
           old(i) == IF i < pos THEN i ELSE i + 1
<1>1. st.savepoints \in Seq(Frame) /\ st.undo_log \in Seq(Entry) /\ st.xid \in Xid \cup {0}
      /\ Len(st.undo_log) \in Nat /\ Len(st.savepoints) \in Nat
  BY DEF StateType
<1>2. \A i \in 1..Len(st.savepoints) :
        /\ st.savepoints[i].undo_log_start <= Len(st.undo_log)
        /\ \A j \in 1..i : st.savepoints[j].undo_log_start <= st.savepoints[i].undo_log_start
  BY <1>1 DEF Bounded
<1> DEFINE before == SubSeq(st.savepoints, 1, pos - 1)
           after  == SubSeq(st.savepoints, pos + 1, Len(st.savepoints))
<1>3a. /\ before \in Seq(Frame) /\ Len(before) = pos - 1
       /\ \A i \in 1..pos - 1 : before[i] = st.savepoints[i]
  BY <1>1
<1>3b. /\ after \in Seq(Frame) /\ Len(after) = Len(st.savepoints) - pos
       /\ \A i \in 1..Len(st.savepoints) - pos : after[i] = st.savepoints[pos + i]
  BY <1>1
<1>3c. saves = before \o after
  BY DEF Without
<1> HIDE DEF saves, before, after
<1>3. saves \in Seq(Frame) /\ DOMAIN saves = 1..Len(st.savepoints) - 1
  BY <1>1, <1>3a, <1>3b, <1>3c, ConcatProperties
<1>4. \A i \in 1..Len(st.savepoints) - 1 :
        old(i) \in 1..Len(st.savepoints) /\ saves[i] = st.savepoints[old(i)]
  <2>1. \A i \in 1..Len(before) + Len(after) :
          saves[i] = IF i <= Len(before) THEN before[i] ELSE after[i - Len(before)]
    BY Zenon, <1>3a, <1>3b, <1>3c, ConcatProperties
  <2>2. \A i \in 1..pos - 1 : saves[i] = st.savepoints[i]
    BY <1>1, <1>3a, <1>3b, <2>1
  <2>3. ASSUME NEW i \in pos..Len(st.savepoints) - 1
        PROVE  saves[i] = st.savepoints[i + 1]
    <3>1. /\ i \in 1..Len(before) + Len(after) /\ ~(i <= Len(before))
          /\ i - Len(before) \in 1..Len(st.savepoints) - pos /\ pos + (i - Len(before)) = i + 1
      BY <1>1, <1>3a, <1>3b
    <3> QED
      BY Zenon, <1>3b, <2>1, <3>1
  <2> QED
    BY <1>1, <2>2, <2>3
<1>5. new \in StateType /\ new.savepoints = saves /\ new.undo_log = st.undo_log
  BY <1>1, <1>3, StateFields
<1>6. ASSUME NEW i \in DOMAIN saves
      PROVE  /\ saves[i].undo_log_start <= Len(st.undo_log)
             /\ \A j \in 1..i : saves[j].undo_log_start <= saves[i].undo_log_start
  <2>1. \A j \in 1..i : j \in 1..Len(st.savepoints) - 1 /\ old(j) \in 1..old(i)
    BY <1>1, <1>3, <1>6
  <2> QED
    BY Zenon, <1>2, <1>3, <1>4, <1>6, <2>1
<1> HIDE DEF new, old
<1>7. Bounded(new)
  BY <1>5, <1>6 DEF Bounded
<1> QED
  BY <1>5, <1>7 DEF new, saves

\* A longer log keeps every start inside.
LEMMA StatementBounded ==
  ASSUME NEW st \in StateType, Bounded(st), NEW more \in Seq(Entry)
  PROVE  LET new == State(st.xid, st.savepoints, st.undo_log \o more)
         IN  new \in StateType /\ Bounded(new)
<1> DEFINE log == st.undo_log \o more
           new == State(st.xid, st.savepoints, log)
<1>1. st.savepoints \in Seq(Frame) /\ st.undo_log \in Seq(Entry) /\ st.xid \in Xid \cup {0}
      /\ Len(st.undo_log) \in Nat
      /\ \A i \in DOMAIN st.savepoints : st.savepoints[i].undo_log_start \in Nat
  BY FrameTypes DEF StateType
<1>2. log \in Seq(Entry) /\ Len(log) \in Nat /\ Len(st.undo_log) <= Len(log)
  BY <1>1
<1> HIDE DEF log
<1>3. new \in StateType /\ new.savepoints = st.savepoints /\ new.undo_log = log
  BY <1>1, <1>2, StateFields
<1> HIDE DEF new
<1>4. Bounded(new)
  BY <1>1, <1>2, <1>3 DEF Bounded
<1> QED
  BY <1>3, <1>4 DEF new, log

-----------------------------------------------------------------------------
(* The undo log *)

\* Undoing one entry leaves headers.
LEMMA UndoEntryType ==
  ASSUME NEW x \in Xid, NEW e \in Entry, NEW xmin \in Headers, NEW xmax \in Headers
  PROVE  UndoEntry(x, e, xmin, xmax) \in Headers
  BY DEF UndoEntry, Entry, Headers

\* The intermediate headers of an undo, from the last entry to the first.
UndoSteps(x, entries, xmin, xmax, undo) ==
  /\ undo \in [0..Len(entries) -> Headers]
  /\ undo[Len(entries)] = xmax
  /\ \A i \in 0..Len(entries) - 1 : undo[i] = UndoEntry(x, entries[i + 1], xmin, undo[i + 1])

\* apply_undo_entries goes through one such sequence of headers.
LEMMA UndoneSteps ==
  ASSUME NEW x \in Xid, NEW entries \in Seq(Entry), NEW xmin \in Headers, NEW xmax \in Headers
  PROVE  \E undo : UndoSteps(x, entries, xmin, xmax, undo) /\ Undone(x, entries, xmin, xmax) = undo[0]
<1> DEFINE n == Len(entries)
           Def(f) == [i \in 0..n |-> IF i = n THEN xmax ELSE UndoEntry(x, entries[i + 1], xmin, f[i + 1])]
           From(k, f) == /\ f \in [n - k..n -> Headers] /\ f[n] = xmax
                         /\ \A i \in n - k..n - 1 : f[i] = UndoEntry(x, entries[i + 1], xmin, f[i + 1])
           Bad == {k \in 0..n : ~ \E f : From(k, f)}
<1>0. n \in Nat /\ \A i \in 1..n : entries[i] \in Entry
  OBVIOUS
<1>1. Undone(x, entries, xmin, xmax) = (CHOOSE f : f = Def(f))[0]
  BY DEF Undone
<1>2. \E f : From(0, f)
  <2>1. From(0, [i \in n..n |-> xmax])
    BY <1>0
  <2> HIDE DEF From
  <2> QED
    BY <2>1
<1>3. ASSUME NEW k \in 1..n, NEW g, From(k - 1, g)
      PROVE  \E f : From(k, f)
  <2> DEFINE first == UndoEntry(x, entries[n - k + 1], xmin, g[n - k + 1])
             f == [i \in n - k..n |-> IF i = n - k THEN first ELSE g[i]]
  <2>1. g[n - k + 1] \in Headers /\ entries[n - k + 1] \in Entry
    BY <1>0, <1>3
  <2>2. first \in Headers
    BY <2>1, UndoEntryType
  <2> HIDE DEF first
  <2>3. f \in [n - k..n -> Headers] /\ f[n] = xmax
    BY <1>0, <1>3, <2>2
  <2>4. ASSUME NEW i \in n - k..n - 1
        PROVE  f[i] = UndoEntry(x, entries[i + 1], xmin, f[i + 1])
    BY <1>0, <1>3, <2>4 DEF first
  <2>5. From(k, f)
    BY Zenon, <2>3, <2>4
  <2> HIDE DEF From, f
  <2> QED
    BY <2>5
<1>4. \E f : From(n, f)
  <2> HIDE DEF From
  <2> SUFFICES ASSUME ~ \E f : From(n, f) PROVE FALSE
    OBVIOUS
  <2>1. n \in Bad /\ Bad \in SUBSET Nat
    BY <1>0
  <2>2. PICK k \in Bad : \A j \in Bad : k <= j
    BY Zenon, <2>1, LeastNat
  <2>3. k \in 0..n /\ k # 0
    BY <1>2, <2>2
  <2>4. k \in 1..n /\ k - 1 \in 0..n /\ ~(k <= k - 1)
    BY <1>0, <2>3
  <2>5. \E g : From(k - 1, g)
    BY <2>2, <2>4
  <2>6. \E f : From(k, f)
    BY <1>3, <2>4, <2>5
  <2> QED
    BY <2>2, <2>6
<1>5. \E f : f = Def(f)
  <2>1. PICK f : From(n, f)
    BY <1>4
  <2>2. f \in [0..n -> Headers] /\ f[n] = xmax
        /\ \A i \in 0..n - 1 : f[i] = UndoEntry(x, entries[i + 1], xmin, f[i + 1])
    BY <1>0, <2>1
  <2>3. f = Def(f)
    BY <1>0, <2>2
  <2> QED
    BY <2>3
<1> DEFINE undo == CHOOSE f : f = Def(f)
<1>6. undo = Def(undo)
  <2> HIDE DEF Def
  <2> QED
    BY <1>5
<1>7. Undone(x, entries, xmin, xmax) = undo[0]
  BY <1>1
<1> HIDE DEF undo
<1>8. /\ undo[n] = xmax /\ DOMAIN undo = 0..n
      /\ \A i \in 0..n - 1 : undo[i] = UndoEntry(x, entries[i + 1], xmin, undo[i + 1])
  BY <1>0, <1>6
<1>9. \A i \in 0..n : undo[i] \in Headers
  <2> DEFINE Untyped == {k \in 0..n : undo[n - k] \notin Headers}
  <2> SUFFICES ASSUME Untyped # {} PROVE FALSE
    <3>1. \A i \in 0..n : n - i \in 0..n /\ n - (n - i) = i
      BY <1>0
    <3> QED
      BY <3>1
  <2>1. PICK k \in Untyped : \A j \in Untyped : k <= j
    <3>1. Untyped \in SUBSET Nat
      BY <1>0
    <3> HIDE DEF Untyped
    <3> QED
      BY <3>1, LeastNat
  <2>2. k # 0
    BY <1>0, <1>8
  <2>3. k \in 1..n /\ k - 1 \in 0..n /\ n - k \in 0..n - 1 /\ n - k + 1 = n - (k - 1) /\ ~(k <= k - 1)
    BY <1>0, <2>2
  <2>4. undo[n - k + 1] \in Headers
    BY <2>1, <2>3
  <2>5. entries[n - k + 1] \in Entry
    BY <1>0, <2>3
  <2>6. undo[n - k] \in Headers
    BY <1>8, <2>3, <2>4, <2>5, UndoEntryType
  <2> QED
    BY <2>1, <2>6
<1>10. undo = [i \in 0..n |-> undo[i]]
  BY <1>6
<1>11. UndoSteps(x, entries, xmin, xmax, undo)
  BY Zenon, <1>8, <1>9, <1>10 DEF UndoSteps
<1> QED
  BY <1>7, <1>11

-----------------------------------------------------------------------------
(* The parts of the invariant, session by session *)

\* A block is a session whose state has a transaction id.
LEMMA BlocksHaveXid ==
  ASSUME StateOK
  PROVE  \A r \in SessionId : /\ session_states[r] \in StateType
                              /\ InBlock(r) <=> session_states[r].xid # 0
<1>1. NoState.xid = 0
  BY StateFields DEF NoState
<1> QED
  BY <1>1 DEF StateOK, InBlock, StateType

\* DrainInBounds and OrphansAreSerializable in terms of the sessions.
LEMMA BySession ==
  /\ DrainInBounds <=> \A r \in SessionId : InBlock(r) => Bounded(session_states[r])
  /\ OrphansAreSerializable <=>
       \A x \in active : (\A r \in SessionId : InBlock(r) => session_states[r].xid # x) => isolation[x] = SER
  BY DEF DrainInBounds, OrphansAreSerializable, States, Bounded

\* Active transactions have ids that were handed out.
LEMMA ActiveXids ==
  ASSUME OwnTransactions
  PROVE  /\ active \subseteq Xid /\ next_xid \notin active \cup committed
         /\ next_xid \in Nat /\ 0 \notin active /\ (next_xid <= MaxXid => next_xid \in Xid)
<1>1. next_xid \in Loader + 1..MaxXid + 1 /\ MaxXid \in Nat
  BY SessionAssumption DEF OwnTransactions
<1>2. \A x \in active \cup committed : x \in Loader..next_xid - 1
  BY DEF OwnTransactions
<1>3. \A x \in Loader..next_xid - 1 : x \in Xid /\ x # next_xid /\ x # 0
  BY <1>1 DEF Xid, Loader
<1> QED
  BY <1>1, <1>2, <1>3 DEF Xid, Loader

\* A step that gives one session a state without a transaction, or with one and
\* its frames in bounds, keeps the states and the bounds.
LEMMA OneState ==
  ASSUME StateOK, DrainInBounds, NEW s \in SessionId, NEW st \in StateType,
         session_states' = [session_states EXCEPT ![s] = st],
         st = NoState \/ (st.xid # 0 /\ Bounded(st)),
         isolation' \in [Xid -> Levels], session_isolation' \in [SessionId -> Levels]
  PROVE  StateOK' /\ DrainInBounds'
<1>1. session_states' \in [SessionId -> StateType] /\ session_states'[s] = st
      /\ \A r \in SessionId : r # s => session_states'[r] = session_states[r]
  BY BlocksHaveXid DEF StateOK, StateType
<1>2. StateOK'
  <2>1. \A r \in SessionId : session_states'[r].xid = 0 => session_states'[r] = NoState
    BY <1>1 DEF StateOK
  <2> QED
    BY <1>1, <2>1 DEF StateOK, StateType
<1>3. \A r \in SessionId : InBlock(r)' => Bounded(session_states'[r])
  <2>1. \A r \in SessionId : InBlock(r) => Bounded(session_states[r])
    BY BySession
  <2> QED
    BY <1>1, <2>1 DEF InBlock
<1> QED
  BY <1>2, <1>3 DEF DrainInBounds, States, Bounded

\* The session that leaves its block, with the transaction ended or, when it is
\* SERIALIZABLE, left behind.
LEMMA StepLeave ==
  ASSUME CoreInv, NEW s \in SessionId,
         Commit(s) \/ CommitFails(s) \/ Rollback(s) \/ StatementFails(s)
  PROVE  CoreInv'
<1> DEFINE x == session_states[s].xid
<1>1. /\ InBlock(s) /\ session_states' = [session_states EXCEPT ![s] = NoState]
      /\ session_isolation' = session_isolation /\ next_xid' = next_xid
  BY DEF Commit, CommitFails, Rollback, StatementFails, Leave, CommitTxn, AbortTxn, txns
<1>2. x \in active /\ x \in Xid /\ \A r \in SessionId : r # s => session_states[r].xid # x
  BY <1>1, ActiveXids DEF CoreInv, OwnTransactions
<1>3. NoState \in StateType
  BY Zenon, StateFields, EmptySeq DEF NoState
<1>4. \/ /\ active' = active \ {x} /\ committed' \in {committed, committed \cup {x}}
         /\ isolation' = [isolation EXCEPT ![x] = RC]
      \/ /\ UNCHANGED <<active, committed, isolation>> /\ isolation[x] = SER
  BY DEF Commit, CommitFails, Rollback, StatementFails, CommitTxn, AbortTxn, Forget,
     ConflictPossible, txns
<1>5. isolation' \in [Xid -> Levels]
  BY Zenon, <1>4 DEF CoreInv, StateOK, Levels
<1>6. StateOK' /\ DrainInBounds'
  BY ZenonT(30), <1>1, <1>3, <1>5, OneState DEF CoreInv, StateOK
<1>7. \A r \in SessionId : /\ InBlock(r)' <=> InBlock(r) /\ r # s
                           /\ r # s => session_states'[r] = session_states[r]
                           /\ session_states'[s].xid = 0
  BY <1>1, StateFields DEF InBlock, CoreInv, StateOK, NoState
<1>8. OwnTransactions'
  <2>1. next_xid' \in Loader + 1..MaxXid + 1
    BY <1>1 DEF CoreInv, OwnTransactions
  <2>2. active' \cup committed' \subseteq Loader..next_xid' - 1 /\ active' \cap committed' = {}
    BY <1>1, <1>2, <1>4 DEF CoreInv, OwnTransactions
  <2>3. ASSUME NEW r \in SessionId, InBlock(r)'
        PROVE  /\ session_states'[r].xid \in active'
               /\ \A q \in SessionId \ {r} : session_states'[q].xid # session_states'[r].xid
    <3>1. r # s /\ InBlock(r) /\ session_states'[r] = session_states[r]
      BY <1>7, <2>3
    <3>2. session_states[r].xid \in active /\ session_states[r].xid # x /\ session_states[r].xid # 0
      BY <1>2, <3>1, BlocksHaveXid DEF CoreInv, OwnTransactions
    <3>3. session_states[r].xid \in active'
      BY <1>4, <3>2
    <3>4. \A q \in SessionId \ {r} : session_states'[q].xid # session_states[r].xid
      BY <1>7, <3>1, <3>2 DEF CoreInv, OwnTransactions
    <3> QED
      BY <3>1, <3>3, <3>4
  <2> QED
    BY <2>1, <2>2, <2>3 DEF OwnTransactions
<1>9. OrphansAreSerializable'
  <2>1. ASSUME NEW y \in active', \A r \in SessionId : InBlock(r)' => session_states'[r].xid # y
        PROVE  isolation'[y] = SER
    <3>1. CASE y = x
      BY <1>4, <2>1, <3>1
    <3>2. CASE y # x
      <4>1. y \in active /\ \A r \in SessionId : InBlock(r) => session_states[r].xid # y
        BY <1>4, <1>7, <2>1, <3>2
      <4>2. isolation[y] = SER
        BY <4>1, BySession DEF CoreInv
      <4>3. y \in Xid
        BY <4>1, ActiveXids DEF CoreInv
      <4> QED
        BY <1>4, <3>2, <4>2, <4>3 DEF CoreInv, StateOK
    <3> QED
      BY <3>1, <3>2
  <2> QED
    BY <2>1 DEF OrphansAreSerializable, States
<1> QED
  BY <1>6, <1>8, <1>9 DEF CoreInv

\* A session that opens a block takes a transaction id that nobody has.
LEMMA StepBegin ==
  ASSUME CoreInv, NEW s \in SessionId, ~InBlock(s), NEW level \in Levels, BeginTxn(level),
         NEW st \in StateType, st.xid = next_xid, Bounded(st),
         session_states' = [session_states EXCEPT ![s] = st],
         UNCHANGED <<committed, session_isolation>>
  PROVE  CoreInv'
<1>1. /\ next_xid \in Xid /\ next_xid \in Nat /\ next_xid # 0 /\ next_xid <= MaxXid
      /\ next_xid \notin active \cup committed /\ 0 \notin active
  BY ActiveXids, SessionAssumption DEF CoreInv, BeginTxn, OwnTransactions, Loader
<1>2. /\ next_xid' = next_xid + 1 /\ active' = active \cup {next_xid} /\ committed' = committed
      /\ isolation' = [isolation EXCEPT ![next_xid] = level]
  BY DEF BeginTxn
<1>3. isolation' \in [Xid -> Levels]
  BY Zenon, <1>2 DEF CoreInv, StateOK
<1>4. StateOK' /\ DrainInBounds'
  BY Zenon, <1>1, <1>3, OneState DEF CoreInv, StateOK
<1>5. \A r \in SessionId : /\ r # s => session_states'[r] = session_states[r] /\ (InBlock(r)' <=> InBlock(r))
                           /\ session_states'[s].xid = next_xid
  BY DEF CoreInv, StateOK, InBlock
<1>6. \A r \in SessionId : session_states[r].xid \in active \cup {0}
  BY BlocksHaveXid DEF CoreInv, OwnTransactions
<1>7. \A r \in SessionId : r # s /\ InBlock(r) =>
        /\ session_states[r].xid \in active
        /\ \A q \in SessionId \ {r} : session_states[q].xid # session_states[r].xid
  BY DEF CoreInv, OwnTransactions
<1>8. OwnTransactions'
  <2>1. next_xid' \in Loader + 1..MaxXid + 1
    BY <1>1, <1>2, SessionAssumption DEF CoreInv, OwnTransactions, Loader
  <2>2. active' \cup committed' \subseteq Loader..next_xid' - 1 /\ active' \cap committed' = {}
    <3>1. \A x \in active \cup committed : x \in Loader..next_xid - 1
      BY DEF CoreInv, OwnTransactions
    <3>2. \A x \in (Loader..next_xid - 1) \cup {next_xid} : x \in Loader..next_xid'-1
      BY <1>1, <1>2 DEF Loader, Xid
    <3> QED
      BY <1>1, <1>2, <3>1, <3>2 DEF CoreInv, OwnTransactions
  <2>3. ASSUME NEW r \in SessionId, InBlock(r)'
        PROVE  /\ session_states'[r].xid \in active'
               /\ \A q \in SessionId \ {r} : session_states'[q].xid # session_states'[r].xid
    BY <1>1, <1>2, <1>5, <1>6, <1>7, <2>3
  <2> QED
    BY <2>1, <2>2, <2>3 DEF OwnTransactions
<1>9. OrphansAreSerializable'
  <2>1. ASSUME NEW y \in active', \A r \in SessionId : InBlock(r)' => session_states'[r].xid # y
        PROVE  isolation'[y] = SER
    <3>1. InBlock(s)'
      BY <1>1, <1>4, <1>5, BlocksHaveXid, StateFields DEF InBlock, NoState
    <3>2. y # next_xid /\ y \in active /\ y \in Xid
      BY <1>2, <1>5, <2>1, <3>1, ActiveXids DEF CoreInv
    <3>3. \A r \in SessionId : InBlock(r) => session_states[r].xid # y
      BY <1>5, <2>1
    <3>4. isolation[y] = SER
      BY <3>2, <3>3, BySession DEF CoreInv
    <3> QED
      BY <1>2, <3>2, <3>4 DEF CoreInv, StateOK
  <2> QED
    BY <2>1 DEF OrphansAreSerializable, States
<1> QED
  BY <1>4, <1>8, <1>9 DEF CoreInv

\* A statement that changes the state of its own block and no transaction.
LEMMA StepInBlock ==
  ASSUME CoreInv, NEW s \in SessionId, InBlock(s), NEW st \in StateType,
         st.xid = session_states[s].xid, Bounded(st),
         session_states' = [session_states EXCEPT ![s] = st],
         UNCHANGED <<next_xid, active, committed, isolation, session_isolation>>
  PROVE  CoreInv'
<1>1. session_states[s].xid # 0
  BY BlocksHaveXid DEF CoreInv
<1>2. StateOK' /\ DrainInBounds'
  BY ZenonT(30), <1>1, OneState DEF CoreInv, StateOK
<1>3. \A r \in SessionId : session_states'[r].xid = session_states[r].xid
  BY DEF CoreInv, StateOK
<1>4. \A r \in SessionId : InBlock(r)' <=> InBlock(r)
  <2>1. \A r \in SessionId : InBlock(r)' <=> session_states'[r].xid # 0
    BY <1>2, StateFields DEF StateOK, InBlock, NoState
  <2> QED
    BY <1>3, <2>1, BlocksHaveXid DEF CoreInv
<1>5. OwnTransactions'
  BY <1>3, <1>4 DEF CoreInv, OwnTransactions
<1>6. OrphansAreSerializable'
  <2>1. ASSUME NEW y \in active, \A r \in SessionId : InBlock(r)' => session_states'[r].xid # y
        PROVE  isolation[y] = SER
    BY <1>3, <1>4, <2>1, BySession DEF CoreInv
  <2> QED
    BY <2>1 DEF OrphansAreSerializable, States
<1> QED
  BY <1>2, <1>5, <1>6 DEF CoreInv

\* SAVEPOINT in a block or outside, ROLLBACK TO, RELEASE and the writes of a block.
LEMMA StepSavepoints ==
  ASSUME CoreInv, NEW s \in SessionId,
         \/ \E n \in Name : Savepoint(s, n) \/ RollbackTo(s, n) \/ Release(s, n)
         \/ \E op \in Op : Statement(s, op)
  PROVE  CoreInv'
<1> DEFINE st == session_states[s]
<1>1. st \in StateType /\ st.savepoints \in Seq(Frame) /\ st.undo_log \in Seq(Entry)
  BY BlocksHaveXid DEF CoreInv, StateType
<1>2. InBlock(s) => Bounded(st)
  BY BySession DEF CoreInv
<1>3. ASSUME NEW n \in Name, Savepoint(s, n)
      PROVE  CoreInv'
  <2>1. CASE InBlock(s)
    <3> DEFINE new == State(st.xid, Append(st.savepoints, [name |-> n, undo_log_start |-> Len(st.undo_log)]),
                            st.undo_log)
    <3>1. session_states' = [session_states EXCEPT ![s] = new]
          /\ UNCHANGED <<next_xid, active, committed, isolation, session_isolation>>
      BY <1>3, <2>1 DEF Savepoint, txns
    <3>2. new \in StateType /\ Bounded(new) /\ new.xid = st.xid
      <4>1. new \in StateType /\ Bounded(new)
        BY Zenon, <1>1, <1>2, <2>1, SavepointBounded
      <4>2. new.xid = st.xid
        BY StateFields
      <4> QED
        BY Zenon, <4>1, <4>2
    <3> HIDE DEF new
    <3> QED
      BY ZenonT(30), <2>1, <3>1, <3>2, StepInBlock
  <2>2. CASE ~InBlock(s)
    <3> DEFINE old == NewState(next_xid)
               new == State(old.xid, Append(old.savepoints, [name |-> n, undo_log_start |-> Len(old.undo_log)]),
                            old.undo_log)
    <3>1. session_states' = [session_states EXCEPT ![s] = new] /\ BeginTxn(RC)
          /\ UNCHANGED <<committed, session_isolation>>
      BY <1>3, <2>2 DEF Savepoint
    <3>2. next_xid \in Xid
      BY <3>1, ActiveXids DEF BeginTxn, CoreInv
    <3>3. old \in StateType /\ Bounded(old) /\ old.xid = next_xid
      BY <3>2, NewStateBounded
    <3> HIDE DEF old
    <3>4. new \in StateType /\ Bounded(new) /\ new.xid = next_xid
      BY <3>3, SavepointBounded, StateFields
    <3> HIDE DEF new
    <3>5. RC \in Levels
      BY DEF Levels
    <3> QED
      BY ZenonT(30), <2>2, <3>1, <3>4, <3>5, StepBegin
  <2> QED
    BY <2>1, <2>2
<1>4. ASSUME NEW n \in Name, RollbackTo(s, n) \/ Release(s, n)
      PROVE  CoreInv'
  <2> DEFINE pos == LastNamed(st.savepoints, n)
  <2>1. InBlock(s) /\ pos # 0 /\ UNCHANGED <<next_xid, active, committed, isolation, session_isolation>>
    BY Zenon, <1>4 DEF RollbackTo, Release, txns
  <2>2. pos \in 1..Len(st.savepoints)
    BY <1>1, <2>1, LastNamedInFrames
  <2>3. CASE RollbackTo(s, n)
    <3> DEFINE new == State(st.xid, FramesKept(st.savepoints, pos),
                            SubSeq(st.undo_log, 1, st.savepoints[pos].undo_log_start))
    <3>1. session_states' = [session_states EXCEPT ![s] = new]
      BY <2>3 DEF RollbackTo
    <3>2. new \in StateType /\ Bounded(new) /\ new.xid = st.xid
      <4>1. new \in StateType /\ Bounded(new)
        BY Zenon, <1>1, <1>2, <2>1, <2>2, RollbackBounded
      <4>2. new.xid = st.xid
        BY StateFields
      <4> QED
        BY Zenon, <4>1, <4>2
    <3> HIDE DEF new
    <3> QED
      BY ZenonT(30), <2>1, <3>1, <3>2, StepInBlock
  <2>4. CASE Release(s, n)
    <3> DEFINE new == State(st.xid, Without(st.savepoints, pos), st.undo_log)
    <3>1. session_states' = [session_states EXCEPT ![s] = new]
      BY <2>4 DEF Release
    <3>2. new \in StateType /\ Bounded(new) /\ new.xid = st.xid
      <4>1. new \in StateType /\ Bounded(new)
        BY Zenon, <1>1, <1>2, <2>1, <2>2, ReleaseBounded
      <4>2. new.xid = st.xid
        BY StateFields
      <4> QED
        BY Zenon, <4>1, <4>2
    <3> HIDE DEF new
    <3> QED
      BY Zenon, <2>1, <3>1, <3>2, StepInBlock
  <2> QED
    BY Zenon, <1>4, <2>3, <2>4
<1>5. ASSUME NEW op \in Op, Statement(s, op)
      PROVE  CoreInv'
  <2>1. PICK c \in Changes(st.xid, op) :
          session_states' = [session_states EXCEPT ![s] =
            State(st.xid, st.savepoints, st.undo_log \o LogOf(c))]
    BY ZenonT(30), <1>5 DEF Statement
  <2>2. InBlock(s) /\ UNCHANGED <<next_xid, active, committed, isolation, session_isolation>>
    BY <1>5 DEF Statement, txns
  <2> DEFINE new == State(st.xid, st.savepoints, st.undo_log \o LogOf(c))
  <2>3. LogOf(c) \in Seq(Entry)
    BY LogOfType
  <2>4. new \in StateType /\ Bounded(new) /\ new.xid = st.xid
    <3>1. new \in StateType /\ Bounded(new)
      BY Zenon, <1>1, <1>2, <2>2, <2>3, StatementBounded
    <3>2. new.xid = st.xid
      BY StateFields
    <3> QED
      BY Zenon, <3>1, <3>2
  <2>5. session_states' = [session_states EXCEPT ![s] = new]
    BY <2>1
  <2> HIDE DEF new
  <2> QED
    BY Zenon, <2>2, <2>4, <2>5, StepInBlock
<1> QED
  BY <1>3, <1>4, <1>5

\* SET TRANSACTION changes the level of the session's own transaction only.
LEMMA StepSetTransaction ==
  ASSUME CoreInv, NEW s \in SessionId, NEW level \in Level, SetTransaction(s, level)
  PROVE  CoreInv'
<1> DEFINE x == session_states[s].xid
<1>1. level \in Levels /\ UNCHANGED <<next_xid, active, committed, session_states>>
  BY SessionAssumption DEF SetTransaction, Levels
<1>2. isolation' = IF InBlock(s) THEN [isolation EXCEPT ![x] = level] ELSE isolation
  BY DEF SetTransaction
<1>3. StateOK'
  <2>1. session_isolation' \in [SessionId -> Levels]
    BY <1>1 DEF SetTransaction, CoreInv, StateOK
  <2>2. isolation' \in [Xid -> Levels]
    BY Zenon, <1>1, <1>2 DEF CoreInv, StateOK
  <2> QED
    BY <1>1, <2>1, <2>2 DEF CoreInv, StateOK
<1>4. \A r \in SessionId : InBlock(r)' <=> InBlock(r)
  BY Zenon, <1>1 DEF InBlock
<1>5. OwnTransactions' /\ DrainInBounds'
  BY <1>1, <1>4 DEF CoreInv, OwnTransactions, DrainInBounds, States
<1>6. OrphansAreSerializable'
  <2>1. ASSUME NEW y \in active, \A r \in SessionId : InBlock(r) => session_states[r].xid # y
        PROVE  isolation'[y] = SER
    <3>1. isolation[y] = SER /\ (InBlock(s) => y # x) /\ y \in Xid
      BY <2>1, BySession, ActiveXids DEF CoreInv
    <3> QED
      BY <1>2, <3>1 DEF CoreInv, StateOK
  <2> QED
    BY <1>1, <1>4, <2>1 DEF OrphansAreSerializable, States
<1> QED
  BY <1>3, <1>5, <1>6 DEF CoreInv

\* The statements that touch neither the blocks nor the active transactions.
LEMMA StepOutside ==
  ASSUME CoreInv, UNCHANGED <<active, isolation, session_states, session_isolation>>,
         \/ UNCHANGED <<next_xid, committed>>
         \/ \E s \in SessionId : AutoCommit(s)
  PROVE  CoreInv'
<1>1. StateOK' /\ DrainInBounds' /\ OrphansAreSerializable'
  BY DEF CoreInv, StateOK, DrainInBounds, OrphansAreSerializable, States, InBlock
<1>2. /\ next_xid' \in Loader + 1..MaxXid + 1
      /\ active \cup committed' \subseteq Loader..next_xid' - 1 /\ active \cap committed' = {}
  <2>1. CASE UNCHANGED <<next_xid, committed>>
    BY <2>1 DEF CoreInv, OwnTransactions
  <2>2. ASSUME NEW s \in SessionId, AutoCommit(s)
        PROVE  /\ next_xid' \in Loader + 1..MaxXid + 1
               /\ active \cup committed' \subseteq Loader..next_xid' - 1 /\ active \cap committed' = {}
    <3>1. next_xid <= MaxXid /\ next_xid' = next_xid + 1 /\ committed' \in {committed, committed \cup {next_xid}}
      BY <2>2 DEF AutoCommit
    <3>2. next_xid \in Loader + 1..MaxXid + 1 /\ next_xid \notin active /\ MaxXid \in Nat
      BY ActiveXids, SessionAssumption DEF CoreInv, OwnTransactions
    <3>3. \A x \in active \cup committed : x \in Loader..next_xid - 1
      BY DEF CoreInv, OwnTransactions
    <3>4. \A x \in (Loader..next_xid - 1) \cup {next_xid} : x \in Loader..next_xid' - 1
      BY <3>1, <3>2 DEF Loader
    <3>5. next_xid' \in Loader + 1..MaxXid + 1
      BY <3>1, <3>2 DEF Loader
    <3> QED
      BY <3>1, <3>2, <3>3, <3>4, <3>5 DEF CoreInv, OwnTransactions
  <2> QED
    BY <2>1, <2>2
<1>3. OwnTransactions'
  BY <1>2 DEF CoreInv, OwnTransactions, InBlock
<1> QED
  BY Zenon, <1>1, <1>3 DEF CoreInv

\* Every step keeps the blocks and their transactions.
LEMMA StepCore ==
  ASSUME CoreInv, [Next]_vars
  PROVE  CoreInv'
<1>1. ASSUME NEW s \in SessionId, NEW level \in Levels, Begin(s, level)
      PROVE  CoreInv'
  <2>1. next_xid \in Xid
    BY <1>1, ActiveXids DEF Begin, BeginTxn, CoreInv
  <2>2. NewState(next_xid) \in StateType /\ Bounded(NewState(next_xid)) /\ NewState(next_xid).xid = next_xid
    BY <2>1, NewStateBounded
  <2> QED
    BY ZenonT(30), <1>1, <2>2, StepBegin DEF Begin
<1>2. ASSUME NEW s \in SessionId, BeginDefault(s)
      PROVE  CoreInv'
  <2>1. session_isolation[s] \in Levels
    BY DEF CoreInv, StateOK
  <2> QED
    BY <1>1, <1>2, <2>1 DEF BeginDefault
<1>3. ASSUME NEW s \in SessionId, NEW level \in Level, Begin(s, level)
      PROVE  CoreInv'
  BY <1>1, <1>3, SessionAssumption DEF Levels
<1>4. ASSUME NEW s \in SessionId, AutoCommit(s) \/ \E p \in Stmt : Execute(s, p)
      PROVE  CoreInv'
  <2>1. UNCHANGED <<active, isolation, session_states, session_isolation>>
        /\ (UNCHANGED <<next_xid, committed>> \/ AutoCommit(s))
    BY <1>4 DEF AutoCommit, Execute, txns
  <2> QED
    BY Zenon, <2>1, StepOutside
<1>5. CASE \/ \E p \in Stmt, op \in PrepareOp : Prepare(p, op)
           \/ \E P \in {{p} : p \in Stmt} \cup {Stmt} : Deallocate(P)
           \/ UNCHANGED vars
  <2>1. UNCHANGED <<active, isolation, session_states, session_isolation, next_xid, committed>>
    BY <1>5 DEF Prepare, Deallocate, vars, txns
  <2> QED
    BY <2>1, StepOutside
<1> QED
  BY <1>2, <1>3, <1>4, <1>5, StepLeave, StepSavepoints, StepSetTransaction DEF Next

-----------------------------------------------------------------------------
(* The tuple headers *)

\* A write sets headers to the transaction's id.
LEMMA WritesHeaders ==
  ASSUME TypeOK, NEW x \in Xid, NEW op, NEW c \in Changes(x, op), Apply(x, c)
  PROVE  t_xmin' \in Headers /\ t_xmax' \in Headers /\ (Lock(x, c) => write_locks' \in Headers)
  BY DEF TypeOK, Headers, Apply, Lock

\* Every step keeps the headers and the write locks in their types.
LEMMA StepHeaders ==
  ASSUME SessionInv, [Next]_vars
  PROVE  {t_xmin', t_xmax', write_locks'} \subseteq Headers
<1>1. t_xmin \in Headers /\ t_xmax \in Headers /\ write_locks \in Headers
  BY DEF SessionInv, TypeOK
<1>2. \A s \in SessionId : InBlock(s) => session_states[s].xid \in Xid
  BY ActiveXids DEF SessionInv, CoreInv, OwnTransactions
<1>3. ASSUME NEW x \in Xid, ReleaseAll(x)
      PROVE  write_locks' \in Headers
  BY <1>1, <1>3 DEF ReleaseAll, Headers
<1>4. ASSUME NEW x \in Xid, Partial(x)
      PROVE  t_xmin' \in Headers /\ t_xmax' \in Headers
  BY <1>1, <1>4, WritesHeaders DEF Partial, heap, SessionInv
<1>5. ASSUME NEW s \in SessionId, Commit(s) \/ CommitFails(s) \/ Rollback(s) \/ StatementFails(s)
      PROVE  {t_xmin', t_xmax', write_locks'} \subseteq Headers
  BY <1>1, <1>2, <1>3, <1>4, <1>5 DEF Commit, CommitFails, Rollback, StatementFails, Leave, CommitTxn,
     AbortTxn, heap
<1>6. ASSUME NEW s \in SessionId, AutoCommit(s)
      PROVE  {t_xmin', t_xmax', write_locks'} \subseteq Headers
  <2>1. next_xid \in Xid /\ write_locks' = write_locks
    BY <1>6, ActiveXids DEF AutoCommit, SessionInv, CoreInv
  <2> QED
    BY <1>1, <1>4, <1>6, <2>1, WritesHeaders DEF AutoCommit, SessionInv
<1>7. ASSUME NEW s \in SessionId, (\E op \in Op : Statement(s, op)) \/ (\E p \in Stmt : Execute(s, p))
      PROVE  {t_xmin', t_xmax', write_locks'} \subseteq Headers
  <2> DEFINE x == session_states[s].xid
  <2>1. InBlock(s) /\ \E op : \E c \in Changes(x, op) : Apply(x, c) /\ Lock(x, c)
    BY <1>7 DEF Statement, Execute
  <2> QED
    BY <1>2, <2>1, WritesHeaders DEF SessionInv
<1>8. ASSUME NEW s \in SessionId, NEW n \in Name, RollbackTo(s, n)
      PROVE  {t_xmin', t_xmax', write_locks'} \subseteq Headers
  <2> DEFINE st == session_states[s]
             start == st.savepoints[LastNamed(st.savepoints, n)].undo_log_start
             entries == SubSeq(st.undo_log, start + 1, Len(st.undo_log))
  <2>1. /\ InBlock(s) /\ LastNamed(st.savepoints, n) # 0 /\ UNCHANGED <<t_xmin, write_locks>>
        /\ t_xmax' = Undone(st.xid, entries, t_xmin, t_xmax)
    BY Zenon, <1>8 DEF RollbackTo
  <2>2. st.savepoints \in Seq(Frame) /\ st.undo_log \in Seq(Entry) /\ st.xid \in Xid
    BY SMTT(30), <1>2, <2>1, BlocksHaveXid DEF SessionInv, CoreInv, StateType
  <2>3. start \in Nat
    BY <2>1, <2>2, LastNamedInFrames, FrameTypes
  <2> HIDE DEF start
  <2>4. entries \in Seq(Entry)
    BY <2>2, <2>3
  <2> HIDE DEF entries
  <2>5. t_xmax' \in Headers
    <3>1. PICK undo : UndoSteps(st.xid, entries, t_xmin, t_xmax, undo) /\ t_xmax' = undo[0]
      BY <1>1, <2>1, <2>2, <2>4, UndoneSteps
    <3>2. 0 \in 0..Len(entries)
      BY <2>4
    <3> QED
      BY <3>1, <3>2 DEF UndoSteps
  <2> QED
    BY <1>1, <2>1, <2>5
<1>9. CASE UNCHANGED <<t_xmin, t_xmax, write_locks>>
  BY <1>1, <1>9
<1>10. ASSUME NEW s \in SessionId,
              \/ BeginDefault(s) \/ \E n \in Name : Savepoint(s, n) \/ Release(s, n)
              \/ \E level \in Level : Begin(s, level) \/ SetTransaction(s, level)
       PROVE  UNCHANGED <<t_xmin, t_xmax, write_locks>>
  BY ZenonT(30), <1>10 DEF BeginDefault, Begin, Savepoint, Release, SetTransaction, heap
<1>11. CASE \/ \E p \in Stmt, op \in PrepareOp : Prepare(p, op)
            \/ \E P \in {{p} : p \in Stmt} \cup {Stmt} : Deallocate(P)
            \/ UNCHANGED vars
  BY <1>9, <1>11 DEF Prepare, Deallocate, vars, heap
<1> QED
  BY <1>5, <1>6, <1>7, <1>8, <1>9, <1>10, <1>11 DEF Next

-----------------------------------------------------------------------------
(* The theorems *)

\* The invariant of the sessions, for every value of the constants.
THEOREM SessionInvariant == Spec => []SessionInv
<1>1. Init => CoreInv
  <2> SUFFICES ASSUME Init PROVE CoreInv
    OBVIOUS
  <2>1. NoState \in StateType
    BY ZenonT(30), StateFields, EmptySeq DEF NoState
  <2>2. \A s \in SessionId : session_states[s] = NoState /\ ~InBlock(s)
    BY DEF Init, InBlock
  <2>3. StateOK
    BY <2>1, <2>2 DEF Init, StateOK, StateType, Levels
  <2>4. OwnTransactions
    BY <2>2, SessionAssumption DEF Init, OwnTransactions, Loader
  <2>5. DrainInBounds /\ OrphansAreSerializable
    BY <2>2 DEF Init, DrainInBounds, OrphansAreSerializable, States
  <2> QED
    BY <2>3, <2>4, <2>5 DEF CoreInv
<1>2. Init => TypeOK
  <2> SUFFICES ASSUME Init PROVE TypeOK
    OBVIOUS
  <2>1. OwnTransactions
    BY <1>1 DEF CoreInv
  <2>2. Loader \in Xid
    BY SessionAssumption DEF Xid, Loader
  <2> QED
    BY <2>1, <2>2 DEF Init, TypeOK, Headers
<1>3. SessionInv /\ [Next]_vars => SessionInv'
  BY StepCore, StepHeaders DEF SessionInv, CoreInv, TypeOK
<1> QED
  BY <1>1, <1>2, <1>3, PTL DEF Spec, SessionInv

\* A transaction that no session can end any more is one whose SERIALIZABLE commit
\* failed, for every number of sessions and statements.
THEOREM OrphansAreSerializableHolds == Spec => []OrphansAreSerializable
<1>1. SessionInv => OrphansAreSerializable
  BY DEF SessionInv, CoreInv
<1> QED
  BY <1>1, SessionInvariant, PTL

\* The session state has its type, no two sessions share a transaction, the
\* transaction of a block is active, and ROLLBACK TO never drains the undo log out
\* of its bounds.
THEOREM InBoundsHolds == Spec => []InBounds
<1>1. SessionInv => InBounds
  BY DEF SessionInv, CoreInv, InBounds
<1> QED
  BY <1>1, SessionInvariant, PTL

=============================================================================
