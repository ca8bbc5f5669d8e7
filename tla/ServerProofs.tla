----------------------------- MODULE ServerProofs -----------------------------
(***************************************************************************)
(* The safety of the server, for any number of clients, databases, session *)
(* ids, engines and panics: ServerInv is inductive, and implies Accounted, *)
(* DefaultBlocksHaveClient and RegisteredHasDirectory.                     *)
(***************************************************************************)
EXTENDS Server, FiniteSetTheorems, TLAPS

-----------------------------------------------------------------------------
(* Facts about the operators *)

\* A request is a record of its five fields.
LEMMA TaskFields ==
  ASSUME NEW p, NEW k, NEW n, NEW h, NEW l
  PROVE  /\ Task(p, k, n, h, l).pc = p /\ Task(p, k, n, h, l).kind = k
         /\ Task(p, k, n, h, l).name = n /\ Task(p, k, n, h, l).handle = h
         /\ Task(p, k, n, h, l).listed = l
  BY DEF Task

\* A request a connection may have is one of Tasks.
LEMMA TaskTypes ==
  ASSUME StateOK, NEW c \in Client
  PROVE  /\ Idle \in Tasks
         /\ \A e \in Nat : \A p \in {"exists", "open", "run", "list", "truncate", "save"} :
              On(c, p, e) \in Tasks /\ Then(c, p) \in Tasks
         /\ \A kind \in Kinds(c) : \A d \in NamedBy(kind) : Task("lookup", kind, d, 0, {}) \in Tasks
         /\ Target(c) \in Names
<1>1. task[c] \in Tasks
  BY DEF StateOK
<1>2. Idle \in Tasks
  BY DEF Idle, Task, Tasks, Names
<1>3. ASSUME NEW e \in Nat, NEW p \in {"exists", "open", "run", "list", "truncate", "save"}
      PROVE  On(c, p, e) \in Tasks /\ Then(c, p) \in Tasks
  BY <1>1, <1>3 DEF On, Then, Task, Tasks
<1>4. ASSUME NEW kind \in Kinds(c), NEW d \in NamedBy(kind)
      PROVE  Task("lookup", kind, d, 0, {}) \in Tasks
  BY <1>4 DEF Kinds, NamedBy, Task, Tasks, Names
<1> QED
  BY <1>2, <1>3, <1>4 DEF Target, StateOK, Names

\* A client that gets or gives back its slot changes the number served by one.
LEMMA ServedCounts ==
  ASSUME NEW S \in SUBSET Client, NEW c \in Client
  PROVE  /\ IsFiniteSet(S) /\ Cardinality(S) \in Nat /\ Cardinality(S) <= Cardinality(Client)
         /\ Cardinality(Client) \in Nat
         /\ c \notin S => Cardinality(S \cup {c}) = Cardinality(S) + 1
         /\ c \in S => Cardinality(S \ {c}) = Cardinality(S) - 1
<1>1. IsFiniteSet(Client)
  BY ServerAssumption
<1>2. IsFiniteSet(S) /\ Cardinality(S) <= Cardinality(Client)
  BY <1>1, FS_Subset
<1>3. Cardinality(S) \in Nat /\ Cardinality(Client) \in Nat
  BY <1>1, <1>2, FS_CardinalityType
<1> QED
  BY Zenon, <1>2, <1>3, FS_AddElement, FS_RemoveElement

\* The steps of a request leave the loop and the connections as they are.
LEMMA ServeFrame ==
  ASSUME NEW c \in Client, Request(c) \/ Serve(c)
  PROVE  UNCHANGED <<loop, conn, sid, next_sid, db>>
  BY DEF Request, Serve, Lookup, Exists, OpenEngine, Run, CreateDir, RemoveDir, ReadRegistry,
         Truncate, Save

-----------------------------------------------------------------------------
(* Each part of the invariant is kept *)

\* Every step keeps the variables in their types.
LEMMA StepState ==
  ASSUME StateOK, QueueInv, Next
  PROVE  StateOK'
<1>1. CASE AcceptLoop
  <2>1. Len(backlog) \in Nat /\ (backlog # << >> => Head(backlog) \in Client /\ Tail(backlog) \in Seq(Client))
    BY DEF StateOK
  <2>2. CASE Reject
    BY <2>1, <2>2 DEF Reject, Close, StateOK, QueueInv, disk, cache, Names
  <2>3. CASE Spawn
    BY SMTT(30), <2>1, <2>3 DEF Spawn, StateOK, QueueInv, disk, cache
  <2>4. CASE Accept \/ StopAccepting \/ Exit
    BY <2>4 DEF Accept, StopAccepting, Exit, StateOK, disk, cache
  <2> QED
    BY <1>1, <2>2, <2>3, <2>4 DEF AcceptLoop
<1>2. CASE Signal
  BY <1>2 DEF Signal, StateOK, disk, cache
<1>3. ASSUME NEW c \in Client, NEW d \in Names, Dial(c, d)
      PROVE  StateOK'
  BY <1>3 DEF Dial, StateOK, disk, cache
<1>4. ASSUME NEW c \in Client, Login(c) \/ Hangup(c) \/ FreeSlot(c) \/ Panic(c)
      PROVE  StateOK'
  <2>1. Idle \in Tasks
    BY <1>4, TaskTypes
  <2>2. CASE Login(c) \/ Hangup(c)
    BY Zenon, <2>2 DEF Login, Hangup, Dropped, StateOK, loop, disk, cache
  <2>3. CASE FreeSlot(c)
    BY <2>3 DEF FreeSlot, Close, StateOK, disk, cache, Names
  <2>4. CASE Panic(c)
    BY <2>1, <2>4, ServerAssumption DEF Panic, Close, Dropped, StateOK, disk, cache, Names
  <2> QED
    BY <1>4, <2>2, <2>3, <2>4
<1>5. ASSUME NEW c \in Client, Request(c) \/ Serve(c)
      PROVE  StateOK'
  <2>1. /\ max_connections' \in Nat /\ phase' \in {"accept", "decide", "drain", "done"}
        /\ backlog' \in Seq(Client) /\ active' \in Int /\ current' \in Int
        /\ panicked' \in 0..MaxPanic
        /\ conn' \in [Client -> {"off", "queued", "startup", "ready", "ended"}]
        /\ sid' \in [Client -> Nat] /\ next_sid' \in Nat \ {0} /\ db' \in [Client -> Names]
    BY SMTT(30), <1>5, ServeFrame DEF StateOK, loop
  <2>2. task[c] \in Tasks /\ task[c].handle \in Nat /\ task[c].name \in Names
        /\ task[c].listed \subseteq Names /\ task[c].kind \in {"none", "begin", "sql", "extended", "create", "drop"}
    BY DEF StateOK, Tasks
  <2>3. registry' \subseteq Names /\ dirs' \subseteq Names /\ engines' \in [Names -> Nat]
        /\ opened' \in Seq(Names) /\ sessions' \subseteq Nat \X Nat
    <3>1. Target(c) \in Names /\ sid[c] \in Nat
      BY TaskTypes DEF StateOK
    <3>2. CASE OpenEngine(c)
      BY <3>1, <3>2 DEF OpenEngine, Cached, StateOK
    <3>3. CASE Run(c)
      BY <2>2, <3>1, <3>3 DEF Run, StateOK, disk, cache
    <3>4. CASE Truncate(c) \/ Save(c) \/ CreateDir(c) \/ RemoveDir(c)
      BY <2>2, <3>4 DEF Truncate, Save, CreateDir, RemoveDir, StateOK, cache
    <3>5. CASE Request(c) \/ Lookup(c) \/ Exists(c) \/ ReadRegistry(c)
      BY <3>5 DEF Request, Lookup, Exists, ReadRegistry, StateOK, disk, cache
    <3> QED
      BY <1>5, <3>2, <3>3, <3>4, <3>5 DEF Serve
  <2>4. task' \in [Client -> Tasks]
    <3>1. CASE ReadRegistry(c)
      <4>1. Entries(task[c].kind, task[c].name) \subseteq Names
        BY <2>2 DEF Entries, List, StateOK, Names
      <4>2. Task("truncate", task[c].kind, task[c].name, task[c].handle,
                 Entries(task[c].kind, task[c].name)) \in Tasks
        BY <2>2, <4>1 DEF Task, Tasks
      <4> QED
        BY <3>1, <4>2 DEF ReadRegistry, Goto, StateOK
    <3>2. CASE OpenEngine(c)
      <4>1. Len(opened') \in Nat
        BY <3>2, TaskTypes DEF OpenEngine, StateOK
      <4> QED
        BY <3>2, <4>1, TaskTypes DEF OpenEngine, Goto, StateOK
    <3>3. CASE Lookup(c)
      <4>1. engines[Target(c)] \in Nat
        BY TaskTypes DEF StateOK
      <4> QED
        BY <3>3, <4>1, <2>2, TaskTypes DEF Lookup, Goto, StateOK
    <3>4. CASE Request(c)
      BY <3>4, TaskTypes DEF Request, Goto, StateOK
    <3>5. CASE Exists(c) \/ Run(c) \/ CreateDir(c) \/ RemoveDir(c) \/ Truncate(c) \/ Save(c)
      <4>1. task' \in {[task EXCEPT ![c] = t] : t \in {Idle, Then(c, "open"), Then(c, "list"), Then(c, "save")}}
        BY <3>5 DEF Exists, Run, CreateDir, RemoveDir, Truncate, Save, Goto
      <4>2. {Idle, Then(c, "open"), Then(c, "list"), Then(c, "save")} \subseteq Tasks
        <5>1. 0 \in Nat
          OBVIOUS
        <5> QED
          BY <5>1, TaskTypes, Zenon
      <4> QED
        BY Zenon, <4>1, <4>2 DEF StateOK
    <3> QED
      BY <1>5, <3>1, <3>2, <3>3, <3>4, <3>5 DEF Serve
  <2> QED
    BY Zenon, <2>1, <2>3, <2>4 DEF StateOK
<1> QED
  BY <1>1, <1>2, <1>3, <1>4, <1>5 DEF Next

\* Every step keeps each waiting client in the backlog once.
LEMMA StepQueue ==
  ASSUME StateOK, QueueInv, Next
  PROVE  QueueInv'
<1>0. backlog \in Seq(Client)
  BY Zenon DEF StateOK
<1>1. Len(backlog) \in Nat /\ DOMAIN backlog = 1..Len(backlog)
      /\ \A i \in DOMAIN backlog : backlog[i] \in Client
  BY <1>0
<1>2. CASE Accept \/ StopAccepting \/ Exit \/ Signal
  BY <1>2 DEF Accept, CanAccept, StopAccepting, Exit, Signal, QueueInv
<1>3. CASE Reject \/ Spawn
  <2>1. backlog # << >> /\ backlog' = Tail(backlog) /\ phase' = "accept"
        /\ next_sid' <= next_sid + 1
    BY <1>3 DEF Reject, Spawn, QueueInv, StateOK
  <2>2. /\ Len(backlog') = Len(backlog) - 1 /\ DOMAIN backlog' = 1..Len(backlog')
        /\ \A i \in DOMAIN backlog' : i + 1 \in DOMAIN backlog /\ backlog'[i] = backlog[i + 1]
        /\ 1 \in DOMAIN backlog /\ Head(backlog) = backlog[1]
    BY <1>0, <2>1
  <2>3. \A c \in Client : c # Head(backlog) => conn'[c] = conn[c]
    BY <1>3 DEF Reject, Spawn, Close, StateOK
  <2>4. ASSUME NEW i \in DOMAIN backlog'
        PROVE  conn'[backlog'[i]] = "queued"
               /\ \A j \in DOMAIN backlog' : backlog'[i] = backlog'[j] => i = j
    BY <1>1, <2>2, <2>3, <2>4 DEF QueueInv
  <2>5. next_sid' + Len(backlog') <= MaxSid + 1
    BY <1>1, <1>3, <2>1, <2>2, ServerAssumption DEF Reject, Spawn, QueueInv, StateOK
  <2> QED
    BY <2>1, <2>4, <2>5 DEF QueueInv
<1>4. ASSUME NEW c \in Client, NEW d \in Names, Dial(c, d)
      PROVE  QueueInv'
  <2>1. /\ Len(backlog') = Len(backlog) + 1 /\ DOMAIN backlog' = 1..Len(backlog')
        /\ \A i \in DOMAIN backlog : i \in DOMAIN backlog' /\ backlog'[i] = backlog[i]
        /\ backlog'[Len(backlog')] = c /\ backlog' # << >>
    <3>1. backlog' = Append(backlog, c)
      BY Zenon, <1>4 DEF Dial
    <3> QED
      BY <1>0, <3>1
  <2>2. \A i \in DOMAIN backlog : backlog[i] # c
    BY <1>4 DEF Dial, QueueInv
  <2>3. conn'[c] = "queued" /\ \A k \in Client : k # c => conn'[k] = conn[k]
    BY <1>4 DEF Dial, StateOK
  <2>4. ASSUME NEW i \in DOMAIN backlog'
        PROVE  conn'[backlog'[i]] = "queued"
               /\ \A j \in DOMAIN backlog' : backlog'[i] = backlog'[j] => i = j
    <3>1. \A k \in DOMAIN backlog' : k \in DOMAIN backlog \/ k = Len(backlog')
      BY <1>1, <2>1
    <3> QED
      BY <1>1, <2>1, <2>2, <2>3, <2>4, <3>1 DEF QueueInv
  <2>5. next_sid' + Len(backlog') <= MaxSid + 1
    <3>1. next_sid' = next_sid /\ next_sid + Len(backlog) <= MaxSid
      BY <1>4 DEF Dial
    <3> QED
      BY <1>1, <2>1, <3>1, ServerAssumption DEF StateOK
  <2> QED
    BY <2>1, <2>4, <2>5 DEF QueueInv
<1>5. ASSUME NEW c \in Client, Login(c) \/ Hangup(c) \/ FreeSlot(c) \/ Panic(c)
      PROVE  QueueInv'
  <2>1. conn[c] # "queued" /\ \A k \in Client : k # c => conn'[k] = conn[k]
    BY <1>5 DEF Login, Hangup, FreeSlot, Panic, Running, Close, StateOK
  <2>2. UNCHANGED <<backlog, next_sid, phase>>
    BY <1>5 DEF Login, Hangup, FreeSlot, Panic, loop
  <2> QED
    BY <1>1, <2>1, <2>2 DEF QueueInv
<1>6. ASSUME NEW c \in Client, Request(c) \/ Serve(c)
      PROVE  QueueInv'
  BY <1>6, ServeFrame DEF QueueInv, loop
<1> QED
  BY <1>2, <1>3, <1>4, <1>5, <1>6 DEF Next, AcceptLoop

\* Every step keeps the slots accounted for.
LEMMA StepSlots ==
  ASSUME StateOK, QueueInv, SlotInv, Next
  PROVE  SlotInv'
<1>1. Served \in SUBSET Client /\ Cardinality(Served) \in Nat
  BY ServedCounts, ServerAssumption, FS_Subset, FS_CardinalityType DEF Served
<1>2. CASE Accept \/ StopAccepting \/ Exit \/ Signal
  <2>1. Served' = Served
    BY <1>2 DEF Accept, StopAccepting, Exit, Signal, Served
  <2> QED
    BY SMTT(30), <1>1, <1>2, <2>1 DEF Accept, CanAccept, StopAccepting, Exit, Signal, SlotInv, SlotsAccounted, StateOK
<1>3. CASE Reject
  <2>1. Head(backlog) \in Client /\ conn[Head(backlog)] = "queued"
    BY <1>3 DEF Reject, QueueInv, StateOK
  <2>2. Served' = Served
    BY <1>3, <2>1 DEF Reject, Close, Served, StateOK
  <2> QED
    BY <1>1, <1>3, <2>2 DEF Reject, SlotInv, SlotsAccounted, StateOK
<1>4. CASE Spawn
  <2>1. Head(backlog) \in Client /\ conn[Head(backlog)] = "queued"
    BY <1>4 DEF Spawn, QueueInv, StateOK
  <2>2. Served' = Served \cup {Head(backlog)} /\ Head(backlog) \notin Served
    BY <1>4, <2>1 DEF Spawn, Served, StateOK
  <2>3. Cardinality(Served') = Cardinality(Served) + 1
    BY <1>1, <2>1, <2>2, ServedCounts
  <2>4. /\ active \in Int /\ current \in Int /\ max_connections \in Nat /\ panicked \in Nat
        /\ active = Cardinality(Served) + panicked + 1 /\ active <= current + 1
        /\ current < max_connections
    BY <1>4, ServerAssumption DEF Spawn, Full, SlotInv, SlotsAccounted, StateOK
  <2>5. active' = active /\ phase' = "accept" /\ UNCHANGED <<panicked, max_connections>>
    BY <1>4 DEF Spawn
  <2> QED
    BY <1>1, <2>3, <2>4, <2>5 DEF SlotInv, SlotsAccounted
<1>5. ASSUME NEW c \in Client, FreeSlot(c) \/ Panic(c)
      PROVE  SlotInv'
  <2>1. Served' = Served \ {c} /\ c \in Served
    BY <1>5 DEF FreeSlot, Panic, Running, Close, Served, StateOK
  <2>2. Cardinality(Served') = Cardinality(Served) - 1
    BY <1>1, <2>1, ServedCounts
  <2>3. /\ active \in Int /\ current \in Int /\ max_connections \in Nat /\ panicked \in Nat
        /\ UNCHANGED <<max_connections, phase, current>>
        /\ active' + panicked = active + panicked' - 1
        /\ active' <= active /\ active' \in Int /\ panicked' \in Int
    <3>1. active \in Int /\ current \in Int /\ max_connections \in Nat /\ panicked \in Nat
      BY ServerAssumption DEF StateOK
    <3>2. \/ active' = active - 1 /\ panicked' = panicked
          \/ active' = active /\ panicked' = panicked + 1
      BY <1>5 DEF FreeSlot, Panic
    <3>3. UNCHANGED <<max_connections, phase, current>>
      BY <1>5 DEF FreeSlot, Panic
    <3> QED
      BY <3>1, <3>2, <3>3
  <2>4. /\ phase = "decide" => active = Cardinality(Served) + panicked + 1 /\ active <= current + 1
        /\ phase # "decide" => active = Cardinality(Served) + panicked
        /\ Cardinality(Served) <= max_connections
    BY <1>1, <2>3 DEF SlotInv, SlotsAccounted
  <2>5. /\ phase = "decide" => active' = Cardinality(Served') + panicked' + 1 /\ active' <= current + 1
        /\ phase # "decide" => active' = Cardinality(Served') + panicked'
        /\ Cardinality(Served') <= max_connections
    BY <1>1, <2>2, <2>3, <2>4
  <2>6. Cardinality(Served') \in Int
    BY <1>1, <2>2
  <2> QED
    BY <2>3, <2>5, <2>6 DEF SlotInv, SlotsAccounted
<1>6. ASSUME NEW c \in Client, Login(c) \/ Hangup(c) \/ (\E d \in Names : Dial(c, d))
      PROVE  SlotInv'
  <2>1. Served' = Served
    BY Zenon, <1>6 DEF Login, Hangup, Dial, Running, Served, StateOK
  <2> QED
    BY <1>6, <2>1 DEF Login, Hangup, Dial, SlotInv, SlotsAccounted, loop
<1>7. ASSUME NEW c \in Client, Request(c) \/ Serve(c)
      PROVE  SlotInv'
  BY SMTT(30), <1>7, ServeFrame DEF SlotInv, SlotsAccounted, Served, loop
<1> QED
  BY <1>2, <1>3, <1>4, <1>5, <1>6, <1>7 DEF Next, AcceptLoop

\* Every step keeps requests with ready connections, on engines that are open.
LEMMA StepTasks ==
  ASSUME StateOK, QueueInv, TaskInv, EngineInv, Next
  PROVE  TaskInv'
<1> USE DEF TaskInv
<1>1. Len(opened) \in Nat /\ \A c \in Client : task[c] \in Tasks /\ task[c].handle \in Nat
  BY DEF StateOK, Tasks
<1>2. CASE Accept \/ StopAccepting \/ Exit \/ Signal
  BY <1>2 DEF Accept, StopAccepting, Exit, Signal, cache, Target
<1>3. CASE Reject \/ Spawn
  <2>1. /\ Head(backlog) \in Client /\ conn[Head(backlog)] = "queued"
        /\ UNCHANGED <<task, cache>> /\ next_sid' \in {next_sid, next_sid + 1}
        /\ \A c \in Client : c # Head(backlog) =>
             conn'[c] = conn[c] /\ sid'[c] = sid[c] /\ db'[c] = db[c]
        /\ conn'[Head(backlog)] \in {"off", "startup"}
        /\ conn'[Head(backlog)] = "startup" => sid'[Head(backlog)] = next_sid
        /\ sid'[Head(backlog)] < next_sid'
    <3> DEFINE h == Head(backlog)
    <3>1. h \in Client /\ conn[h] = "queued" /\ UNCHANGED <<task, cache>>
      BY SMTT(30), <1>3 DEF Reject, Spawn, Close, QueueInv, StateOK
    <3>2. CASE Reject
      <4>1. /\ conn' = [conn EXCEPT ![h] = "off"] /\ sid' = [sid EXCEPT ![h] = 0]
            /\ db' = [db EXCEPT ![h] = "icedb"] /\ next_sid' = next_sid
        BY Zenon, <3>2 DEF Reject, Close
      <4> QED
        BY SMTT(30), <3>1, <4>1 DEF StateOK
    <3>3. CASE Spawn
      <4>1. /\ conn' = [conn EXCEPT ![h] = "startup"] /\ sid' = [sid EXCEPT ![h] = next_sid]
            /\ UNCHANGED db /\ next_sid' = next_sid + 1
        BY Zenon, <3>3 DEF Spawn
      <4> QED
        BY SMTT(30), <3>1, <4>1 DEF StateOK
    <3> QED
      BY Zenon, <1>3, <3>2, <3>3
  <2>2. task[Head(backlog)] = Idle
    BY <2>1
  <2> QED
    BY SMTT(30), <1>1, <2>1, <2>2, TaskFields DEF Idle, Target, StateOK, cache
<1>4. ASSUME NEW c \in Client, NEW d \in Names, Dial(c, d)
      PROVE  TaskInv'
  <2>1. task[c] = Idle /\ Idle.pc = "idle"
    BY SMTT(30), <1>4, TaskFields DEF Dial, Idle
  <2> QED
    BY Zenon, <1>1, <1>4, <2>1 DEF Dial, StateOK, cache, Target
<1>5. ASSUME NEW c \in Client, Login(c) \/ Hangup(c) \/ FreeSlot(c) \/ Panic(c)
      PROVE  TaskInv'
  <2>1. task'[c] = Idle
    BY <1>5 DEF Login, Hangup, FreeSlot, Panic, StateOK
  <2>2. Idle.pc = "idle" /\ Idle.kind = "none" /\ Idle.handle = 0
    BY TaskFields DEF Idle
  <2>3. /\ UNCHANGED <<cache, next_sid>>
        /\ \A k \in Client : k # c =>
             conn'[k] = conn[k] /\ sid'[k] = sid[k] /\ db'[k] = db[k] /\ task'[k] = task[k]
        /\ conn'[c] \in {"startup", "ready", "ended"} =>
             conn[c] \in {"startup", "ready", "ended"} /\ sid'[c] = sid[c]
        /\ sid'[c] < next_sid'
    <3>1. CASE Login(c) \/ Hangup(c)
      <4>1. /\ conn' \in {[conn EXCEPT ![c] = "ready"], [conn EXCEPT ![c] = "ended"]}
            /\ UNCHANGED <<cache, next_sid, sid, db, task>> /\ conn[c] \in {"startup", "ready"}
        BY Zenon, <3>1 DEF Login, Hangup, Running
      <4>2. sid[c] < next_sid
        BY Zenon, <1>1
      <4> QED
        BY SMTT(30), <4>1, <4>2 DEF StateOK
    <3>2. CASE FreeSlot(c) \/ Panic(c)
      <4>1. /\ conn' = [conn EXCEPT ![c] = "off"] /\ sid' = [sid EXCEPT ![c] = 0]
            /\ db' = [db EXCEPT ![c] = "icedb"] /\ UNCHANGED <<cache, next_sid>>
            /\ task' \in {task, [task EXCEPT ![c] = Idle]}
        BY Zenon, <3>2 DEF FreeSlot, Panic, Close
      <4> QED
        BY SMTT(30), <4>1 DEF StateOK
    <3> QED
      BY Zenon, <1>5, <3>1, <3>2
  <2> QED
    BY <1>1, <2>1, <2>2, <2>3 DEF Target, cache
<1>6. ASSUME NEW c \in Client, Request(c) \/ Serve(c)
      PROVE  TaskInv'
  <2>1. UNCHANGED <<conn, sid, next_sid, db>> /\ conn[c] \in {"startup", "ready"}
    BY Zenon, <1>6, ServeFrame DEF Request, Serve, Lookup, Exists, OpenEngine, Run, CreateDir, RemoveDir,
       ReadRegistry, Truncate, Save, At, Running
  <2>2. /\ \A k \in Client : k # c => task'[k] = task[k]
        /\ Len(opened') \in Nat /\ Len(opened) <= Len(opened')
    <3>1. \E t : task' = [task EXCEPT ![c] = t]
      BY ZenonT(30), <1>6 DEF Request, Serve, Lookup, Exists, OpenEngine, Run, CreateDir, RemoveDir,
         ReadRegistry, Truncate, Save, Goto
    <3>2. opened' = opened \/ opened' = Append(opened, Target(c))
      BY Zenon, <1>6 DEF Request, Serve, Lookup, Exists, OpenEngine, Run, CreateDir, RemoveDir,
         ReadRegistry, Truncate, Save, cache
    <3>3. opened \in Seq(Names) /\ Target(c) \in Names
      BY SMTT(30), TaskTypes DEF StateOK
    <3>4. Len(opened') \in Nat /\ Len(opened) <= Len(opened')
      BY <1>1, <3>2, <3>3
    <3> QED
      BY <3>1, <3>4 DEF StateOK
  <2>3. /\ Idle.pc = "idle" /\ Idle.kind = "none" /\ Idle.handle = 0
        /\ \A p, e : On(c, p, e).pc = p /\ On(c, p, e).handle = e
                    /\ On(c, p, e).kind = task[c].kind /\ On(c, p, e).name = task[c].name
        /\ \A p : Then(c, p) = On(c, p, task[c].handle)
    <3>1. Idle.pc = "idle" /\ Idle.kind = "none" /\ Idle.handle = 0
      BY TaskFields DEF Idle
    <3>2. ASSUME NEW p, NEW e
          PROVE  /\ On(c, p, e).pc = p /\ On(c, p, e).handle = e
                 /\ On(c, p, e).kind = task[c].kind /\ On(c, p, e).name = task[c].name
      BY TaskFields DEF On
    <3>3. ASSUME NEW p
          PROVE  Then(c, p) = On(c, p, task[c].handle)
      BY DEF Then
    <3> QED
      BY <3>1, <3>2, <3>3
  <2>4. conn[c] = "ready"
    BY ZenonT(30), <1>6, <2>1, <2>3 DEF Request, Serve, Lookup, Exists, OpenEngine, Run, CreateDir, RemoveDir,
       ReadRegistry, Truncate, Save, At
  <2>5. /\ task'[c].handle \in 0..Len(opened')
        /\ task'[c].pc \in {"run", "list", "truncate", "save"} => task'[c].handle # 0
        /\ task'[c].pc \in {"exists", "open"} => Target(c)' # "icedb"
        /\ task'[c].pc \in {"list", "truncate", "save"} => task'[c].kind \in {"create", "drop"}
        /\ task'[c].kind \in {"create", "drop"} => c \in Admin /\ task'[c].name \in Db
    <3>1. CASE Request(c)
      <4>1. PICK kind \in Kinds(c) : \E d \in NamedBy(kind) : task'[c] = Task("lookup", kind, d, 0, {})
        BY SMTT(30), <3>1 DEF Request, Goto, StateOK
      <4> QED
        BY SMTT(30), <4>1, <2>2, TaskFields DEF Kinds, NamedBy
    <3>2. CASE Lookup(c)
      <4>1. engines[Target(c)] \in 0..Len(opened) /\ engines["icedb"] # 0
        BY SMTT(30), <1>1, TaskTypes DEF EngineInv, StateOK
      <4>2. task'[c] = IF engines[Target(c)] = 0 THEN Then(c, "exists") ELSE On(c, "run", engines[Target(c)])
        BY Zenon, <3>2 DEF Lookup, Goto, StateOK
      <4>3. Target(c)' = Target(c)
        BY SMTT(30), <2>1, <2>3, <4>2 DEF Target
      <4> QED
        BY <1>1, <2>2, <2>3, <4>1, <4>2, <4>3
    <3>3. CASE Exists(c)
      <4>1. task'[c] = (IF Target(c) \in List THEN Then(c, "open") ELSE Idle) /\ task[c].pc = "exists"
        BY <3>3 DEF Exists, Goto, StateOK, At
      <4>2. task'[c] # Idle => Target(c)' = Target(c)
        BY SMTT(30), <2>1, <2>3, <4>1 DEF Target
      <4> QED
        BY SMTT(30), <1>1, <2>2, <2>3, <4>1, <4>2
    <3>4. CASE OpenEngine(c)
      <4>1. task'[c] = On(c, "run", Len(opened')) /\ Len(opened') # 0
        BY SMTT(30), <3>4, <1>1 DEF OpenEngine, Goto, StateOK
      <4> QED
        BY SMTT(30), <1>1, <2>2, <2>3, <4>1
    <3>5. CASE Run(c) \/ Save(c)
      BY SMTT(30), <2>2, <2>3, <3>5 DEF Run, Save, Goto, StateOK
    <3>6. CASE CreateDir(c) \/ RemoveDir(c)
      <4>1. task'[c] \in {Idle, Then(c, "list")} /\ task[c].pc = "run" /\ task[c].kind \in {"create", "drop"}
        BY <3>6 DEF CreateDir, RemoveDir, Goto, At, StateOK
      <4> QED
        BY SMTT(30), <1>1, <2>2, <2>3, <4>1
    <3>7. CASE ReadRegistry(c) \/ Truncate(c)
      <4>1. /\ task'[c].pc \in {"truncate", "save"} /\ task'[c].handle = task[c].handle
            /\ task'[c].kind = task[c].kind /\ task'[c].name = task[c].name
            /\ task[c].pc \in {"list", "truncate"}
        BY SMTT(30), <3>7, <2>3, TaskFields DEF ReadRegistry, Truncate, Goto, At, StateOK
      <4> QED
        BY SMTT(30), <1>1, <2>2, <4>1
    <3> QED
      BY ZenonT(30), <1>6, <3>1, <3>2, <3>3, <3>4, <3>5, <3>6, <3>7 DEF Serve
  <2>6. \A k \in Client : k # c => Target(k)' = Target(k)
    BY Zenon, <2>1, <2>2 DEF Target
  <2> QED
    BY SMTT(30), <1>1, <2>1, <2>2, <2>4, <2>5, <2>6
<1> QED
  BY <1>2, <1>3, <1>4, <1>5, <1>6 DEF Next, AcceptLoop

\* Every step keeps the default database's engine in the cache, and the cache true.
LEMMA StepEngines ==
  ASSUME StateOK, TaskInv, EngineInv, Next
  PROVE  EngineInv'
<1>1. ASSUME NEW c \in Client, OpenEngine(c)
      PROVE  EngineInv'
  <2>1. Target(c) \in Names /\ Target(c) # "icedb" /\ "icedb" \in Names
    BY <1>1, TaskTypes DEF OpenEngine, At, TaskInv, Names
  <2>2. Len(opened) \in Nat /\ Len(opened') = Len(opened) + 1 /\ opened'[Len(opened')] = Target(c)
        /\ \A e \in 1..Len(opened) : opened'[e] = opened[e]
    BY <1>1, <2>1 DEF OpenEngine, StateOK
  <2>3. engines' = [engines EXCEPT ![Target(c)] = Len(opened')]
    BY <1>1 DEF OpenEngine, Cached
  <2>4. \A d \in Names : engines[d] \in Nat
    BY DEF StateOK
  <2>5. engines'["icedb"] = engines["icedb"] /\ engines'[Target(c)] = Len(opened')
        /\ \A d \in Names : d # Target(c) => engines'[d] = engines[d]
    BY <2>1, <2>3 DEF StateOK
  <2> QED
    BY SMTT(30), <2>2, <2>4, <2>5 DEF EngineInv
<1>2. CASE UNCHANGED cache
  BY <1>2 DEF cache, EngineInv
<1>3. (\E c \in Client : OpenEngine(c)) \/ UNCHANGED cache
  BY ZenonT(30) DEF Next, AcceptLoop, Accept, Reject, Spawn, StopAccepting, Exit, Signal, Login, Hangup,
     FreeSlot, Panic, Request, Serve, Lookup, Exists, Run, CreateDir, RemoveDir, ReadRegistry,
     Truncate, Save, Dial
<1> QED
  BY <1>1, <1>2, <1>3

\* Every step keeps a block of the default database with a client that is connected.
LEMMA StepBlocks ==
  ASSUME StateOK, QueueInv, TaskInv, EngineInv, BlockInv, Next, EngineInv'
  PROVE  BlockInv'
<1> DEFINE Owned(n) == \E c \in Client : conn[c] \in {"startup", "ready"} /\ sid[c] = n
<1>1. /\ Len(opened) \in Nat /\ Len(opened') \in Nat /\ Len(opened) <= Len(opened')
      /\ engines["icedb"] = 1 /\ engines'["icedb"] = 1
  <2>1. (\E c \in Client : OpenEngine(c)) \/ UNCHANGED opened
    BY ZenonT(30) DEF Next, AcceptLoop, Accept, Reject, Spawn, StopAccepting, Exit, Signal, Login, Hangup,
       FreeSlot, Panic, Request, Serve, Lookup, Exists, Run, CreateDir, RemoveDir, ReadRegistry,
       Truncate, Save, Dial, cache
  <2>2. ASSUME NEW c \in Client, OpenEngine(c)
        PROVE  Len(opened') = Len(opened) + 1
    BY <2>2, TaskTypes DEF OpenEngine, StateOK
  <2> QED
    BY <2>1, <2>2 DEF EngineInv, StateOK
<1>2. /\ sessions \subseteq (1..Len(opened')) \X (1..MaxSid)
      /\ \A b \in sessions : b[1] = 1 => Owned(b[2])
  BY SMTT(30), <1>1 DEF BlockInv, DefaultBlocksHaveClient
<1>3. ASSUME sessions' \subseteq (1..Len(opened')) \X (1..MaxSid),
             \A b \in sessions' : b[1] = 1 => Owned(b[2])'
      PROVE  BlockInv'
  BY <1>1, <1>3 DEF BlockInv, DefaultBlocksHaveClient
<1>4. CASE Accept \/ StopAccepting \/ Exit \/ Signal
  BY <1>2, <1>3, <1>4 DEF Accept, StopAccepting, Exit, Signal
<1>5. CASE Reject \/ Spawn
  <2>1. Head(backlog) \in Client /\ conn[Head(backlog)] = "queued" /\ sessions' = sessions
    BY <1>5 DEF Reject, Spawn, QueueInv, StateOK
  <2>2. \A c \in Client : c # Head(backlog) => conn'[c] = conn[c] /\ sid'[c] = sid[c]
    BY Zenon, <1>5 DEF Reject, Spawn, Close, StateOK
  <2>3. \A n : Owned(n) => Owned(n)'
    BY <2>1, <2>2
  <2> QED
    BY Zenon, <1>2, <1>3, <2>1, <2>3
<1>6. ASSUME NEW c \in Client, Login(c) \/ FreeSlot(c) \/ (\E d \in Names : Dial(c, d))
      PROVE  BlockInv'
  <2>1. sessions' = sessions /\ \A n : Owned(n) => Owned(n)'
    BY Zenon, <1>6 DEF Login, FreeSlot, Dial, Close, StateOK
  <2> QED
    BY Zenon, <1>2, <1>3, <2>1
<1>7. ASSUME NEW c \in Client, Hangup(c) \/ Panic(c)
      PROVE  BlockInv'
  <2>1. sessions' = sessions \ {<<1, sid[c]>>}
    BY <1>1, <1>7 DEF Hangup, Panic, Dropped
  <2>2. \A k \in Client : k # c => conn'[k] = conn[k] /\ sid'[k] = sid[k]
    BY <1>7 DEF Hangup, Panic, Close, StateOK
  <2>3. ASSUME NEW b \in sessions', b[1] = 1
        PROVE  Owned(b[2])'
    <3>1. b = <<b[1], b[2]>> /\ b \in sessions
      BY <1>2, <2>1, <2>3
    <3>2. b[2] # sid[c]
      BY <2>1, <2>3, <3>1
    <3> QED
      BY <1>2, <2>2, <2>3, <3>1, <3>2
  <2> QED
    BY SMTT(30), <1>2, <1>3, <2>1, <2>3
<1>8. ASSUME NEW c \in Client, Request(c) \/ Serve(c)
      PROVE  BlockInv'
  <2>1. \A n : Owned(n) => Owned(n)'
    BY <1>8, ServeFrame
  <2>2. CASE Run(c)
    <3>1. /\ task[c].handle \in 1..Len(opened') /\ conn[c] \in {"startup", "ready"}
          /\ sid[c] \in 1..MaxSid
      <4>1. task[c].pc = "run" /\ conn[c] \in {"startup", "ready"}
        BY <2>2 DEF Run, At, Running
      <4>2. task[c].handle \in 0..Len(opened) /\ task[c].handle # 0 /\ sid[c] # 0 /\ sid[c] < next_sid
        BY <4>1 DEF TaskInv
      <4>3. next_sid <= MaxSid + 1 /\ sid[c] \in Nat /\ next_sid \in Nat
        BY ServerAssumption DEF QueueInv, StateOK
      <4> QED
        BY SMTT(30), <1>1, <4>1, <4>2, <4>3, ServerAssumption
    <3>2. sessions' \subseteq sessions \cup {<<task[c].handle, sid[c]>>}
      BY <2>2 DEF Run
    <3>3. ASSUME NEW b \in sessions', b[1] = 1
          PROVE  Owned(b[2])'
      BY <1>2, <2>1, <3>1, <3>2, <3>3
    <3> QED
      BY SMTT(30), <1>2, <1>3, <3>1, <3>2, <3>3
  <2>3. CASE ~Run(c)
    <3>1. sessions' = sessions
      BY Zenon, <1>8, <2>3 DEF Request, Serve, Lookup, Exists, OpenEngine, CreateDir, RemoveDir,
         ReadRegistry, Truncate, Save
    <3> QED
      BY ZenonT(30), <1>2, <1>3, <2>1, <3>1
  <2> QED
    BY <2>2, <2>3
<1> QED
  BY <1>4, <1>5, <1>6, <1>7, <1>8 DEF Next, AcceptLoop

\* Every step keeps what the registry lists, and what will be written to it, with
\* its directory.
LEMMA StepDirs ==
  ASSUME StateOK, TaskInv, DirInv, Next
  PROVE  DirInv'
<1> SUFFICES ASSUME Cardinality(Admin) = 1, NEW a \in Admin
             PROVE  /\ List' \subseteq dirs' \cup Dropping(a)'
                    /\ task'[a].pc \in {"list", "truncate", "save"} /\ task'[a].kind = "create"
                         => task'[a].name \in dirs'
                    /\ task'[a].pc \in {"truncate", "save"} => task'[a].listed \subseteq dirs'
  BY DEF DirInv
<1>1. Admin = {a}
  <2>1. IsFiniteSet(Admin)
    BY ServerAssumption, FS_Subset
  <2> QED
    BY <2>1, FS_Singleton
<1>2. a \in Client
  BY ServerAssumption
<1>3. /\ List \subseteq dirs \cup Dropping(a)
      /\ task[a].pc \in {"list", "truncate", "save"} /\ task[a].kind = "create" => task[a].name \in dirs
      /\ task[a].pc \in {"truncate", "save"} => task[a].listed \subseteq dirs
  BY DEF DirInv
<1>4. CASE task'[a] = task[a] /\ registry' = registry /\ dirs \subseteq dirs'
  BY <1>3, <1>4 DEF List, Dropping
<1>5. Idle.pc = "idle" /\ Idle.kind = "none"
  BY TaskFields DEF Idle
<1>6. CASE AcceptLoop \/ Signal \/ \E c \in Client : Login(c) \/ Hangup(c) \/ FreeSlot(c)
             \/ \E d \in Names : Dial(c, d)
  BY ZenonT(30), <1>4, <1>6 DEF AcceptLoop, Accept, Reject, Spawn, StopAccepting, Exit, Signal, Login, Hangup,
     FreeSlot, Dial, disk
<1>7. ASSUME NEW c \in Client, c # a, Panic(c) \/ Request(c) \/ Serve(c)
      PROVE  task'[a] = task[a] /\ registry' = registry /\ dirs \subseteq dirs'
  <2>1. ~ (task[c].kind \in {"create", "drop"}) /\ ~ (task[c].pc \in {"list", "truncate", "save"})
    BY <1>1, <1>7 DEF TaskInv
  <2> QED
    BY ZenonT(30), <1>2, <1>7, <2>1 DEF Panic, Request, Serve, Lookup, Exists, OpenEngine, Run, CreateDir,
       RemoveDir, ReadRegistry, Truncate, Save, At, Goto, StateOK, disk
<1>8. CASE Panic(a) \/ Run(a)
  <2>1. task'[a] = Idle /\ UNCHANGED disk /\ task[a].pc = "run"
    BY SMTT(30), <1>2, <1>8 DEF Panic, Run, At, Goto, StateOK
  <2> QED
    BY <1>3, <1>5, <2>1 DEF List, Dropping, disk
<1>9. CASE Request(a) \/ Lookup(a) \/ Exists(a) \/ OpenEngine(a)
  <2>1. task[a].pc \in {"idle", "lookup", "exists", "open"} /\ registry' = registry /\ dirs \subseteq dirs'
    BY ZenonT(30), <1>9 DEF Request, Lookup, Exists, OpenEngine, At, disk
  <2>2. task'[a].pc \in {"idle", "lookup", "exists", "open", "run"}
    <3>1. \/ task' \in {[task EXCEPT ![a] = Idle], [task EXCEPT ![a] = Then(a, "exists")],
                        [task EXCEPT ![a] = Then(a, "open")]}
          \/ \E e : task' = [task EXCEPT ![a] = On(a, "run", e)]
          \/ \E kind, d : task' = [task EXCEPT ![a] = Task("lookup", kind, d, 0, {})]
      BY SMTT(30), <1>9 DEF Request, Lookup, Exists, OpenEngine, Goto
    <3>2. /\ \A e : On(a, "run", e).pc = "run"
          /\ Then(a, "exists").pc = "exists" /\ Then(a, "open").pc = "open"
          /\ \A kind, d : Task("lookup", kind, d, 0, {}).pc = "lookup"
      BY SMTT(30), TaskFields DEF On, Then
    <3> QED
      BY <1>2, <1>5, <3>1, <3>2 DEF StateOK
  <2> QED
    BY <1>3, <2>1, <2>2 DEF List, Dropping
<1>10. CASE CreateDir(a) \/ RemoveDir(a)
  <2>1. /\ task[a].pc = "run" /\ registry' = registry
        /\ \/ task'[a] = Idle /\ dirs' = dirs
           \/ /\ task'[a] = Then(a, "list")
              /\ \/ task[a].kind = "create" /\ dirs' = dirs \cup {task[a].name}
                 \/ task[a].kind = "drop" /\ dirs' = dirs \ {task[a].name}
    BY Zenon, <1>2, <1>10 DEF CreateDir, RemoveDir, At, Goto, StateOK
  <2>2. Then(a, "list").pc = "list" /\ Then(a, "list").kind = task[a].kind
        /\ Then(a, "list").name = task[a].name
    BY SMTT(30), TaskFields DEF Then, On
  <2>3. List \subseteq dirs
    BY <1>3, <2>1 DEF Dropping
  <2> QED
    BY <1>5, <2>1, <2>2, <2>3 DEF List, Dropping
<1>11. CASE ReadRegistry(a)
  <2>1. /\ task[a].pc = "list" /\ UNCHANGED disk /\ task[a].kind \in {"create", "drop"}
        /\ task'[a] = Task("truncate", task[a].kind, task[a].name, task[a].handle,
                            Entries(task[a].kind, task[a].name))
    BY Zenon, <1>2, <1>11 DEF ReadRegistry, At, Goto, StateOK, TaskInv
  <2>2. task'[a].pc = "truncate" /\ task'[a].kind = task[a].kind /\ task'[a].name = task[a].name
        /\ task'[a].listed = Entries(task[a].kind, task[a].name)
    BY SMTT(30), <2>1, TaskFields
  <2>3. Entries(task[a].kind, task[a].name) \subseteq dirs
    BY <1>3, <2>1 DEF Entries, Dropping
  <2> QED
    BY ZenonT(30), <1>3, <2>1, <2>2, <2>3 DEF List, Dropping, disk
<1>12. CASE Truncate(a)
  <2>1. task[a].pc = "truncate" /\ registry' = {} /\ dirs' = dirs /\ task'[a] = Then(a, "save")
    BY Zenon, <1>2, <1>12 DEF Truncate, At, Goto, StateOK
  <2>2. task'[a].pc = "save" /\ task'[a].kind = task[a].kind /\ task'[a].name = task[a].name
        /\ task'[a].listed = task[a].listed
    BY <2>1, TaskFields DEF Then, On
  <2> QED
    BY <1>3, <2>1, <2>2 DEF List, Dropping
<1>13. CASE Save(a)
  <2>1. task[a].pc = "save" /\ registry' = task[a].listed /\ dirs' = dirs /\ task'[a] = Idle
    BY <1>2, <1>13 DEF Save, At, Goto, StateOK
  <2>2. "icedb" \in dirs
    <3>1. task[a].name \in Db
      BY <1>2, <2>1 DEF TaskInv
    <3> QED
      BY Zenon, <1>3, <3>1, ServerAssumption DEF List, Dropping
  <2> QED
    BY <1>3, <1>5, <2>1, <2>2 DEF List, Dropping
<1> QED
  BY ZenonT(30), <1>4, <1>6, <1>7, <1>8, <1>9, <1>10, <1>11, <1>12, <1>13 DEF Next, Serve

-----------------------------------------------------------------------------
(* The theorems *)

\* The server's invariant, for every number of clients, databases and bounds.
THEOREM ServerInvariant == Spec => []ServerInv
<1>1. Init => ServerInv
  <2> SUFFICES ASSUME Init PROVE ServerInv
    OBVIOUS
  <2>1. StateOK /\ QueueInv
    <3>1. Idle \in Tasks
      BY DEF Idle, Task, Tasks, Names
    <3> QED
      BY SMTT(30), <3>1, ServerAssumption DEF Init, StateOK, QueueInv, Names
  <2>2. SlotInv
    <3>1. Served = {}
      BY SMTT(30) DEF Init, Served
    <3> QED
      BY <3>1, FS_EmptySet DEF Init, SlotInv, SlotsAccounted
  <2>3. TaskInv
    BY TaskFields DEF Init, TaskInv, Idle
  <2>4. EngineInv /\ BlockInv
    BY SMTT(30) DEF Init, EngineInv, BlockInv, DefaultBlocksHaveClient, Names
  <2>5. DirInv
    BY SMTT(30), TaskFields, ServerAssumption DEF Init, DirInv, List, Dropping, Names, Idle
  <2> QED
    BY <2>1, <2>2, <2>3, <2>4, <2>5 DEF ServerInv
<1>2. ServerInv /\ [Next]_vars => ServerInv'
  <2> SUFFICES ASSUME ServerInv, [Next]_vars PROVE ServerInv'
    OBVIOUS
  <2>1. CASE Next
    BY <2>1, StepState, StepQueue, StepSlots, StepTasks, StepEngines, StepBlocks, StepDirs DEF ServerInv
  <2>2. CASE UNCHANGED vars
    <3>1. StateOK' /\ QueueInv'
      BY SMTT(30), <2>2 DEF vars, loop, disk, cache, ServerInv, StateOK, QueueInv
    <3>2. SlotInv'
      BY Zenon, <2>2 DEF vars, loop, ServerInv, SlotInv, SlotsAccounted, Served
    <3>3. TaskInv'
      BY <2>2 DEF vars, cache, ServerInv, TaskInv, Target
    <3>4. EngineInv' /\ BlockInv'
      BY ZenonT(30), <2>2 DEF vars, cache, ServerInv, EngineInv, BlockInv, DefaultBlocksHaveClient
    <3>5. DirInv'
      BY <2>2 DEF vars, disk, ServerInv, DirInv, List, Dropping
    <3> QED
      BY SMTT(30), <3>1, <3>2, <3>3, <3>4, <3>5 DEF ServerInv
  <2> QED
    BY <2>1, <2>2
<1> QED
  BY <1>1, <1>2, PTL DEF Spec

\* The counter of connections is the clients served plus the slots lost to panics,
\* and no more than max_connections clients are served.
THEOREM AccountedHolds == Spec => []Accounted
<1>1. ServerInv => Accounted
  <2> SUFFICES ASSUME ServerInv PROVE Accounted
    OBVIOUS
  <2>1. Cardinality(Served) \in Nat /\ Cardinality(Client) \in Nat
        /\ Cardinality(Served) <= Cardinality(Client)
    BY Zenon, ServerAssumption, FS_Subset, FS_CardinalityType DEF Served
  <2>2. SlotsAccounted /\ panicked \in 0..MaxPanic
    BY DEF ServerInv, SlotInv, StateOK
  <2>3. active \in 0..Cardinality(Client) + MaxPanic + 1
    BY <2>1, <2>2, ServerAssumption DEF SlotsAccounted
  <2> QED
    BY <2>2, <2>3 DEF ServerInv, StateOK, TaskInv, EngineInv, BlockInv, Accounted, TypeOK
<1> QED
  BY <1>1, ServerInvariant, PTL

\* A transaction block on the default database never outlives its connection.
THEOREM DefaultBlocksHaveClientHolds == Spec => []DefaultBlocksHaveClient
<1>1. ServerInv => DefaultBlocksHaveClient
  BY DEF ServerInv, BlockInv
<1> QED
  BY <1>1, ServerInvariant, PTL

\* With one administrator, a database the registry lists has its directory unless
\* it is being dropped.
THEOREM RegisteredHasDirectoryHolds == Spec => []RegisteredHasDirectory
<1>1. ServerInv => RegisteredHasDirectory
  <2> SUFFICES ASSUME ServerInv, Cardinality(Admin) = 1, NEW d \in List \ dirs
               PROVE  \E c \in Admin : task[c].kind = "drop" /\ task[c].name = d
    BY DEF RegisteredHasDirectory
  <2>1. PICK a : Admin = {a}
    BY Zenon, ServerAssumption, FS_Subset, FS_Singleton
  <2> QED
    BY <2>1 DEF ServerInv, DirInv, Dropping
<1> QED
  BY <1>1, ServerInvariant, PTL

=============================================================================
