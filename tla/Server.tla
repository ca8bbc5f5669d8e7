-------------------------------- MODULE Server --------------------------------
(***************************************************************************)
(* The network server: the accept loop and its connection slots            *)
(* (crates/network/src/server.rs), the life of a connection (handler.rs),  *)
(* and behind it the databases of the server: the registry file, the       *)
(* directories, and the cache of open engines (crates/sql/src/             *)
(* db_manager.rs, CREATE and DROP DATABASE of executor.rs).                *)
(*                                                                         *)
(* Every connection is a task of its own.  A request is a few steps, with  *)
(* other tasks' steps in between wherever no lock is held.  Of the SQL     *)
(* only the open transaction blocks are kept: one per engine and session.  *)
(***************************************************************************)
EXTENDS Integers, Sequences, FiniteSets

CONSTANTS
  Client,
  Admin,      \* clients that issue CREATE and DROP DATABASE
  Db,         \* databases other than the default one
  MaxConn,    \* bound: the limit the server may be started with
  MaxSid,     \* bound: session ids handed out
  MaxEngine,  \* bound: engines ever opened
  MaxPanic    \* bound: tasks that panic

ASSUME ServerAssumption ==
  /\ IsFiniteSet(Client) /\ Admin \subseteq Client
  /\ "icedb" \notin Db
  /\ MaxConn \in Nat \ {0} /\ MaxSid \in Nat /\ MaxEngine \in Nat \ {0} /\ MaxPanic \in Nat

Names == Db \cup {"icedb"}

VARIABLES
  max_connections, \* the limit this server was started with
  phase,      \* the accept loop: "accept", "decide", "drain", "done"
  signalled,  \* SIGTERM or Ctrl-C has arrived
  backlog,    \* clients waiting in listener.accept
  active,     \* the counter of connections
  current,    \* its value before the accept loop's fetch_add
  panicked,   \* tasks that ended without their fetch_sub
  conn,       \* "off", "queued", "startup", "ready" or "ended" for each client
  sid,        \* session id of each client's connection
  next_sid,   \* COUNTER of new_session_id
  db,         \* database the client has named at startup
  task,       \* the request being served: next step, kind, database a DDL
              \* names, engine it runs on, entries it read from the registry
  registry,   \* entries of pg_database.json; {} while it is truncated
  dirs,       \* database directories
  engines,    \* the cache: engine of each database, 0 if none
  opened,     \* database of each engine opened so far
  sessions    \* <<engine, session id>> with an open transaction block

loop  == <<max_connections, phase, signalled, backlog, active, current, panicked>>
disk  == <<registry, dirs>>
cache == <<engines, opened>>
vars  == <<loop, conn, sid, next_sid, db, task, disk, cache, sessions>>

\* A request: next step, kind, database a DDL names, engine, entries read
Task(pc, kind, name, handle, listed) ==
  [pc |-> pc, kind |-> kind, name |-> name, handle |-> handle, listed |-> listed]
Idle == Task("idle", "none", "icedb", 0, {})

\* main registers the engine of the default database before it serves.
Init ==
  /\ max_connections \in 1..MaxConn
  /\ phase = "accept" /\ signalled = FALSE /\ backlog = << >>
  /\ active = 0 /\ current = 0 /\ panicked = 0
  /\ conn = [c \in Client |-> "off"] /\ sid = [c \in Client |-> 0] /\ next_sid = 1
  /\ db = [c \in Client |-> "icedb"]
  /\ task = [c \in Client |-> Idle]
  /\ registry = Names /\ dirs = Names
  /\ engines = [d \in Names |-> IF d = "icedb" THEN 1 ELSE 0]
  /\ opened = <<"icedb">>
  /\ sessions = {}

-----------------------------------------------------------------------------
(* The accept loop.                                                        *)

\* A client connects, for the database d.
Dial(c, d) ==
  /\ conn[c] = "off" /\ phase # "done" /\ next_sid + Len(backlog) <= MaxSid
  /\ conn' = [conn EXCEPT ![c] = "queued"]
  /\ db' = [db EXCEPT ![c] = d]
  /\ backlog' = Append(backlog, c)
  /\ UNCHANGED <<max_connections, phase, signalled, active, current, panicked, sid,
                 next_sid, task, disk, cache, sessions>>

Signal ==
  /\ ~signalled
  /\ signalled' = TRUE
  /\ UNCHANGED <<max_connections, phase, backlog, active, current, panicked, conn, sid,
                 next_sid, db, task, disk, cache, sessions>>

\* Mutant: the loop waits for a free slot before it accepts.
CanAcceptFree == phase = "accept" /\ ~signalled /\ backlog # << >> /\ active < max_connections

\* The select is biased towards the signal.
CanAccept == phase = "accept" /\ ~signalled /\ backlog # << >>

\* listener.accept and fetch_add
Accept ==
  /\ CanAccept
  /\ phase' = "decide"
  /\ current' = active /\ active' = active + 1
  /\ UNCHANGED <<max_connections, signalled, backlog, panicked, conn, sid, next_sid, db,
                 task, disk, cache, sessions>>

Close(c) ==
  /\ conn' = [conn EXCEPT ![c] = "off"]
  /\ sid' = [sid EXCEPT ![c] = 0] /\ db' = [db EXCEPT ![c] = "icedb"]

\* Mutant: one more than the limit.
FullAbove == current > max_connections

\* What fetch_add returned against the limit
Full == current >= max_connections

\* Over the limit: fetch_sub, and the socket is dropped.
Reject ==
  /\ phase = "decide" /\ Full
  /\ phase' = "accept"
  /\ active' = active - 1 /\ current' = 0
  /\ Close(Head(backlog))
  /\ backlog' = Tail(backlog)
  /\ UNCHANGED <<max_connections, signalled, panicked, next_sid, task, disk, cache,
                 sessions>>

\* The connection gets a task, and handlers with a new session id.
Spawn ==
  /\ phase = "decide" /\ ~Full
  /\ phase' = "accept" /\ current' = 0
  /\ conn' = [conn EXCEPT ![Head(backlog)] = "startup"]
  /\ sid' = [sid EXCEPT ![Head(backlog)] = next_sid] /\ next_sid' = next_sid + 1
  /\ backlog' = Tail(backlog)
  /\ UNCHANGED <<max_connections, signalled, active, panicked, db, task, disk, cache,
                 sessions>>

StopAccepting ==
  /\ phase = "accept" /\ signalled
  /\ phase' = "drain"
  /\ UNCHANGED <<max_connections, signalled, backlog, active, current, panicked, conn,
                 sid, next_sid, db, task, disk, cache, sessions>>

\* Mutant: without the deadline.
ExitWhenEmpty ==
  /\ phase = "drain" /\ active = 0
  /\ phase' = "done"
  /\ UNCHANGED <<max_connections, signalled, backlog, active, current, panicked, conn,
                 sid, next_sid, db, task, disk, cache, sessions>>

\* The drain loop ends with no connection left, or at its deadline.
Exit ==
  /\ phase = "drain"
  /\ phase' = "done"
  /\ UNCHANGED <<max_connections, signalled, backlog, active, current, panicked, conn,
                 sid, next_sid, db, task, disk, cache, sessions>>

-----------------------------------------------------------------------------
(* The life of a connection.                                               *)

Running(c) == phase # "done" /\ conn[c] \in {"startup", "ready"}

\* on_startup: the password is right
Login(c) ==
  /\ Running(c) /\ conn[c] = "startup"
  /\ conn' = [conn EXCEPT ![c] = "ready"]
  /\ UNCHANGED <<loop, sid, next_sid, db, task, disk, cache, sessions>>

\* Mutant: the engine is not told.
DroppedNone(c) == sessions

\* Drop of the handlers: only the default database's engine is told.
Dropped(c) == sessions \ {<<engines["icedb"], sid[c]>>}

\* The password is wrong, or the client is gone: process_socket returns.
Hangup(c) ==
  /\ Running(c) /\ task[c] = Idle
  /\ conn' = [conn EXCEPT ![c] = "ended"]
  /\ sessions' = Dropped(c)
  /\ UNCHANGED <<loop, sid, next_sid, db, task, disk, cache>>

\* fetch_sub at the end of the task
FreeSlot(c) ==
  /\ conn[c] = "ended" /\ phase # "done"
  /\ Close(c)
  /\ active' = active - 1
  /\ UNCHANGED <<max_connections, phase, signalled, backlog, current, panicked,
                 next_sid, task, disk, cache, sessions>>

\* A panic in a statement unwinds the task: the handlers are dropped, the
\* fetch_sub is not reached.
Panic(c) ==
  /\ Running(c) /\ task[c].pc = "run" /\ panicked < MaxPanic
  /\ panicked' = panicked + 1
  /\ Close(c)
  /\ task' = [task EXCEPT ![c] = Idle]
  /\ sessions' = Dropped(c)
  /\ UNCHANGED <<max_connections, phase, signalled, backlog, active, current, next_sid,
                 disk, cache>>

-----------------------------------------------------------------------------
(* A request.  Simple queries run on the database of the connection, the   *)
(* extended protocol always on "icedb", and in no session.                 *)

Kinds(c) == {"begin", "sql", "extended"}
            \cup (IF c \in Admin /\ db[c] = "icedb" THEN {"create", "drop"} ELSE {})

\* The databases a request of this kind may name.
NamedBy(kind) == IF kind \in {"create", "drop"} THEN Db ELSE {"icedb"}

Target(c) == IF task[c].kind = "extended" THEN "icedb" ELSE db[c]

\* The request of c goes from one step to the next; an error or the answer ends it.
At(c, step) == Running(c) /\ task[c].pc = step
Goto(c, t)  == task' = [task EXCEPT ![c] = t]
On(c, step, e) == Task(step, task[c].kind, task[c].name, e, task[c].listed)
Then(c, step)  == On(c, step, task[c].handle)

Request(c) ==
  /\ At(c, "idle") /\ conn[c] = "ready"
  /\ \E kind \in Kinds(c) : \E d \in NamedBy(kind) :
       Goto(c, Task("lookup", kind, d, 0, {}))
  /\ UNCHANGED <<loop, conn, sid, next_sid, db, disk, cache, sessions>>

\* get_or_open looks in the cache under its lock ...
Lookup(c) ==
  LET e == engines[Target(c)]
  IN /\ At(c, "lookup")
     /\ Goto(c, IF e = 0 THEN Then(c, "exists") ELSE On(c, "run", e))
     /\ UNCHANGED <<loop, conn, sid, next_sid, db, disk, cache, sessions>>

\* DatabaseRegistry::list: "icedb" is always there, and alone when the file is
\* empty and cannot be parsed.
List == registry \cup {"icedb"}

\* ... then, without it, in the registry ...
Exists(c) ==
  /\ At(c, "exists")
  /\ Goto(c, IF Target(c) \in List THEN Then(c, "open") ELSE Idle)
  /\ UNCHANGED <<loop, conn, sid, next_sid, db, disk, cache, sessions>>

\* Mutant: every engine takes the place of the default one.
CachedDefault(d, e) == [engines EXCEPT !["icedb"] = e]

\* The cache with e for d, over whatever is there
Cached(d, e) == [engines EXCEPT ![d] = e]

\* ... and opens the engine, creating the directory if it is not there, and
\* puts it in the cache.
OpenEngine(c) ==
  /\ At(c, "open") /\ Len(opened) < MaxEngine
  /\ dirs' = dirs \cup {Target(c)}
  /\ opened' = Append(opened, Target(c))
  /\ engines' = Cached(Target(c), Len(opened'))
  /\ Goto(c, On(c, "run", Len(opened')))
  /\ UNCHANGED <<loop, conn, sid, next_sid, db, registry, sessions>>

\* BEGIN; any other statement, which ends the block if it is COMMIT or ROLLBACK
\* or if it fails; and the extended protocol's two autocommitted executions.
Run(c) ==
  LET block == <<task[c].handle, sid[c]>>
  IN /\ At(c, "run")
     /\ \/ task[c].kind = "begin" /\ sessions' = sessions \cup {block}
        \/ task[c].kind = "sql" /\ sessions' \in {sessions, sessions \ {block}}
        \/ task[c].kind = "extended" /\ UNCHANGED sessions
     /\ Goto(c, Idle)
     /\ UNCHANGED <<loop, conn, sid, next_sid, db, disk, cache>>

\* CREATE DATABASE: an error if it is registered, else directory and catalog,
\* through an engine that is dropped again.
CreateDir(c) ==
  /\ At(c, "run") /\ task[c].kind = "create"
  /\ \/ task[c].name \in List /\ Goto(c, Idle) /\ UNCHANGED dirs
     \/ /\ task[c].name \notin List
        /\ dirs' = dirs \cup {task[c].name}
        /\ Goto(c, Then(c, "list"))
  /\ UNCHANGED <<loop, conn, sid, next_sid, db, registry, cache, sessions>>

\* DROP DATABASE: an error if it is not registered, else remove_dir_all.
RemoveDir(c) ==
  /\ At(c, "run") /\ task[c].kind = "drop"
  /\ \/ task[c].name \notin List /\ Goto(c, Idle) /\ UNCHANGED dirs
     \/ /\ task[c].name \in List
        /\ dirs' = dirs \ {task[c].name}
        /\ Goto(c, Then(c, "list"))
  /\ UNCHANGED <<loop, conn, sid, next_sid, db, registry, cache, sessions>>

\* Mutant: unregister leaves the entry.
EntriesKept(kind, d) == IF kind = "create" THEN List \cup {d} ELSE List

\* The entries register and unregister write
Entries(kind, d) == IF kind = "create" THEN List \cup {d} ELSE List \ {d}

\* register and unregister read the file ...
ReadRegistry(c) ==
  /\ At(c, "list")
  /\ Goto(c, Task("truncate", task[c].kind, task[c].name, task[c].handle,
                  Entries(task[c].kind, task[c].name)))
  /\ UNCHANGED <<loop, conn, sid, next_sid, db, disk, cache, sessions>>

\* ... and fs::write truncates it and writes it.
Truncate(c) ==
  /\ At(c, "truncate")
  /\ registry' = {}
  /\ Goto(c, Then(c, "save"))
  /\ UNCHANGED <<loop, conn, sid, next_sid, db, dirs, cache, sessions>>

Save(c) ==
  /\ At(c, "save")
  /\ registry' = task[c].listed
  /\ Goto(c, Idle)
  /\ UNCHANGED <<loop, conn, sid, next_sid, db, dirs, cache, sessions>>

Serve(c) ==
  \/ Lookup(c) \/ Exists(c) \/ OpenEngine(c) \/ Run(c)
  \/ CreateDir(c) \/ RemoveDir(c) \/ ReadRegistry(c) \/ Truncate(c) \/ Save(c)

AcceptLoop == Accept \/ Reject \/ Spawn \/ StopAccepting \/ Exit

Next ==
  \/ AcceptLoop \/ Signal
  \/ \E c \in Client :
       \/ Login(c) \/ Hangup(c) \/ FreeSlot(c) \/ Panic(c) \/ Request(c) \/ Serve(c)
       \/ \E d \in Names : Dial(c, d)

\* The runtime runs the accept loop and every task that can make progress.
Fairness ==
  /\ WF_vars(AcceptLoop)
  /\ \A c \in Client : WF_vars(Serve(c)) /\ WF_vars(FreeSlot(c))

Spec == Init /\ [][Next]_vars /\ Fairness

-----------------------------------------------------------------------------
(* Properties.                                                             *)

\* The types of the variables that hold more than a tag.
TypeOK ==
  /\ active \in 0..Cardinality(Client) + MaxPanic + 1
  /\ \A c \in Client : sid[c] < next_sid /\ task[c].handle \in 0..Len(opened)
  /\ registry \subseteq Names
  /\ dirs \subseteq Names
  /\ \A d \in Names : engines[d] # 0 => opened[engines[d]] = d
  /\ sessions \subseteq (1..Len(opened)) \X (1..MaxSid)

Served == {c \in Client : conn[c] \in {"startup", "ready", "ended"}}

\* active is the tasks that still owe a fetch_sub, those that panicked (whose
\* slot is lost for good), and the connection the accept loop has in hand; and
\* no more than max_connections clients are ever served.
SlotsAccounted ==
  /\ active = Cardinality(Served) + panicked + (IF phase = "decide" THEN 1 ELSE 0)
  /\ Cardinality(Served) <= max_connections

\* The connection counter counts the connections that hold a slot and the slots
\* lost to panics, and nothing else.
Accounted == TypeOK /\ SlotsAccounted

\* A block left open on the default database belongs to a client that is still
\* connected: Drop of the handler ends it however the connection ends.
DefaultBlocksHaveClient ==
  \A block \in sessions :
    block[1] = engines["icedb"] =>
      \E c \in Client : conn[c] \in {"startup", "ready"} /\ sid[c] = block[2]

\* With one client at a time doing DDL, a database the registry lists has its
\* directory, except while its own DROP is on the way: nobody opens an empty
\* database in place of one that was created.
RegisteredHasDirectory ==
  Cardinality(Admin) = 1 =>
    \A d \in List \ dirs :
      \E c \in Admin : task[c].kind = "drop" /\ task[c].name = d

-----------------------------------------------------------------------------
(* Why the invariants above hold: an inductive invariant.                  *)

Tasks == [pc : {"idle", "lookup", "exists", "open", "run", "list", "truncate", "save"},
          kind : {"none", "begin", "sql", "extended", "create", "drop"},
          name : Names, handle : Nat, listed : SUBSET Names]

StateOK ==
  /\ max_connections \in Nat /\ phase \in {"accept", "decide", "drain", "done"}
  /\ backlog \in Seq(Client) /\ active \in Int /\ current \in Int /\ panicked \in 0..MaxPanic
  /\ conn \in [Client -> {"off", "queued", "startup", "ready", "ended"}]
  /\ sid \in [Client -> Nat] /\ next_sid \in Nat \ {0} /\ db \in [Client -> Names]
  /\ task \in [Client -> Tasks]
  /\ registry \subseteq Names /\ dirs \subseteq Names
  /\ engines \in [Names -> Nat] /\ opened \in Seq(Names)
  /\ sessions \subseteq Nat \X Nat

\* The backlog holds each waiting client once, and enough session ids are left.
QueueInv ==
  /\ \A i \in DOMAIN backlog :
       conn[backlog[i]] = "queued" /\ \A j \in DOMAIN backlog : backlog[i] = backlog[j] => i = j
  /\ phase = "decide" => backlog # << >>
  /\ next_sid + Len(backlog) <= MaxSid + 1

\* What fetch_add returned is no less than the other connections are by now.
SlotInv == SlotsAccounted /\ (phase = "decide" => active <= current + 1)

\* Only a connection that is ready has a request, and a request that runs has an
\* engine; the default database's is always in the cache.
TaskInv ==
  \A c \in Client :
    /\ conn[c] # "ready" => task[c] = Idle
    /\ conn[c] \in {"startup", "ready", "ended"} => sid[c] # 0
    /\ sid[c] < next_sid
    /\ task[c].handle \in 0..Len(opened)
    /\ task[c].pc \in {"run", "list", "truncate", "save"} => task[c].handle # 0
    /\ task[c].pc \in {"exists", "open"} => Target(c) # "icedb"
    /\ task[c].pc \in {"list", "truncate", "save"} => task[c].kind \in {"create", "drop"}
    /\ task[c].kind \in {"create", "drop"} => c \in Admin /\ task[c].name \in Db

EngineInv ==
  /\ engines["icedb"] = 1 /\ Len(opened) >= 1
  /\ \A d \in Names : engines[d] # 0 => engines[d] <= Len(opened) /\ opened[engines[d]] = d

BlockInv == sessions \subseteq (1..Len(opened)) \X (1..MaxSid) /\ DefaultBlocksHaveClient

\* The DDL of the one administrator: between remove_dir_all and the registry's
\* new content only the dropped database is listed without its directory, and
\* what will be written back lists only what has one.
Dropping(c) ==
  IF task[c].kind = "drop" /\ task[c].pc \in {"list", "truncate", "save"} THEN {task[c].name} ELSE {}
DirInv ==
  Cardinality(Admin) = 1 =>
    \A c \in Admin :
      /\ List \subseteq dirs \cup Dropping(c)
      /\ task[c].pc \in {"list", "truncate", "save"} /\ task[c].kind = "create" => task[c].name \in dirs
      /\ task[c].pc \in {"truncate", "save"} => task[c].listed \subseteq dirs

ServerInv == StateOK /\ QueueInv /\ SlotInv /\ TaskInv /\ EngineInv /\ BlockInv /\ DirInv

-----------------------------------------------------------------------------
(* Liveness, and promises not kept.                                        *)

\* A client that connects gets a task or a rejection, unless the server is told
\* to stop first: the accept loop never gets stuck on the counter.
EveryoneAnswered ==
  \A c \in Client : conn[c] = "queued" ~> conn[c] # "queued" \/ signalled

\* SIGTERM ends the server whatever the clients do: neither a stream of
\* connections nor a slot lost to a panic keeps it from stopping.
ShutdownEnds == signalled ~> phase = "done"

\* One query engine per database: what the requests run on, and what open
\* blocks live in, is the engine in the cache.
OneEnginePerDatabase ==
  \A e \in {b[1] : b \in sessions} \cup {task[c].handle : c \in {k \in Client : task[k].pc = "run"}} :
    e = engines[opened[e]]

\* Every client's open block ends with its connection, on whatever database.
BlocksHaveClient ==
  \A block \in sessions : \E c \in Client : conn[c] # "off" /\ sid[c] = block[2]

=============================================================================
