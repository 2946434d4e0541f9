----------------------------- MODULE StoreProcesses -----------------------------
(***************************************************************************)
(* The processes on one database: commands that open it for writing, and   *)
(* bring its schema up to their own release first, and an MCP server that  *)
(* opens it read-only and gives each of its calls a snapshot.  Processes   *)
(* may be of different releases, fail, die and be started again.  In WAL   *)
(* mode the one writer and the readers do not exclude each other.          *)
(***************************************************************************)
EXTENDS Integers

CONSTANTS None,
          Commands,    \* processes that write
          Server,      \* the MCP server
          Calls,       \* tool calls it may be given at once
          Foundation,  \* the version of the migration that creates schema_migrations
          Releases     \* the migrations embedded in each release

Processes == Commands \cup {Server}

\* A migration has a version; its name and its checksum make it what it is.
Migrations == UNION Releases

ASSUME StoreAssumption ==
  /\ Server \notin Commands
  /\ None \notin Commands
  /\ None \notin Calls
  /\ \A m \in Migrations : m.version \in Nat
  /\ \A r \in Releases :
       /\ \E m \in r : m.version = Foundation /\ \A n \in r : m.version <= n.version
       /\ \A m, n \in r : m.version = n.version => m = n

VARIABLES db,         \* the database: the file, the rows of schema_migrations, the schema
          writer,     \* the command in an exclusive transaction, or None
          tx,         \* the database as that transaction sees it
          phase,      \* where each process is
          release,    \* the release each of them runs
          call,       \* where each call of the server is
          connection, \* the call that has the one connection of the server, or None
          view        \* the snapshot of each call, None before its first read
vars == <<db, writer, tx, phase, release, call, connection, view>>

database == <<db, writer, tx>>
serving  == <<call, connection, view>>

NoDatabase == [file |-> FALSE, applied |-> {}, schema |-> {}]

Init ==
  /\ db = NoDatabase
  /\ writer = None
  /\ tx = NoDatabase
  /\ phase = [p \in Processes |-> "off"]
  /\ release \in [Processes -> Releases]
  /\ call = [c \in Calls |-> "idle"]
  /\ connection = None
  /\ view = [c \in Calls |-> None]

Goto(p, from, to) ==
  /\ phase[p] = from
  /\ phase' = [phase EXCEPT ![p] = to]

\* Somebody starts a process, of any release.
Start(p) ==
  /\ Goto(p, "off", "open")
  /\ \E r \in Releases : release' = [release EXCEPT ![p] = r]
  /\ UNCHANGED <<database, serving>>

TableExists(d) == \E m \in d.schema : m.version = Foundation

-----------------------------------------------------------------------------
(* Open: the command brings the schema up to its release                   *)

\* The connection creates the file, and journal_mode is set.
Connect(p) ==
  /\ p \in Commands
  /\ Goto(p, "open", "begin")
  /\ db' = [db EXCEPT !.file = TRUE]
  /\ UNCHANGED <<writer, tx, release, serving>>

\* Wrong variant: a deferred transaction, which two processes may begin.
BeginDeferred(p) ==
  /\ p \in Commands
  /\ Goto(p, "begin", "validate")
  /\ writer' = p
  /\ tx' = db
  /\ UNCHANGED <<db, release, serving>>

\* BEGIN EXCLUSIVE waits for another writer, or fails.
BeginExclusive(p) ==
  /\ p \in Commands
  /\ Goto(p, "begin", "validate")
  /\ writer = None
  /\ writer' = p
  /\ tx' = db
  /\ UNCHANGED <<db, release, serving>>

\* Wrong variant: an applied migration is known by its version alone.
KnownByVersion(r) == \A m \in tx.applied : \E n \in r : n.version = m.version

\* Every applied migration is one of the release, by its version, name and checksum.
Known(r) == tx.applied \subseteq r

ValidateApplied(p) ==
  /\ Goto(p, "validate", "migrate")
  /\ TableExists(tx) => Known(release[p])
  /\ UNCHANGED <<database, release, serving>>

\* The migrations of the release whose version is not recorded.
Missing(p) ==
  {m \in release[p] : \A n \in tx.applied : n.version # m.version}

NextMissing(p, m) ==
  /\ m \in Missing(p)
  /\ \A n \in Missing(p) : m.version <= n.version

\* One turn of the loop that executes the SQL; it fails when it was executed before.
ApplyMigration(p) ==
  /\ Goto(p, "migrate", "record")
  /\ \E m \in release[p] :
       /\ NextMissing(p, m)
       /\ m \notin tx.schema
       /\ tx' = [tx EXCEPT !.schema = @ \cup {m}]
  /\ UNCHANGED <<db, writer, release, serving>>

\* Wrong variant: each migration is committed when it has been recorded.
RecordAndCommit(p) ==
  /\ Goto(p, "record", "migrate")
  /\ \E m \in release[p] : NextMissing(p, m) /\ tx' = [tx EXCEPT !.applied = @ \cup {m}]
  /\ db' = tx'
  /\ UNCHANGED <<writer, release, serving>>

\* The rest of the turn, after which the table exists.
RecordMigration(p) ==
  /\ Goto(p, "record", "migrate")
  /\ TableExists(tx)
  /\ \E m \in release[p] : NextMissing(p, m) /\ tx' = [tx EXCEPT !.applied = @ \cup {m}]
  /\ UNCHANGED <<db, writer, release, serving>>

CommitMigrations(p) ==
  /\ Goto(p, "migrate", "ready")
  /\ Missing(p) = {}
  /\ db' = tx
  /\ writer' = None
  /\ UNCHANGED <<tx, release, serving>>

-----------------------------------------------------------------------------
(* OpenReadOnly: the server looks, by two statements in no transaction     *)

CheckTable ==
  /\ Goto(Server, "open", "validate")
  /\ db.file /\ TableExists(db)
  /\ UNCHANGED <<database, release, serving>>

\* Wrong variant: an incomplete schema is good enough for a reader.
ExactButIncomplete(r) == db.applied \subseteq r

Exact(r) == db.applied = r

ValidateAppliedExact ==
  /\ Goto(Server, "validate", "ready")
  /\ Exact(release[Server])
  /\ UNCHANGED <<database, release, serving>>

-----------------------------------------------------------------------------
(* The calls of the server                                                 *)

Turn(c, from, to) ==
  /\ phase[Server] = "ready"
  /\ call[c] = from
  /\ call' = [call EXCEPT ![c] = to]
  /\ UNCHANGED <<database, phase, release>>

\* A call with valid input; its deadline of thirty seconds begins.
Receive(c) == Turn(c, "idle", "wait") /\ UNCHANGED <<connection, view>>

\* BeginReadSnapshot: the pool has one connection, and the transaction is deferred.
OpenReader(c) ==
  /\ Turn(c, "wait", "read")
  /\ connection = None
  /\ connection' = c
  /\ UNCHANGED view

\* The first statement fixes the snapshot, and the others read the same.
Read(c) ==
  /\ Turn(c, "read", "read")
  /\ view[c] = None
  /\ view' = [view EXCEPT ![c] = db]
  /\ UNCHANGED connection

\* closeReader, or the rollback that the end of the call's context brings.
Released(c) ==
  /\ connection' = IF connection = c THEN None ELSE connection
  /\ view' = [view EXCEPT ![c] = None]

\* The reader is closed before the result is rendered.
CloseReader(c) ==
  /\ Turn(c, "read", "render")
  /\ view[c] # None
  /\ Released(c)

\* The output is built and is small enough, or the call fails.
Respond(c) == Turn(c, "render", "idle") /\ UNCHANGED <<connection, view>>

\* Wrong variant: a query that fails leaves the reader open.
FailLeavingReader(c) ==
  /\ Turn(c, "read", "idle")
  /\ view' = [view EXCEPT ![c] = None]
  /\ UNCHANGED connection

\* A query fails; the deferred function closes the reader.
FailCall(c) == Turn(c, "read", "idle") /\ Released(c)

\* The deadline, or the client gives the call up.
Expire(c) ==
  /\ Turn(c, call[c], "idle")
  /\ call[c] \in {"wait", "read"}
  /\ Released(c)

-----------------------------------------------------------------------------
\* An error, a crash or the normal end.  SQLite drops the transaction of a process that is
\* gone, and a server takes its calls with it.
Stop(p) ==
  /\ phase[p] # "off"
  /\ phase' = [phase EXCEPT ![p] = "off"]
  /\ writer' = IF writer = p THEN None ELSE writer
  /\ IF p = Server
     THEN /\ call' = [c \in Calls |-> "idle"]
          /\ connection' = None
          /\ view' = [c \in Calls |-> None]
     ELSE UNCHANGED serving
  /\ UNCHANGED <<db, tx, release>>

CallStep(c) ==
  Receive(c) \/ OpenReader(c) \/ Read(c) \/ CloseReader(c) \/ Respond(c) \/ FailCall(c) \/ Expire(c)

Next ==
  \/ \E p \in Processes : Start(p) \/ Stop(p)
  \/ \E p \in Commands :
       \/ Connect(p)
       \/ BeginExclusive(p)
       \/ ValidateApplied(p)
       \/ ApplyMigration(p)
       \/ RecordMigration(p)
       \/ CommitMigrations(p)
  \/ CheckTable
  \/ ValidateAppliedExact
  \/ \E c \in Calls : CallStep(c)

(***************************************************************************)
(* The timer of a call fires, and what has been read is rendered.  Nothing *)
(* is assumed of queries, which may take any time.                         *)
(***************************************************************************)
Fairness == \A c \in Calls : WF_vars(Expire(c)) /\ WF_vars(Respond(c))

Spec == Init /\ [][Next]_vars /\ Fairness

-----------------------------------------------------------------------------
(* Properties                                                              *)

Databases == [file : BOOLEAN, applied : SUBSET Migrations, schema : SUBSET Migrations]

\* The values of the variables; a command in its transaction is the writer.
TypeOK ==
  /\ db \in Databases /\ tx \in Databases
  /\ writer \in Commands \cup {None}
  /\ phase \in [Processes -> {"off", "open", "begin", "validate", "migrate", "record", "ready"}]
  /\ release \in [Processes -> Releases]
  /\ \A p \in Commands : phase[p] \in {"validate", "migrate", "record"} <=> writer = p
  /\ call \in [Calls -> {"idle", "wait", "read", "render"}]
  /\ connection \in Calls \cup {None}
  /\ view \in [Calls -> Databases \cup {None}]

\* Whatever processes open the database, die and try again: its schema is what
\* schema_migrations says, and that is a whole release, never something between two.
WholeRelease ==
  /\ db.schema = db.applied
  /\ db.applied \in Releases \cup {{}}

\* A process begins its work only if the schema is exactly that of its release, at the end of
\* its checks: a command has brought it there and nobody has been faster, and a server of
\* another release, or on an incomplete schema, is refused.
StartedIsCurrent ==
  [][\A p \in Processes :
       (phase[p] # "ready" /\ phase'[p] = "ready")
       => (db'.applied = release[p] /\ db'.schema = release[p])]_vars

\* A call ends, with its reader closed, though a query may hang or fail and another call may
\* have the connection.
CallsEnd ==
  \A c \in Calls : [](call[c] # "idle" => <>(call[c] = "idle" /\ connection # c))

\* A call of the server reads a schema that has all the migrations of its release, though it
\* was validated before the first call and commands of other releases have come and gone.
ServedSchemaCovers ==
  \A c \in Calls : (view[c] # None) => (release[Server] \subseteq view[c].schema)
===============================================================================
