------------------------- MODULE StoreProcesses_proofs -------------------------
(***************************************************************************)
(* Theorems about StoreProcesses for every set of processes, calls and     *)
(* releases: the schema is always a whole release, a process starts on its *)
(* own release only, and no call reads less than its server was made for.  *)
(***************************************************************************)
EXTENDS StoreProcesses, TLAPS

-----------------------------------------------------------------------------
(* The inductive invariant                                                 *)

\* What the open transaction has done: nothing recorded is lost, what is recorded is of the
\* writer's release once that has been validated, and the schema is at most one migration ahead.
TransactionOK ==
  \A p \in Commands : writer = p =>
    /\ db.applied \subseteq tx.applied
    /\ phase[p] = "validate" => tx.schema = tx.applied /\ tx.applied \in Releases \cup {{}}
    /\ phase[p] = "migrate" => tx.schema = tx.applied /\ tx.applied \subseteq release[p]
    /\ phase[p] = "record" =>
         /\ tx.applied \subseteq release[p]
         /\ \E m \in release[p] : NextMissing(p, m) /\ tx.schema = tx.applied \cup {m}

\* The server's migrations are all there while it serves, now and in what its calls see.
ServingOK ==
  /\ phase[Server] = "ready" => release[Server] \subseteq db.schema
  /\ \A c \in Calls : (view[c] # None) =>
       phase[Server] = "ready" /\ release[Server] \subseteq view[c].schema

IInv == TypeOK /\ WholeRelease /\ TransactionOK /\ ServingOK

-----------------------------------------------------------------------------
(* Releases and their migrations                                           *)

\* A recorded release, and only that, has the table schema_migrations.
LEMMA RecordedHasTable ==
  ASSUME NEW d, d.schema = d.applied, d.applied \in Releases \cup {{}}, ~TableExists(d)
  PROVE  d.applied = {}
BY StoreAssumption DEF TableExists

\* The next missing migration is one: versions of a release differ.
LEMMA NextMissingIsOne ==
  ASSUME NEW p, release[p] \in Releases, NEW m, NEW n, NextMissing(p, m), NextMissing(p, n)
  PROVE  m = n
<1>1. m \in release[p] /\ n \in release[p] /\ m.version <= n.version /\ n.version <= m.version
  BY DEF NextMissing, Missing
<1>2. m.version \in Nat /\ n.version \in Nat
  BY <1>1, StoreAssumption DEF Migrations
<1> QED
  BY <1>1, <1>2, StoreAssumption

\* Migrations of a release of which none is missing are that release.
LEMMA NothingMissing ==
  ASSUME NEW p, release[p] \in Releases, tx.applied \subseteq release[p], Missing(p) = {}
  PROVE  tx.applied = release[p]
<1> SUFFICES ASSUME NEW m \in release[p] PROVE m \in tx.applied
  OBVIOUS
<1>1. PICK n \in tx.applied : n.version = m.version
  BY DEF Missing
<1> QED
  BY <1>1, StoreAssumption

-----------------------------------------------------------------------------
(* Types                                                                   *)

\* Initially the variables have their types.
LEMMA InitTyped == Init => TypeOK
<1> SUFFICES ASSUME Init PROVE TypeOK
  OBVIOUS
<1>1. NoDatabase \in Databases
  BY DEF NoDatabase, Databases
<1> QED
  BY <1>1, StoreAssumption DEF Init, TypeOK, Processes

\* Starting and stopping a process keep the types.
LEMMA ProcessTyped ==
  ASSUME TypeOK, NEW p \in Processes,
         Start(p) \/ Stop(p)
  PROVE  TypeOK'
<1>1. CASE Start(p)
  BY <1>1, StoreAssumption DEF TypeOK, Start, Goto, database, serving, Processes
<1>2. CASE Stop(p)
  BY <1>2, StoreAssumption DEF TypeOK, Stop, serving, Processes
<1> QED
  BY <1>1, <1>2

\* The steps of a command keep the types, and the writer is whoever is in the transaction.
LEMMA CommandTyped ==
  ASSUME TypeOK, NEW p \in Commands,
         \/ Connect(p)
         \/ BeginExclusive(p)
         \/ ValidateApplied(p)
         \/ ApplyMigration(p)
         \/ RecordMigration(p)
         \/ CommitMigrations(p)
  PROVE  TypeOK'
<1> USE StoreAssumption DEF TypeOK, Goto, Processes, serving
<1>1. release[p] \subseteq Migrations
  BY DEF Migrations
<1>2. CASE Connect(p)
  BY <1>2 DEF Connect, Databases
<1>3. CASE BeginExclusive(p)
  BY <1>3 DEF BeginExclusive
<1>4. CASE ValidateApplied(p)
  BY <1>4 DEF ValidateApplied, database
<1>5. CASE ApplyMigration(p)
  BY <1>1, <1>5 DEF ApplyMigration, Databases
<1>6. CASE RecordMigration(p)
  BY <1>1, <1>6 DEF RecordMigration, Databases
<1>7. CASE CommitMigrations(p)
  BY <1>7 DEF CommitMigrations
<1> QED
  BY <1>2, <1>3, <1>4, <1>5, <1>6, <1>7

\* The steps of the server and of its calls keep the types.
LEMMA ServerTyped ==
  ASSUME TypeOK, CheckTable \/ ValidateAppliedExact \/ \E c \in Calls : CallStep(c)
  PROVE  TypeOK'
<1> USE StoreAssumption DEF TypeOK, Processes
<1>1. CASE CheckTable
  BY <1>1 DEF CheckTable, Goto, database, serving
<1>2. CASE ValidateAppliedExact
  BY <1>2 DEF ValidateAppliedExact, Goto, database, serving
<1>3. ASSUME NEW c \in Calls, CallStep(c)
      PROVE  TypeOK'
  BY <1>3 DEF CallStep, Receive, OpenReader, Read, CloseReader, Respond, FailCall, Expire,
              Turn, Released, database
<1> QED
  BY <1>1, <1>2, <1>3

\* Every step keeps the types.
LEMMA StepTyped == TypeOK /\ [Next]_vars => TypeOK'
<1> SUFFICES ASSUME TypeOK, [Next]_vars PROVE TypeOK'
  OBVIOUS
<1>1. CASE UNCHANGED vars
  BY <1>1 DEF vars, TypeOK
<1>2. CASE Next
  BY <1>2, ProcessTyped, CommandTyped, ServerTyped DEF Next
<1> QED
  BY <1>1, <1>2

-----------------------------------------------------------------------------
(* The schema, the transaction and the server                              *)

\* There is nothing before the first command.
LEMMA InitInv == Init => IInv
<1> SUFFICES ASSUME Init PROVE IInv
  OBVIOUS
<1>1. WholeRelease
  BY DEF Init, NoDatabase, WholeRelease
<1>2. TransactionOK
  BY StoreAssumption DEF Init, TransactionOK
<1>3. ServingOK
  BY DEF Init, ServingOK, Processes
<1> QED
  BY <1>1, <1>2, <1>3, InitTyped DEF IInv

\* A process that comes or goes leaves the database, and takes its own work with it.
LEMMA ProcessInv ==
  ASSUME IInv, NEW p \in Processes, Start(p) \/ Stop(p)
  PROVE  (WholeRelease /\ TransactionOK /\ ServingOK)'
<1> USE StoreAssumption DEF IInv, TypeOK, Processes
<1>1. CASE Start(p)
  <2> USE <1>1 DEF Start, Goto, database, serving
  <2>1. WholeRelease'
    BY DEF WholeRelease
  <2>2. ASSUME NEW q \in Commands, writer' = q
        PROVE  writer = q /\ q # p /\ phase'[q] = phase[q] /\ release'[q] = release[q]
    BY <2>2
  <2>3. TransactionOK'
    BY <2>2 DEF TransactionOK, NextMissing, Missing
  <2>4. ServingOK'
    BY DEF ServingOK
  <2> QED
    BY <2>1, <2>3, <2>4
<1>2. CASE Stop(p)
  <2> USE <1>2 DEF Stop, serving
  <2>1. WholeRelease'
    BY DEF WholeRelease
  <2>2. ASSUME NEW q \in Commands, writer' = q
        PROVE  writer = q /\ q # p /\ phase'[q] = phase[q]
    BY <2>2
  <2>3. TransactionOK'
    BY <2>2 DEF TransactionOK, NextMissing, Missing
  <2>4. ServingOK'
    BY DEF ServingOK
  <2> QED
    BY <2>1, <2>3, <2>4
<1> QED
  BY <1>1, <1>2

\* What a commit leaves: the writer's release, all of it, and all that was there before.
LEMMA CommitIsRelease ==
  ASSUME IInv, NEW p \in Commands, CommitMigrations(p)
  PROVE  /\ db'.applied = release[p] /\ db'.schema = release[p]
         /\ release[p] \in Releases
         /\ db.schema \subseteq db'.schema
<1>1. writer = p /\ phase[p] = "migrate" /\ release[p] \in Releases
  BY DEF IInv, TypeOK, CommitMigrations, Goto, Processes
<1>2. tx.schema = tx.applied /\ tx.applied \subseteq release[p] /\ db.applied \subseteq tx.applied
  BY <1>1 DEF IInv, TransactionOK
<1>3. tx.applied = release[p]
  BY <1>1, <1>2, NothingMissing DEF CommitMigrations
<1> QED
  BY <1>1, <1>2, <1>3 DEF CommitMigrations, IInv, WholeRelease

\* The steps of a command.
LEMMA CommandInv ==
  ASSUME IInv, TypeOK', NEW p \in Commands,
         \/ Connect(p)
         \/ BeginExclusive(p)
         \/ ValidateApplied(p)
         \/ ApplyMigration(p)
         \/ RecordMigration(p)
         \/ CommitMigrations(p)
  PROVE  (WholeRelease /\ TransactionOK /\ ServingOK)'
<1> USE StoreAssumption DEF Goto, Processes, serving
<1>t. TypeOK /\ WholeRelease /\ TransactionOK /\ ServingOK
  BY DEF IInv
<1>r. release[p] \in Releases
  BY <1>t DEF TypeOK
<1>1. CASE Connect(p)
  <2>1. db'.schema = db.schema /\ db'.applied = db.applied
    BY <1>1, <1>t DEF Connect, TypeOK, Databases
  <2>2. \A q \in Commands : writer' = q => writer = q /\ phase'[q] = phase[q]
    BY <1>1, <1>t DEF Connect, TypeOK
  <2>3. phase'[Server] = phase[Server]
    BY <1>1, <1>t DEF Connect, TypeOK
  <2> QED
    BY <1>1, <1>t, <2>1, <2>2, <2>3
       DEF Connect, WholeRelease, TransactionOK, ServingOK, NextMissing, Missing
<1>2. CASE BeginExclusive(p)
  <2>1. phase'[p] = "validate" /\ phase'[Server] = phase[Server]
    BY <1>2, <1>t DEF BeginExclusive, TypeOK
  <2> QED
    BY <1>2, <1>t, <2>1 DEF BeginExclusive, WholeRelease, TransactionOK, ServingOK
<1>3. CASE ValidateApplied(p)
  <2>1. phase[p] = "validate" /\ phase'[p] = "migrate" /\ phase'[Server] = phase[Server]
    BY <1>3, <1>t DEF ValidateApplied, TypeOK
  <2>2. writer = p
    BY <1>t, <2>1 DEF TypeOK
  <2>3. tx.schema = tx.applied /\ tx.applied \in Releases \cup {{}}
    BY <1>t, <2>1, <2>2 DEF TransactionOK
  <2>4. tx.applied \subseteq release[p]
    BY <1>3, <2>3, RecordedHasTable DEF ValidateApplied, Known
  <2> QED
    BY <1>3, <1>t, <2>1, <2>2, <2>3, <2>4
       DEF ValidateApplied, database, WholeRelease, TransactionOK, ServingOK
<1>4. CASE ApplyMigration(p)
  <2>1. phase[p] = "migrate" /\ phase'[p] = "record" /\ phase'[Server] = phase[Server]
    BY <1>4, <1>t DEF ApplyMigration, TypeOK
  <2>2. writer = p
    BY <1>t, <2>1 DEF TypeOK
  <2>3. tx.schema = tx.applied /\ tx.applied \subseteq release[p]
    BY <1>t, <2>1, <2>2 DEF TransactionOK
  <2>4. PICK m \in release[p] :
          NextMissing(p, m) /\ tx' = [tx EXCEPT !.schema = @ \cup {m}]
    BY <1>4 DEF ApplyMigration
  <2>5. tx'.applied = tx.applied /\ tx'.schema = tx.schema \cup {m}
    BY <1>t, <2>4 DEF TypeOK, Databases
  <2>6. NextMissing(p, m)'
    BY <1>4, <2>4, <2>5 DEF ApplyMigration, NextMissing, Missing
  <2> QED
    BY <1>4, <1>t, <2>1, <2>2, <2>3, <2>4, <2>5, <2>6
       DEF ApplyMigration, WholeRelease, TransactionOK, ServingOK
<1>5. CASE RecordMigration(p)
  <2>1. phase[p] = "record" /\ phase'[p] = "migrate" /\ phase'[Server] = phase[Server]
    BY <1>5, <1>t DEF RecordMigration, TypeOK
  <2>2. writer = p
    BY <1>t, <2>1 DEF TypeOK
  <2>3. tx.applied \subseteq release[p]
    BY <1>t, <2>1, <2>2 DEF TransactionOK
  <2>4. PICK m \in release[p] : NextMissing(p, m) /\ tx.schema = tx.applied \cup {m}
    BY <1>t, <2>1, <2>2 DEF TransactionOK
  <2>5. PICK n \in release[p] :
          NextMissing(p, n) /\ tx' = [tx EXCEPT !.applied = @ \cup {n}]
    BY <1>5 DEF RecordMigration
  <2>6. m = n
    BY <1>r, <2>4, <2>5, NextMissingIsOne
  <2>7. tx'.schema = tx.schema /\ tx'.applied = tx.applied \cup {m}
    BY <1>t, <2>5, <2>6 DEF TypeOK, Databases
  <2> QED
    BY <1>5, <1>t, <2>1, <2>2, <2>3, <2>4, <2>7
       DEF RecordMigration, WholeRelease, TransactionOK, ServingOK
<1>6. CASE CommitMigrations(p)
  <2>1. db'.applied = release[p] /\ db'.schema = release[p] /\ db.schema \subseteq db'.schema
    BY <1>6, CommitIsRelease
  <2>2. phase'[Server] = phase[Server] /\ writer' = None /\ release' = release /\ view' = view
    BY <1>6, <1>t DEF CommitMigrations, TypeOK
  <2>3. WholeRelease'
    BY <1>r, <2>1 DEF WholeRelease
  <2>4. TransactionOK'
    BY <2>2 DEF TransactionOK
  <2>5. ServingOK'
    BY <1>t, <2>1, <2>2 DEF ServingOK
  <2> QED
    BY <2>3, <2>4, <2>5
<1> QED
  BY <1>1, <1>2, <1>3, <1>4, <1>5, <1>6

\* The server and its calls change neither the database nor the transaction.
LEMMA ServerInv ==
  ASSUME IInv, CheckTable \/ ValidateAppliedExact \/ \E c \in Calls : CallStep(c)
  PROVE  (WholeRelease /\ TransactionOK /\ ServingOK)'
<1> USE StoreAssumption DEF Processes
<1>t. TypeOK /\ WholeRelease /\ TransactionOK /\ ServingOK
  BY DEF IInv
<1>1. /\ UNCHANGED <<database, release>>
      /\ \A p \in Commands : phase'[p] = phase[p]
  BY <1>t DEF CheckTable, ValidateAppliedExact, CallStep, Receive, OpenReader, Read, CloseReader,
              Respond, FailCall, Expire, Turn, Goto, TypeOK
<1>2. WholeRelease' /\ TransactionOK'
  BY <1>1, <1>t DEF database, WholeRelease, TransactionOK, NextMissing, Missing
<1>3. ASSUME CheckTable PROVE ServingOK'
  BY <1>3, <1>t DEF CheckTable, Goto, serving, database, ServingOK, TypeOK
<1>4. ASSUME ValidateAppliedExact PROVE ServingOK'
  BY <1>4, <1>t
     DEF ValidateAppliedExact, Exact, Goto, serving, database, ServingOK, TypeOK, WholeRelease
<1>5. ASSUME NEW c \in Calls, CallStep(c)
      PROVE  ServingOK'
  <2>1. /\ phase[Server] = "ready" /\ UNCHANGED <<database, phase, release>>
        /\ \/ view' = view
           \/ view' = [view EXCEPT ![c] = db]
           \/ view' = [view EXCEPT ![c] = None]
    BY <1>5 DEF CallStep, Receive, OpenReader, Read, CloseReader, Respond, FailCall, Expire,
                Turn, Released
  <2> QED
    BY <1>t, <2>1 DEF ServingOK, TypeOK, database
<1> QED
  BY <1>2, <1>3, <1>4, <1>5

\* Every step keeps the invariant.
LEMMA StepInv == IInv /\ [Next]_vars => IInv'
<1> SUFFICES ASSUME IInv, [Next]_vars PROVE IInv'
  OBVIOUS
<1>1. TypeOK'
  BY StepTyped DEF IInv
<1>2. CASE UNCHANGED vars
  BY <1>2 DEF vars, IInv, TypeOK, WholeRelease, TransactionOK, ServingOK, NextMissing, Missing
<1>3. CASE Next
  BY <1>1, <1>3, ProcessInv, CommandInv, ServerInv DEF Next, IInv
<1> QED
  BY <1>2, <1>3

LEMMA Invariance == Spec => []IInv
BY InitInv, StepInv, PTL DEF Spec

-----------------------------------------------------------------------------
(* Theorems                                                                *)

\* The variables keep their types, and at most one command is in its transaction
\* (BEGIN EXCLUSIVE in applyMigrations).
THEOREM TypeCorrect == Spec => []TypeOK
<1>1. IInv => TypeOK
  BY DEF IInv
<1> QED
  BY <1>1, Invariance, PTL

\* Whoever migrates, fails or dies, the schema is a whole release and what
\* schema_migrations says of it (applyMigrations).
THEOREM SchemaIsWhole == Spec => []WholeRelease
<1>1. IInv => WholeRelease
  BY DEF IInv
<1> QED
  BY <1>1, Invariance, PTL

\* A call of the server never reads less than the migrations of its release, though it does
\* not validate again (BeginReadSnapshot, validateAppliedExact).
THEOREM NothingIsMissed == Spec => []ServedSchemaCovers
<1>1. IInv => ServedSchemaCovers
  BY DEF IInv, ServingOK, ServedSchemaCovers
<1> QED
  BY <1>1, Invariance, PTL

\* A process begins its work on its own release only (applyMigrations,
\* validateReadOnlySchema).
THEOREM StartsOnItsRelease == Spec => StartedIsCurrent
<1> DEFINE Started == \A p \in Processes :
             (phase[p] # "ready" /\ phase'[p] = "ready")
             => (db'.applied = release[p] /\ db'.schema = release[p])
<1>1. ASSUME IInv, Next, NEW p \in Processes, phase[p] # "ready", phase'[p] = "ready"
      PROVE  db'.applied = release[p] /\ db'.schema = release[p]
  <2> USE StoreAssumption DEF Processes, Goto
  <2>t. TypeOK
    BY <1>1 DEF IInv
  <2>1. \/ p \in Commands /\ CommitMigrations(p)
        \/ p = Server /\ ValidateAppliedExact
    BY <1>1, <2>t
       DEF Next, TypeOK, Start, Stop, Connect, BeginExclusive, ValidateApplied,
           ApplyMigration, RecordMigration, CommitMigrations, CheckTable, ValidateAppliedExact,
           CallStep, Receive, OpenReader, Read, CloseReader, Respond, FailCall, Expire, Turn
  <2>2. CASE p \in Commands /\ CommitMigrations(p)
    BY <1>1, <2>2, CommitIsRelease
  <2>3. CASE p = Server /\ ValidateAppliedExact
    BY <1>1, <2>3 DEF ValidateAppliedExact, Exact, database, IInv, WholeRelease
  <2> QED
    BY <2>1, <2>2, <2>3
<1>2. IInv /\ [Next]_vars => [Started]_vars
  BY <1>1
<1> QED
  BY <1>2, Invariance, PTL DEF Spec, StartedIsCurrent
===============================================================================
