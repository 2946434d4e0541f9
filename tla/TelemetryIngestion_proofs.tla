---- MODULE TelemetryIngestion_proofs ----
(***************************************************************************)
(* Proofs about the telemetry store of TelemetryIngestion.                 *)
(*                                                                         *)
(* The invariant TInv says what every table is made of: the committed ones *)
(* of all the captures and runtime facts that were committed, and, while a *)
(* transaction is open, each table of the database of those and of the     *)
(* capture being saved once its own write has run, of those alone before.  *)
(* A row of services or dependencies is tied to the very captures that     *)
(* name it, and to the runtime facts about it: its first and last seen are *)
(* the ends of the least interval that covers them, its name is the least  *)
(* of those that the latest of them give.  From it follow that a capture   *)
(* is in all the tables or in none, that every row is what the facts say   *)
(* whatever the order they came in, and that a window is not replaced.     *)
(***************************************************************************)
EXTENDS TelemetryIngestion, TLAPS

-----------------------------------------------------------------------------
(* What a set of captures C, and a set of runtime facts F, make of the     *)
(* tables                                                                  *)

Fields == {"services", "dependencies"}

NamingIn(C, field, k) == {c \in C : c.environment = k[1] /\ k[2] \in DOMAIN c[field]}

SeeingIn(C, k) == {c \in C : c.environment = k[1] /\ k[2] \in c.endpoints}

TimesIn(F, k) == {f.at : f \in {g \in F : <<g.environment, g.service>> = k}}

Latest(row, N) == {c \in N : c.end = row.last}

\* A name is the least of those the latest captures in N give, or, if a runtime snapshot was
\* as late, its name or one of theirs.
NameOK(row, N, T, field, k) ==
  IF row.last \in T
  THEN row.name = RuntimeName[k[2]] \/ \E c \in Latest(row, N) : c[field][k[2]] = row.name
  ELSE IsLeastName(row.name, Latest(row, N), field, k)

RowOK(row, N, T, field, k) ==
  row \in NamedRow /\ IsSpan(row, Ends(N) \cup T) /\ NameOK(row, N, T, field, k)

KeysOf(C, field) == UNION {{c.environment} \X DOMAIN c[field] : c \in C}

NamedOK(rows, C, F, field) ==
  /\ DOMAIN rows = KeysOf(C, field) \cup {<<f.environment, f.service>> : f \in F}
  /\ \A k \in DOMAIN rows : RowOK(rows[k], NamingIn(C, field, k), TimesIn(F, k), field, k)

EndpointsOf(C) == UNION {{c.environment} \X c.endpoints : c \in C}

SeenOK(rows, C) ==
  /\ DOMAIN rows = EndpointsOf(C)
  /\ \A k \in DOMAIN rows : rows[k] \in SeenRow /\ IsSpan(rows[k], Ends(SeeingIn(C, k)))

Tables == {"sources", "ingestions", "services", "endpoints", "dependencies", "evidence",
           "observations", "windows"}

IngestedOK(d, C) ==
  /\ DOMAIN d = Tables
  /\ DOMAIN d.sources = {c.source : c \in C} /\ \A k \in DOMAIN d.sources : d.sources[k] \in Times
  /\ DOMAIN d.ingestions = {IngestionKey(c) : c \in C}
  /\ \A c \in C : d.ingestions[IngestionKey(c)] = c.hash

EvidenceOf(C) == UNION {Rows(c, c.evidence) : c \in C}

ObservationsOf(C) == UNION {Rows(c, c.edges) : c \in C}

WindowsOf(C) == UNION {Rows(c, c.aggregates) : c \in C}

-----------------------------------------------------------------------------
(* The invariant                                                           *)

\* The capture that the open transaction adds is not one that was committed.
New == saving # None /\ IngestionKey(saving) \notin DOMAIN committed.ingestions

\* The captures of which a table has rows, when it is written before the steps given.
Stored(steps) ==
  IF New /\ step \in steps THEN history.captures \cup {saving} ELSE history.captures

Begun == {"services", "endpoints", "dependencies", "evidence", "observations", "windows", "commit"}

\* Only valid captures are saved, one of each window.
AcceptedOK ==
  /\ history \in [captures : SUBSET Captures, runtime : SUBSET RuntimeFacts]
  /\ \A c \in history.captures : validateTelemetrySnapshot(c)
  /\ \A c, d \in history.captures : IngestionKey(c) = IngestionKey(d) => c = d

\* A transaction for a capture already there has written nothing, and knows whether it is the
\* same.
StageOK ==
  /\ saving \in Captures \cup {None}
  /\ saving # None => validateTelemetrySnapshot(saving)
  /\ New => step \in Begun
  /\ ~New => db = committed
  /\ (saving # None /\ ~New) =>
       LET there == committed.ingestions[IngestionKey(saving)]
       IN  IF there = saving.hash THEN step = "commit" ELSE step = "conflict"

\* The committed tables are those of the history.
CommittedOK ==
  /\ IngestedOK(committed, history.captures)
  /\ NamedOK(committed.services, history.captures, history.runtime, "services")
  /\ SeenOK(committed.endpoints, history.captures)
  /\ NamedOK(committed.dependencies, history.captures, {}, "dependencies")
  /\ committed.evidence = EvidenceOf(history.captures)
  /\ committed.observations = ObservationsOf(history.captures)
  /\ committed.windows = WindowsOf(history.captures)

\* A table that the open transaction has written is that of the history and the capture, the
\* others are still those of the history.
OpenOK ==
  /\ IngestedOK(db, Stored(Begun))
  /\ NamedOK(db.services, Stored(Begun \ {"services"}), history.runtime, "services")
  /\ SeenOK(db.endpoints, Stored(Begun \ {"services", "endpoints"}))
  /\ NamedOK(db.dependencies, Stored({"evidence", "observations", "windows", "commit"}), {},
             "dependencies")
  /\ db.evidence = EvidenceOf(Stored({"observations", "windows", "commit"}))
  /\ db.observations = ObservationsOf(Stored({"windows", "commit"}))
  /\ db.windows = WindowsOf(Stored({"commit"}))

TInv == AcceptedOK /\ StageOK /\ CommittedOK /\ OpenOK

-----------------------------------------------------------------------------
(* One row                                                                 *)

\* The constants of the store.
LEMMA TelemetryFacts ==
  /\ Times \subseteq Int /\ Names \subseteq Int
  /\ RuntimeName \in [Services -> Names]
  /\ \A d \in Dependencies : d = [kind |-> d.kind, key |-> d.key]
  /\ \A f \in RuntimeFacts : f.environment \in Environments /\ f.service \in Services
                             /\ f.at \in Times
  /\ None \notin Captures /\ None \notin Operations /\ None \notin Services
  /\ \A c \in Captures :
       /\ c.source \in Sources /\ c.hash \in Hashes /\ c.environment \in Environments
       /\ c.end \in Times /\ c.observedAt \in Times
       /\ c.endpoints \subseteq Services \X Operations
       /\ c.aggregates \subseteq Services \X (Operations \cup {None})
       /\ c.edges \subseteq Edges
BY TelemetryAssumption

\* What a capture names, it gives a name.
LEMMA NamesAre ==
  ASSUME NEW c \in Captures, NEW field \in Fields
  PROVE  /\ c[field] \in [DOMAIN c[field] -> Names]
         /\ field = "services" => DOMAIN c[field] \subseteq Services
         /\ field = "dependencies" => DOMAIN c[field] \subseteq Dependencies
<1>1. PICK S \in SUBSET Services : c.services \in [S -> Names]
  BY TelemetryAssumption
<1>2. PICK D \in SUBSET Dependencies : c.dependencies \in [D -> Names]
  BY TelemetryAssumption
<1>3. CASE field = "services"
  BY <1>1, <1>3
<1>4. CASE field = "dependencies"
  BY <1>2, <1>4
<1> QED BY <1>3, <1>4 DEF Fields

\* First and last seen after one more instant.
LEMMA SpanGrows ==
  ASSUME NEW row, row.first \in Int, row.last \in Int, NEW T \in SUBSET Int, NEW at \in Int,
         IsSpan(row, T), NEW new, new.first = Least(row.first, at),
         new.last = Greatest(row.last, at)
  PROVE  IsSpan(new, T \cup {at})
<1>1. /\ row.first \in T /\ row.last \in T
      /\ \A t \in T : t \in Int /\ row.first <= t /\ t <= row.last
  BY DEF IsSpan
<1>2. new.first \in T \cup {at} /\ new.last \in T \cup {at}
  BY <1>1 DEF Least, Greatest
<1>3. \A t \in T \cup {at} : new.first <= t /\ t <= new.last
  BY <1>1 DEF Least, Greatest
<1> QED BY <1>2, <1>3 DEF IsSpan

\* What the two rules make of a row.
LEMMA SeenIs ==
  /\ \A row \in NamedRow, at \in Times, name \in Names :
       LET new == [Seen(row, at) EXCEPT !.name = name]
       IN  /\ new \in NamedRow /\ new.name = name
           /\ new.first = Least(row.first, at) /\ new.last = Greatest(row.last, at)
  /\ \A row \in SeenRow, at \in Times :
       /\ Seen(row, at) \in SeenRow
       /\ Seen(row, at).first = Least(row.first, at)
       /\ Seen(row, at).last = Greatest(row.last, at)
<1>1. \A a, b \in Times : Least(a, b) \in Times /\ Greatest(a, b) \in Times
  BY DEF Least, Greatest
<1>2. ASSUME NEW row \in NamedRow, NEW at \in Times, NEW name \in Names
      PROVE  LET new == [Seen(row, at) EXCEPT !.name = name]
             IN  /\ new \in NamedRow /\ new.name = name
                 /\ new.first = Least(row.first, at) /\ new.last = Greatest(row.last, at)
  <2>1. row = [first |-> row.first, last |-> row.last, name |-> row.name]
        /\ row.first \in Times /\ row.last \in Times /\ row.name \in Names
    BY DEF NamedRow
  <2> DEFINE new == [Seen(row, at) EXCEPT !.name = name]
  <2>2. /\ DOMAIN new = {"first", "last", "name"} /\ new.name = name
        /\ new.first = Least(row.first, at) /\ new.last = Greatest(row.last, at)
        /\ new = [f \in DOMAIN new |-> new[f]]
    <3>1. DOMAIN row = {"first", "last", "name"}
      BY <2>1
    <3> QED BY <3>1 DEF Seen
  <2> QED BY <1>1, <2>1, <2>2 DEF NamedRow
<1>3. ASSUME NEW row \in SeenRow, NEW at \in Times
      PROVE  /\ Seen(row, at) \in SeenRow
             /\ Seen(row, at).first = Least(row.first, at)
             /\ Seen(row, at).last = Greatest(row.last, at)
  <2>1. row = [first |-> row.first, last |-> row.last]
        /\ row.first \in Times /\ row.last \in Times
    BY DEF SeenRow
  <2> DEFINE new == Seen(row, at)
  <2>2. /\ DOMAIN new = {"first", "last"}
        /\ new.first = Least(row.first, at) /\ new.last = Greatest(row.last, at)
        /\ new = [f \in DOMAIN new |-> new[f]]
    <3>1. DOMAIN row = {"first", "last"}
      BY <2>1
    <3> QED BY <3>1 DEF Seen
  <2> QED BY <1>1, <2>1, <2>2 DEF SeenRow
<1> QED BY <1>2, <1>3

\* A capture whose window ends at an instant takes part in the row of what it names; the rule of
\* SaveTelemetry keeps what the row says of all of them.
LEMMA NamedRowGrows ==
  ASSUME NEW field \in Fields, NEW k, NEW N \in SUBSET Captures, NEW T \in SUBSET Times,
         NEW row, RowOK(row, N, T, field, k), NEW x \in Captures,
         \A c \in N \cup {x} : k[2] \in DOMAIN c[field]
  PROVE  RowOK([Seen(row, x.end) EXCEPT !.name = Name(row, x[field][k[2]], x.end)],
               N \cup {x}, T, field, k)
<1> DEFINE name == x[field][k[2]]
           at == x.end
           new == [Seen(row, at) EXCEPT !.name = Name(row, name, at)]
<1>1. at \in Times /\ name \in Names /\ at \in Int /\ name \in Int
  BY TelemetryFacts, NamesAre
<1>2. /\ row \in NamedRow /\ IsSpan(row, Ends(N) \cup T) /\ NameOK(row, N, T, field, k)
      /\ row.first \in Int /\ row.last \in Int /\ row.name \in Int /\ row.name \in Names
      /\ row.last \in Times
  BY TelemetryFacts DEF RowOK, NamedRow
<1>3. \A c \in N : c.end \in Int /\ c[field][k[2]] \in Int
  <2> SUFFICES ASSUME NEW c \in N PROVE c.end \in Int /\ c[field][k[2]] \in Int
    OBVIOUS
  <2>1. c[field] \in [DOMAIN c[field] -> Names] /\ k[2] \in DOMAIN c[field]
    BY NamesAre
  <2> QED BY <2>1, TelemetryFacts
<1>4. Name(row, name, at) \in Names
  BY <1>1, <1>2 DEF Name
<1>5. /\ new \in NamedRow /\ new.name = Name(row, name, at)
      /\ new.first = Least(row.first, at) /\ new.last = Greatest(row.last, at)
  BY <1>1, <1>2, <1>4, SeenIs
<1> HIDE DEF new
<1>6. IsSpan(new, Ends(N \cup {x}) \cup T)
  <2>1. Ends(N) \cup T \in SUBSET Int
    BY TelemetryFacts DEF Ends
  <2>2. IsSpan(new, (Ends(N) \cup T) \cup {at})
    <3> DEFINE U == Ends(N) \cup T
    <3>1. U \in SUBSET Int /\ IsSpan(row, U)
      BY <1>2, <2>1
    <3> HIDE DEF U
    <3>2. IsSpan(new, U \cup {at})
      BY <1>1, <1>2, <1>5, <3>1, SpanGrows
    <3> QED BY <3>2 DEF U
  <2>3. Ends(N \cup {x}) \cup T = (Ends(N) \cup T) \cup {at}
    BY DEF Ends
  <2> QED BY <2>2, <2>3
<1>7. \A c \in N : c.end <= row.last
  BY <1>2 DEF IsSpan, Ends
<1>8. \A t \in T : t <= row.last
  BY <1>2 DEF IsSpan
<1>9. NameOK(new, N \cup {x}, T, field, k)
  <2>1. CASE row.last < at
    <3>1. new.last = at /\ new.name = name
      BY <1>1, <1>2, <1>5, <2>1 DEF Greatest, Name
    <3>2. at \notin T
      BY <1>1, <1>2, <1>8, <2>1
    <3>3. Latest(new, N \cup {x}) = {x}
      BY <1>1, <1>2, <1>3, <1>7, <2>1, <3>1 DEF Latest
    <3>4. IsLeastName(name, {x}, field, k)
      BY <1>1 DEF IsLeastName
    <3> QED BY <3>1, <3>2, <3>3, <3>4 DEF NameOK
  <2>2. CASE row.last = at
    <3>1. new.last = row.last /\ new.name = IF name < row.name THEN name ELSE row.name
      BY <1>1, <1>2, <1>5, <2>2 DEF Greatest, Name
    <3>2. Latest(new, N \cup {x}) = Latest(row, N) \cup {x}
      BY <2>2, <3>1 DEF Latest
    <3>3. \A c \in Latest(row, N) : c[field][k[2]] \in Int
      BY <1>3 DEF Latest
    <3> DEFINE L == Latest(row, N)
    <3> HIDE DEF L
    <3>4. new.name = row.name \/ new.name = name
      BY <3>1
    <3>5. row.last \notin T => IsLeastName(new.name, L \cup {x}, field, k)
      <4>1. row.last \notin T => IsLeastName(row.name, L, field, k)
        BY <1>2 DEF NameOK, L
      <4>2. \A c \in L : c[field][k[2]] \in Int
        BY <3>3 DEF L
      <4> QED BY <1>1, <1>2, <3>1, <4>1, <4>2 DEF IsLeastName
    <3>6. row.last \in T => \/ new.name = RuntimeName[k[2]]
                           \/ \E c \in L \cup {x} : c[field][k[2]] = new.name
      BY <1>2, <3>4 DEF NameOK, L
    <3> QED BY <3>1, <3>2, <3>5, <3>6 DEF NameOK, L
  <2>3. CASE at < row.last
    <3>1. new.last = row.last /\ new.name = row.name
      BY <1>1, <1>2, <1>5, <2>3 DEF Greatest, Name
    <3>2. Latest(new, N \cup {x}) = Latest(row, N)
      BY <1>1, <1>2, <2>3, <3>1 DEF Latest
    <3> QED BY <1>2, <3>1, <3>2 DEF NameOK
  <2> QED BY <1>1, <1>2, <2>1, <2>2, <2>3
<1> QED BY <1>5, <1>6, <1>9 DEF RowOK, new

\* What a union over captures has, and gets of one more.
LEMMA KeysAre ==
  ASSUME NEW C, NEW field
  PROVE  /\ \A k \in KeysOf(C, field) :
              k = <<k[1], k[2]>> /\ \E c \in C : k[1] = c.environment /\ k[2] \in DOMAIN c[field]
         /\ \A c \in C : \A n \in DOMAIN c[field] : <<c.environment, n>> \in KeysOf(C, field)
         /\ \A x : KeysOf(C \cup {x}, field)
                   = KeysOf(C, field) \cup ({x.environment} \X DOMAIN x[field])
<1>1. ASSUME NEW x
      PROVE  KeysOf(C \cup {x}, field) = KeysOf(C, field) \cup ({x.environment} \X DOMAIN x[field])
  BY DEF KeysOf
<1>2. ASSUME NEW k \in KeysOf(C, field)
      PROVE  k = <<k[1], k[2]>> /\ \E c \in C : k[1] = c.environment /\ k[2] \in DOMAIN c[field]
  <2>1. PICK c \in C : k \in {c.environment} \X DOMAIN c[field]
    BY DEF KeysOf
  <2> QED BY <2>1
<1>3. ASSUME NEW c \in C, NEW n \in DOMAIN c[field]
      PROVE  <<c.environment, n>> \in KeysOf(C, field)
  <2>1. <<c.environment, n>> \in {c.environment} \X DOMAIN c[field]
    OBVIOUS
  <2> QED BY <2>1 DEF KeysOf
<1> QED BY <1>1, <1>2, <1>3

LEMMA EndpointsAre ==
  ASSUME NEW C
  PROVE  /\ \A k \in EndpointsOf(C) :
              k = <<k[1], k[2]>> /\ \E c \in C : k[1] = c.environment /\ k[2] \in c.endpoints
         /\ \A c \in C : \A e \in c.endpoints : <<c.environment, e>> \in EndpointsOf(C)
         /\ \A x : EndpointsOf(C \cup {x}) = EndpointsOf(C) \cup ({x.environment} \X x.endpoints)
<1>1. ASSUME NEW x
      PROVE  EndpointsOf(C \cup {x}) = EndpointsOf(C) \cup ({x.environment} \X x.endpoints)
  BY DEF EndpointsOf
<1>2. ASSUME NEW k \in EndpointsOf(C)
      PROVE  k = <<k[1], k[2]>> /\ \E c \in C : k[1] = c.environment /\ k[2] \in c.endpoints
  <2>1. PICK c \in C : k \in {c.environment} \X c.endpoints
    BY DEF EndpointsOf
  <2> QED BY <2>1
<1>3. ASSUME NEW c \in C, NEW e \in c.endpoints
      PROVE  <<c.environment, e>> \in EndpointsOf(C)
  <2>1. <<c.environment, e>> \in {c.environment} \X c.endpoints
    OBVIOUS
  <2> QED BY <2>1 DEF EndpointsOf
<1> QED BY <1>1, <1>2, <1>3

LEMMA RowsAdd ==
  ASSUME NEW C, NEW x
  PROVE  /\ EvidenceOf(C \cup {x}) = EvidenceOf(C) \cup Rows(x, x.evidence)
         /\ ObservationsOf(C \cup {x}) = ObservationsOf(C) \cup Rows(x, x.edges)
         /\ WindowsOf(C \cup {x}) = WindowsOf(C) \cup Rows(x, x.aggregates)
<1>1. EvidenceOf(C \cup {x}) = EvidenceOf(C) \cup Rows(x, x.evidence)
  BY DEF EvidenceOf
<1>2. ObservationsOf(C \cup {x}) = ObservationsOf(C) \cup Rows(x, x.edges)
  BY DEF ObservationsOf
<1>3. WindowsOf(C \cup {x}) = WindowsOf(C) \cup Rows(x, x.aggregates)
  BY DEF WindowsOf
<1> QED BY <1>1, <1>2, <1>3

\* The first capture that names something makes its row.
LEMMA NamedRowBegins ==
  ASSUME NEW field \in Fields, NEW k, NEW x \in Captures, k[2] \in DOMAIN x[field]
  PROVE  RowOK([first |-> x.end, last |-> x.end, name |-> x[field][k[2]]], {x}, {}, field, k)
<1> DEFINE row == [first |-> x.end, last |-> x.end, name |-> x[field][k[2]]]
<1>1. x.end \in Times /\ x[field][k[2]] \in Names /\ x.end \in Int /\ x[field][k[2]] \in Int
  BY TelemetryFacts, NamesAre
<1>2. row \in NamedRow
  BY <1>1 DEF NamedRow
<1>3. row.first = x.end /\ row.last = x.end /\ row.name = x[field][k[2]]
  OBVIOUS
<1> HIDE DEF row
<1>4. Ends({x}) \cup {} = {x.end}
  BY DEF Ends
<1>5. IsSpan(row, {x.end})
  BY <1>1, <1>3 DEF IsSpan
<1>6. Latest(row, {x}) = {x}
  BY <1>3 DEF Latest
<1>7. IsLeastName(row.name, {x}, field, k)
  BY <1>1, <1>3 DEF IsLeastName
<1>8. NameOK(row, {x}, {}, field, k)
  BY <1>6, <1>7 DEF NameOK
<1> QED BY <1>2, <1>4, <1>5, <1>8 DEF RowOK, row

\* ensureTelemetryService and ensureTelemetryDependency keep the rows those of the captures.
LEMMA EnsureNamedKeeps ==
  ASSUME NEW field \in Fields, NEW C \in SUBSET Captures, NEW F \in SUBSET RuntimeFacts,
         NEW rows, NamedOK(rows, C, F, field), NEW x \in Captures
  PROVE  NamedOK(EnsureNamed(rows, Keyed(x.environment, x[field]), x.end), C \cup {x}, F, field)
<1> DEFINE names == Keyed(x.environment, x[field])
           new == EnsureNamed(rows, names, x.end)
           X == {x.environment} \X DOMAIN x[field]
<1>1. DOMAIN names = X /\ \A k \in X : names[k] = x[field][k[2]]
  BY DEF Keyed
<1>2. DOMAIN new = DOMAIN rows \cup X
  BY <1>1 DEF EnsureNamed
<1>3. DOMAIN rows = KeysOf(C, field) \cup {<<f.environment, f.service>> : f \in F}
  BY DEF NamedOK
<1>4. DOMAIN new = KeysOf(C \cup {x}, field) \cup {<<f.environment, f.service>> : f \in F}
  <2>1. KeysOf(C \cup {x}, field) = KeysOf(C, field) \cup X
    BY KeysAre
  <2> HIDE DEF X, new
  <2> QED BY <1>2, <1>3, <2>1
<1>5. ASSUME NEW k \in DOMAIN rows, k \notin X
      PROVE  /\ new[k] = rows[k]
             /\ NamingIn(C \cup {x}, field, k) = NamingIn(C, field, k)
  <2>1. ~ (x.environment = k[1] /\ k[2] \in DOMAIN x[field])
    <3>1. k = <<k[1], k[2]>>
      BY <1>3, KeysAre
    <3> QED BY <1>5, <3>1
  <2>2. NamingIn(C \cup {x}, field, k) = NamingIn(C, field, k)
    BY <2>1 DEF NamingIn
  <2>3. new[k] = rows[k]
    BY <1>1, <1>5 DEF EnsureNamed
  <2> QED BY <2>2, <2>3
<1>6. ASSUME NEW k \in X
      PROVE  /\ k[1] = x.environment /\ k[2] \in DOMAIN x[field]
             /\ NamingIn(C \cup {x}, field, k) = NamingIn(C, field, k) \cup {x}
  BY DEF NamingIn
<1>7. ASSUME NEW k \in X, k \in DOMAIN rows
      PROVE  new[k] = [Seen(rows[k], x.end) EXCEPT !.name = Name(rows[k], x[field][k[2]], x.end)]
  BY <1>1, <1>7 DEF EnsureNamed
<1>8. ASSUME NEW k \in X, k \notin DOMAIN rows
      PROVE  /\ new[k] = [first |-> x.end, last |-> x.end, name |-> x[field][k[2]]]
             /\ NamingIn(C, field, k) = {} /\ TimesIn(F, k) = {}
  <2>1. new[k] = [first |-> x.end, last |-> x.end, name |-> x[field][k[2]]]
    BY <1>1, <1>8 DEF EnsureNamed
  <2>2. k = <<k[1], k[2]>>
    OBVIOUS
  <2>3. NamingIn(C, field, k) = {}
    <3> SUFFICES ASSUME NEW c \in C, c.environment = k[1], k[2] \in DOMAIN c[field]
                 PROVE  FALSE
      BY DEF NamingIn
    <3>1. k \in KeysOf(C, field)
      BY <2>2, KeysAre
    <3> QED BY <1>3, <1>8, <3>1
  <2>4. TimesIn(F, k) = {}
    BY <1>3, <1>8 DEF TimesIn
  <2> QED BY <2>1, <2>3, <2>4
<1>9. ASSUME NEW k \in DOMAIN new
      PROVE  RowOK(new[k], NamingIn(C \cup {x}, field, k), TimesIn(F, k), field, k)
  <2>1. CASE k \in DOMAIN rows /\ k \notin X
    BY <1>5, <2>1 DEF NamedOK
  <2>2. CASE k \in X /\ k \in DOMAIN rows
    <3> DEFINE N == NamingIn(C, field, k)
               T == TimesIn(F, k)
    <3>1. N \in SUBSET Captures /\ T \in SUBSET Times
      BY TelemetryFacts DEF NamingIn, TimesIn
    <3>2. RowOK(rows[k], N, T, field, k)
      BY <2>2 DEF NamedOK
    <3>3. \A c \in N \cup {x} : k[2] \in DOMAIN c[field]
      BY <1>6, <2>2 DEF NamingIn
    <3> HIDE DEF N, T
    <3>4. RowOK([Seen(rows[k], x.end) EXCEPT !.name = Name(rows[k], x[field][k[2]], x.end)],
                N \cup {x}, T, field, k)
      BY <3>1, <3>2, <3>3, NamedRowGrows
    <3> QED BY <1>6, <1>7, <2>2, <3>4 DEF N, T
  <2>3. CASE k \in X /\ k \notin DOMAIN rows
    <3>1. RowOK([first |-> x.end, last |-> x.end, name |-> x[field][k[2]]], {x}, {}, field, k)
      BY <1>6, <2>3, NamedRowBegins
    <3>2. NamingIn(C \cup {x}, field, k) = {x} /\ TimesIn(F, k) = {}
      BY <1>6, <1>8, <2>3
    <3> QED BY <1>8, <2>3, <3>1, <3>2
  <2> QED BY <1>2, <2>1, <2>2, <2>3
<1> QED BY <1>4, <1>9 DEF NamedOK

\* So does ensureTelemetryEndpoint.
LEMMA EnsureSeenKeeps ==
  ASSUME NEW C \in SUBSET Captures, NEW rows, SeenOK(rows, C), NEW x \in Captures
  PROVE  SeenOK(EnsureSeen(rows, {x.environment} \X x.endpoints, x.end), C \cup {x})
<1> DEFINE X == {x.environment} \X x.endpoints
           new == EnsureSeen(rows, X, x.end)
<1>1. DOMAIN new = DOMAIN rows \cup X
  BY DEF EnsureSeen
<1>2. DOMAIN rows = EndpointsOf(C)
  BY DEF SeenOK
<1>3. DOMAIN new = EndpointsOf(C \cup {x})
  <2>1. EndpointsOf(C \cup {x}) = EndpointsOf(C) \cup X
    BY EndpointsAre
  <2> HIDE DEF X, new
  <2> QED BY <1>1, <1>2, <2>1
<1>4. x.end \in Times /\ x.end \in Int
  BY TelemetryFacts
<1>5. ASSUME NEW k \in DOMAIN new
      PROVE  new[k] \in SeenRow /\ IsSpan(new[k], Ends(SeeingIn(C \cup {x}, k)))
  <2>0. k = <<k[1], k[2]>>
    BY <1>1, <1>2, EndpointsAre
  <2>1. CASE k \notin X
    <3>1. SeeingIn(C \cup {x}, k) = SeeingIn(C, k)
      <4>1. ~ (x.environment = k[1] /\ k[2] \in x.endpoints)
        BY <2>0, <2>1
      <4> QED BY <4>1 DEF SeeingIn
    <3>2. new[k] = rows[k] /\ k \in DOMAIN rows
      BY <1>1, <2>1 DEF EnsureSeen
    <3> QED BY <3>1, <3>2 DEF SeenOK
  <2>2. CASE k \in X /\ k \in DOMAIN rows
    <3> DEFINE row == rows[k]
               T == Ends(SeeingIn(C, k))
    <3>1. new[k] = Seen(row, x.end)
      BY <2>2 DEF EnsureSeen
    <3>2. row \in SeenRow /\ IsSpan(row, T)
      BY <2>2 DEF SeenOK
    <3>3. T \in SUBSET Int
      BY TelemetryFacts DEF Ends, SeeingIn
    <3>4. Ends(SeeingIn(C \cup {x}, k)) = T \cup {x.end}
      BY <2>2 DEF Ends, SeeingIn
    <3>5. row.first \in Int /\ row.last \in Int
      BY <3>2, TelemetryFacts DEF SeenRow
    <3> HIDE DEF T, row
    <3>6. /\ new[k] \in SeenRow /\ new[k].first = Least(row.first, x.end)
          /\ new[k].last = Greatest(row.last, x.end)
      BY <1>4, <3>1, <3>2, SeenIs
    <3>7. IsSpan(new[k], T \cup {x.end})
      <4> HIDE DEF new
      <4> QED BY <1>4, <3>2, <3>3, <3>5, <3>6, SpanGrows
    <3> QED BY <3>4, <3>6, <3>7
  <2>3. CASE k \in X /\ k \notin DOMAIN rows
    <3>1. new[k] = [first |-> x.end, last |-> x.end]
      BY <2>3 DEF EnsureSeen
    <3>2. SeeingIn(C \cup {x}, k) = {x}
      <4> SUFFICES ASSUME NEW c \in C, c.environment = k[1], k[2] \in c.endpoints PROVE FALSE
        BY <2>3 DEF SeeingIn
      <4>1. k \in EndpointsOf(C)
        BY <2>0, EndpointsAre
      <4> QED BY <1>2, <2>3, <4>1
    <3>3. Ends({x}) = {x.end}
      BY DEF Ends
    <3>4. IsSpan(new[k], {x.end})
      BY <1>4, <3>1 DEF IsSpan
    <3>5. new[k] \in SeenRow
      BY <1>4, <3>1 DEF SeenRow
    <3> QED BY <3>2, <3>3, <3>4, <3>5
  <2> QED BY <1>1, <2>1, <2>2, <2>3
<1> QED BY <1>3, <1>5 DEF SeenOK

\* A runtime snapshot takes part in the row of its service, by its own rule.
LEMMA RuntimeRowGrows ==
  ASSUME NEW k, NEW N \in SUBSET Captures, NEW T \in SUBSET Times,
         NEW row, RowOK(row, N, T, "services", k), NEW at \in Times, k[2] \in Services
  PROVE  RowOK([Seen(row, at) EXCEPT !.name = IF row.last <= at THEN RuntimeName[k[2]] ELSE @],
               N, T \cup {at}, "services", k)
<1> DEFINE name == IF row.last <= at THEN RuntimeName[k[2]] ELSE row.name
           new == [Seen(row, at) EXCEPT !.name = name]
<1>1. /\ row \in NamedRow /\ IsSpan(row, Ends(N) \cup T) /\ NameOK(row, N, T, "services", k)
      /\ row.first \in Int /\ row.last \in Int /\ row.name \in Names /\ at \in Int
  BY TelemetryFacts DEF RowOK, NamedRow
<1>2. name \in Names
  BY <1>1, TelemetryFacts
<1>3. /\ new \in NamedRow /\ new.name = name
      /\ new.first = Least(row.first, at) /\ new.last = Greatest(row.last, at)
  <2> HIDE DEF name
  <2> QED BY <1>1, <1>2, SeenIs
<1>4. [Seen(row, at) EXCEPT !.name = IF row.last <= at THEN RuntimeName[k[2]] ELSE @] = new
  <2>1. Seen(row, at).name = row.name
    BY <1>1 DEF Seen, NamedRow
  <2> QED BY <2>1
<1> HIDE DEF new
<1>5. IsSpan(new, Ends(N) \cup (T \cup {at}))
  <2> DEFINE U == Ends(N) \cup T
  <2>1. U \in SUBSET Int /\ IsSpan(row, U)
    BY <1>1, TelemetryFacts DEF Ends
  <2>2. U \cup {at} = Ends(N) \cup (T \cup {at})
    OBVIOUS
  <2> HIDE DEF U
  <2>3. IsSpan(new, U \cup {at})
    BY <1>1, <1>3, <2>1, SpanGrows
  <2> QED BY <2>2, <2>3
<1>6. NameOK(new, N, T \cup {at}, "services", k)
  <2>1. CASE row.last <= at
    <3>1. new.last = at /\ new.name = RuntimeName[k[2]]
      BY <1>1, <1>3, <2>1 DEF Greatest
    <3> QED BY <3>1 DEF NameOK
  <2>2. CASE at < row.last
    <3>1. new.last = row.last /\ new.name = row.name
      BY <1>1, <1>3, <2>2 DEF Greatest
    <3>2. Latest(new, N) = Latest(row, N) /\ (row.last \in T <=> row.last \in T \cup {at})
      BY <1>1, <2>2, <3>1 DEF Latest
    <3> QED BY <1>1, <3>1, <3>2 DEF NameOK
  <2> QED BY <1>1, <2>1, <2>2
<1> QED BY <1>3, <1>4, <1>5, <1>6 DEF RowOK

\* ensureService of the runtime inventory keeps the rows those of captures and snapshots.
LEMMA RuntimeServiceKeeps ==
  ASSUME NEW C \in SUBSET Captures, NEW F \in SUBSET RuntimeFacts, NEW rows,
         NamedOK(rows, C, F, "services"), NEW fact \in RuntimeFacts
  PROVE  NamedOK(RuntimeService(rows, fact), C, F \cup {fact}, "services")
<1> DEFINE key == <<fact.environment, fact.service>>
           at == fact.at
           new == RuntimeService(rows, fact)
           G == {<<f.environment, f.service>> : f \in F}
<1>1. /\ at \in Times /\ at \in Int /\ fact.service \in Services
      /\ RuntimeName[fact.service] \in Names
  BY TelemetryFacts
<1>2. DOMAIN new = DOMAIN rows \cup {key} /\ DOMAIN rows = KeysOf(C, "services") \cup G
  BY DEF RuntimeService, NamedOK
<1>3. DOMAIN new = KeysOf(C, "services") \cup {<<f.environment, f.service>> : f \in F \cup {fact}}
  <2>1. {<<f.environment, f.service>> : f \in F \cup {fact}} = G \cup {key}
    OBVIOUS
  <2> HIDE DEF G, key, new
  <2> QED BY <1>2, <2>1
<1>4. ASSUME NEW k \in DOMAIN new, k # key
      PROVE  k \in DOMAIN rows /\ new[k] = rows[k] /\ TimesIn(F \cup {fact}, k) = TimesIn(F, k)
  <2>1. k \in DOMAIN rows /\ new[k] = rows[k]
    BY <1>2, <1>4 DEF RuntimeService
  <2>2. TimesIn(F \cup {fact}, k) = TimesIn(F, k)
    BY <1>4 DEF TimesIn
  <2> QED BY <2>1, <2>2
<1>5. TimesIn(F \cup {fact}, key) = TimesIn(F, key) \cup {at}
  BY DEF TimesIn
<1>6. ASSUME key \in DOMAIN rows
      PROVE  new[key] = [Seen(rows[key], at) EXCEPT
                           !.name = IF rows[key].last <= at THEN RuntimeName[key[2]] ELSE @]
  BY <1>6 DEF RuntimeService
<1>7. ASSUME key \notin DOMAIN rows
      PROVE  /\ new[key] = [first |-> at, last |-> at, name |-> RuntimeName[fact.service]]
             /\ NamingIn(C, "services", key) = {} /\ TimesIn(F, key) = {}
  <2>1. new[key] = [first |-> at, last |-> at, name |-> RuntimeName[fact.service]]
    BY <1>7 DEF RuntimeService
  <2>2. NamingIn(C, "services", key) = {}
    <3> SUFFICES ASSUME NEW c \in C, c.environment = key[1], key[2] \in DOMAIN c["services"]
                 PROVE  FALSE
      BY DEF NamingIn
    <3>1. key \in KeysOf(C, "services")
      BY KeysAre
    <3> QED BY <1>2, <1>7, <3>1
  <2>3. TimesIn(F, key) = {}
    BY <1>2, <1>7 DEF TimesIn
  <2> QED BY <2>1, <2>2, <2>3
<1>8. ASSUME NEW k \in DOMAIN new
      PROVE  RowOK(new[k], NamingIn(C, "services", k), TimesIn(F \cup {fact}, k), "services", k)
  <2>1. CASE k # key
    BY <1>4, <2>1 DEF NamedOK
  <2>2. CASE k = key /\ key \in DOMAIN rows
    <3> DEFINE N == NamingIn(C, "services", key)
               T == TimesIn(F, key)
    <3>1. N \in SUBSET Captures /\ T \in SUBSET Times
      BY TelemetryFacts DEF NamingIn, TimesIn
    <3>2. RowOK(rows[key], N, T, "services", key)
      BY <2>2 DEF NamedOK
    <3>3. key[2] \in Services
      BY <1>1
    <3> HIDE DEF N, T
    <3>4. RowOK([Seen(rows[key], at) EXCEPT
                   !.name = IF rows[key].last <= at THEN RuntimeName[key[2]] ELSE @],
                N, T \cup {at}, "services", key)
      <4> HIDE DEF key
      <4> QED BY <1>1, <3>1, <3>2, <3>3, RuntimeRowGrows
    <3> QED BY <1>5, <1>6, <2>2, <3>4 DEF N, T
  <2>3. CASE k = key /\ key \notin DOMAIN rows
    <3> DEFINE row == [first |-> at, last |-> at, name |-> RuntimeName[fact.service]]
    <3>1. row \in NamedRow
      BY <1>1 DEF NamedRow
    <3>2. row.first = at /\ row.last = at /\ row.name = RuntimeName[key[2]]
      OBVIOUS
    <3> HIDE DEF row
    <3>3. IsSpan(row, Ends({}) \cup {at})
      BY <1>1, <3>2 DEF IsSpan, Ends
    <3>4. NameOK(row, {}, {at}, "services", key)
      BY <3>2 DEF NameOK
    <3>5. RowOK(row, {}, {at}, "services", key)
      BY <3>1, <3>3, <3>4 DEF RowOK
    <3>6. TimesIn(F \cup {fact}, key) = {at}
      BY <1>5, <1>7, <2>3
    <3> QED BY <1>7, <2>3, <3>5, <3>6 DEF row
  <2> QED BY <2>1, <2>2, <2>3
<1> QED BY <1>3, <1>8 DEF NamedOK

-----------------------------------------------------------------------------
(* Tables of whole captures refer to rows that exist                       *)

\* A table may have fewer captures than those it refers to.
LEMMA TablesFollow ==
  ASSUME NEW d, NEW I \in SUBSET Captures, NEW S \in SUBSET I, NEW P \in SUBSET S,
         NEW D \in SUBSET P, NEW E \in SUBSET D, NEW O \in SUBSET E, NEW W \in SUBSET O,
         NEW F \in SUBSET RuntimeFacts,
         \A c \in I : validateTelemetrySnapshot(c),
         \A b, c \in I : IngestionKey(b) = IngestionKey(c) => b = c,
         IngestedOK(d, I), NamedOK(d.services, S, F, "services"), SeenOK(d.endpoints, P),
         NamedOK(d.dependencies, D, {}, "dependencies"), d.evidence = EvidenceOf(E),
         d.observations = ObservationsOf(O), d.windows = WindowsOf(W)
  PROVE  TablesOK(d)
<1>1. /\ DOMAIN d.sources \subseteq Sources /\ \A k \in DOMAIN d.sources : d.sources[k] \in Times
      /\ \A k \in DOMAIN d.ingestions : k[1] \in DOMAIN d.sources /\ d.ingestions[k] \in Hashes
  BY TelemetryFacts DEF IngestedOK, IngestionKey
<1>2. \A c \in I : IngestionKey(c) \in DOMAIN d.ingestions
                   /\ IngestionKey(c)[2] = c.environment
  BY DEF IngestedOK, IngestionKey
<1>3. \A c \in S : \A s \in DOMAIN c.services : <<c.environment, s>> \in DOMAIN d.services
  <2>1. \A c \in S : \A s \in DOMAIN c["services"] :
          <<c.environment, s>> \in KeysOf(S, "services")
    BY KeysAre
  <2> QED BY <2>1 DEF NamedOK
<1>4. \A c \in D : \A s \in DOMAIN c.dependencies : <<c.environment, s>> \in DOMAIN d.dependencies
  <2>1. \A c \in D : \A s \in DOMAIN c["dependencies"] :
          <<c.environment, s>> \in KeysOf(D, "dependencies")
    BY KeysAre
  <2> QED BY <2>1 DEF NamedOK
<1>5. \A c \in P : \A e \in c.endpoints : <<c.environment, e>> \in DOMAIN d.endpoints
  <2>1. \A c \in P : \A e \in c.endpoints : <<c.environment, e>> \in EndpointsOf(P)
    BY EndpointsAre
  <2> QED BY <2>1 DEF SeenOK
<1>6. \A k \in DOMAIN d.services : k \in Environments \X Services /\ d.services[k] \in NamedRow
  <2> SUFFICES ASSUME NEW k \in DOMAIN d.services
               PROVE  k \in Environments \X Services /\ d.services[k] \in NamedRow
    OBVIOUS
  <2>1. CASE k \in KeysOf(S, "services")
    <3>1. PICK c \in S : k = <<k[1], k[2]>> /\ k[1] = c.environment /\ k[2] \in DOMAIN c["services"]
      BY <2>1, KeysAre
    <3>2. k[1] \in Environments /\ k[2] \in Services
      BY <3>1, NamesAre, TelemetryFacts DEF Fields
    <3> QED BY <3>1, <3>2 DEF NamedOK, RowOK
  <2>2. CASE \E f \in F : k = <<f.environment, f.service>>
    <3>1. PICK f \in F : k = <<f.environment, f.service>>
      BY <2>2
    <3>2. f.environment \in Environments /\ f.service \in Services
      BY TelemetryFacts
    <3>3. d.services[k] \in NamedRow
      BY DEF NamedOK, RowOK
    <3> QED BY <3>1, <3>2, <3>3
  <2> QED BY <2>1, <2>2 DEF NamedOK
<1>7. \A k \in DOMAIN d.dependencies :
        k \in Environments \X Dependencies /\ d.dependencies[k] \in NamedRow
  <2> SUFFICES ASSUME NEW k \in DOMAIN d.dependencies
               PROVE  k \in Environments \X Dependencies /\ d.dependencies[k] \in NamedRow
    OBVIOUS
  <2>1. k \in KeysOf(D, "dependencies")
    BY DEF NamedOK
  <2>2. PICK c \in D : /\ k = <<k[1], k[2]>> /\ k[1] = c.environment
                       /\ k[2] \in DOMAIN c["dependencies"]
    BY <2>1, KeysAre
  <2>3. k[1] \in Environments /\ k[2] \in Dependencies
    BY <2>2, NamesAre, TelemetryFacts DEF Fields
  <2> QED BY <2>2, <2>3 DEF NamedOK, RowOK
<1>8. \A k \in DOMAIN d.endpoints :
        <<k[1], k[2][1]>> \in DOMAIN d.services /\ d.endpoints[k] \in SeenRow
  <2> SUFFICES ASSUME NEW k \in DOMAIN d.endpoints
               PROVE  <<k[1], k[2][1]>> \in DOMAIN d.services /\ d.endpoints[k] \in SeenRow
    OBVIOUS
  <2>1. PICK c \in P : k[1] = c.environment /\ k[2] \in c.endpoints
    BY EndpointsAre DEF SeenOK
  <2>2. k[2][1] \in DOMAIN c.services
    BY <2>1 DEF validateTelemetrySnapshot
  <2> QED BY <1>3, <2>1, <2>2 DEF SeenOK
<1>9. \A r \in d.evidence : r[1] \in DOMAIN d.ingestions
  BY <1>2 DEF EvidenceOf, Rows
<1>10. \A r \in d.windows :
         /\ r[1] \in DOMAIN d.ingestions
         /\ <<r[1][2], r[2][1]>> \in DOMAIN d.services
         /\ r[2][2] # None => <<r[1][2], r[2]>> \in DOMAIN d.endpoints
  <2> SUFFICES ASSUME NEW r \in d.windows
               PROVE  /\ r[1] \in DOMAIN d.ingestions
                      /\ <<r[1][2], r[2][1]>> \in DOMAIN d.services
                      /\ r[2][2] # None => <<r[1][2], r[2]>> \in DOMAIN d.endpoints
    OBVIOUS
  <2>1. PICK c \in W : r[1] = IngestionKey(c) /\ r[2] \in c.aggregates
    BY DEF WindowsOf, Rows
  <2>2. /\ r[2] = <<r[2][1], r[2][2]>> /\ r[1] \in DOMAIN d.ingestions
        /\ r[1][2] = c.environment /\ KnownEndpoint(c, r[2][1], r[2][2])
    BY <1>2, <2>1, TelemetryFacts DEF validateTelemetrySnapshot
  <2> QED BY <1>3, <1>5, <2>2 DEF KnownEndpoint
<1>11. ASSUME NEW r \in d.observations
       PROVE  /\ r[1] \in DOMAIN d.ingestions
              /\ <<r[1][2], r[2].from>> \in DOMAIN d.services
              /\ <<r[1][2], r[2].dependency>> \in DOMAIN d.dependencies
              /\ r[2].origin # None =>
                   <<r[1][2], <<r[2].from, r[2].origin>>>> \in DOMAIN d.endpoints
              /\ r[2].target # None =>
                   /\ r[2].dependency = [kind |-> "service", key |-> r[2].target]
                   /\ <<r[1][2], r[2].target>> \in DOMAIN d.services
              /\ \A f \in r[2].evidence : <<r[1], f>> \in d.evidence
              /\ \A q \in d.observations : r[1] = q[1] => Distinct({r[2], q[2]})
  <2>1. PICK c \in O : r[1] = IngestionKey(c) /\ r[2] \in c.edges
    BY DEF ObservationsOf, Rows
  <2>2. /\ r[1] \in DOMAIN d.ingestions /\ r[1][2] = c.environment
        /\ KnownEndpoint(c, r[2].from, r[2].origin)
        /\ r[2].dependency \in DOMAIN c.dependencies /\ ValidTarget(c, r[2])
        /\ r[2].evidence \subseteq c.evidence /\ Distinct(c.edges)
    BY <1>2, <2>1 DEF validateTelemetrySnapshot
  <2>3. /\ <<r[1][2], r[2].from>> \in DOMAIN d.services
        /\ r[2].origin # None => <<r[1][2], <<r[2].from, r[2].origin>>>> \in DOMAIN d.endpoints
    BY <1>3, <1>5, <2>2 DEF KnownEndpoint
  <2>4. <<r[1][2], r[2].dependency>> \in DOMAIN d.dependencies
    BY <1>4, <2>2
  <2>5. r[2].target # None =>
          /\ r[2].dependency = [kind |-> "service", key |-> r[2].target]
          /\ <<r[1][2], r[2].target>> \in DOMAIN d.services
    <3>1. r[2].dependency \in Dependencies
      BY <2>1, TelemetryFacts DEF Edges
    <3>2. r[2].dependency = [kind |-> r[2].dependency.kind, key |-> r[2].dependency.key]
      BY <3>1, TelemetryFacts
    <3> QED BY <1>3, <2>2, <3>2 DEF ValidTarget
  <2>6. \A f \in r[2].evidence : <<r[1], f>> \in d.evidence
    BY <2>1, <2>2 DEF EvidenceOf, Rows
  <2>7. ASSUME NEW q \in d.observations, r[1] = q[1] PROVE Distinct({r[2], q[2]})
    <3>1. PICK b \in O : q[1] = IngestionKey(b) /\ q[2] \in b.edges
      BY DEF ObservationsOf, Rows
    <3>2. b = c
      BY <2>1, <2>7, <3>1
    <3> QED BY <2>1, <2>2, <3>1, <3>2 DEF Distinct
  <2> QED BY <2>2, <2>3, <2>4, <2>5, <2>6, <2>7
<1> QED BY <1>1, <1>6, <1>7, <1>8, <1>9, <1>10, <1>11 DEF TablesOK

-----------------------------------------------------------------------------
(* The steps                                                               *)

\* An empty database is that of no captures and no snapshots.
LEMMA TelemetryInit == Init => TInv
<1> SUFFICES ASSUME Init PROVE TInv
  OBVIOUS
<1>1. /\ db = Empty /\ committed = Empty /\ saving = None /\ step = "begin"
      /\ history = [captures |-> {}, runtime |-> {}]
  BY DEF Init
<1>2. AcceptedOK
  BY <1>1 DEF AcceptedOK
<1>3. StageOK
  BY <1>1 DEF StageOK, New
<1>4. IngestedOK(Empty, {})
  BY DEF IngestedOK, Empty, NoRows, Tables
<1>5. NamedOK(NoRows, {}, {}, "services") /\ NamedOK(NoRows, {}, {}, "dependencies")
  BY DEF NamedOK, NoRows, KeysOf
<1>6. SeenOK(NoRows, {})
  BY DEF SeenOK, NoRows, EndpointsOf
<1>7. EvidenceOf({}) = {} /\ ObservationsOf({}) = {} /\ WindowsOf({}) = {}
  BY DEF EvidenceOf, ObservationsOf, WindowsOf
<1>8. CommittedOK
  BY <1>1, <1>4, <1>5, <1>6, <1>7 DEF CommittedOK, Empty
<1>9. \A steps : Stored(steps) = {}
  BY <1>1 DEF Stored, New
<1>10. OpenOK
  BY <1>1, <1>4, <1>5, <1>6, <1>7, <1>9 DEF OpenOK, Empty
<1> QED BY <1>2, <1>3, <1>8, <1>10 DEF TInv

\* Without a transaction, and in one that has nothing to write, the open tables are the
\* committed ones.
LEMMA NothingOpen ==
  ASSUME CommittedOK', db' = committed', ~New'
  PROVE  OpenOK'
<1>1. \A steps : Stored(steps)' = history'.captures
  BY DEF Stored
<1> QED BY <1>1 DEF OpenOK, CommittedOK

\* A call that ends without a commit leaves the committed tables.
LEMMA EndKeeps ==
  ASSUME TInv, saving' = None, db' = committed, UNCHANGED <<committed, history>>
  PROVE  TInv'
<1>1. ~New'
  BY DEF New
<1>2. AcceptedOK'
  BY DEF TInv, AcceptedOK
<1>3. StageOK'
  BY <1>1 DEF StageOK
<1>4. CommittedOK'
  BY DEF TInv, CommittedOK
<1> QED BY <1>1, <1>2, <1>3, <1>4, NothingOpen DEF TInv

\* A runtime snapshot writes its service in a transaction of its own.
LEMMA RuntimeKeeps == TInv /\ RuntimeSnapshotSaved => TInv'
<1> SUFFICES ASSUME TInv, RuntimeSnapshotSaved PROVE TInv'
  OBVIOUS
<1>1. PICK fact \in RuntimeFacts :
        /\ committed' = [committed EXCEPT !.services = RuntimeService(@, fact)]
        /\ history' = [history EXCEPT !.runtime = @ \cup {fact}]
  BY DEF RuntimeSnapshotSaved
<1>2. db' = committed' /\ saving = None /\ UNCHANGED <<saving, step>>
  BY DEF RuntimeSnapshotSaved
<1>3. /\ history'.captures = history.captures
      /\ history'.runtime = history.runtime \cup {fact}
      /\ history' \in [captures : SUBSET Captures, runtime : SUBSET RuntimeFacts]
  BY <1>1 DEF TInv, AcceptedOK
<1>4. DOMAIN committed = Tables
  BY DEF TInv, CommittedOK, IngestedOK
<1>5. /\ committed'.services = RuntimeService(committed.services, fact)
      /\ DOMAIN committed' = Tables
      /\ \A table \in Tables \ {"services"} : committed'[table] = committed[table]
  BY <1>1, <1>4 DEF Tables
<1>6. AcceptedOK'
  BY <1>3 DEF TInv, AcceptedOK
<1>7. ~New'
  BY <1>2 DEF New
<1>8. StageOK'
  BY <1>2, <1>7 DEF StageOK
<1>9. CommittedOK'
  <2>1. NamedOK(committed'.services, history'.captures, history'.runtime, "services")
    <3>1. history.captures \in SUBSET Captures /\ history.runtime \in SUBSET RuntimeFacts
      BY DEF TInv, AcceptedOK
    <3>2. NamedOK(committed.services, history.captures, history.runtime, "services")
      BY DEF TInv, CommittedOK
    <3> QED BY <1>3, <1>5, <3>1, <3>2, RuntimeServiceKeeps
  <2>2. /\ committed'.sources = committed.sources
        /\ committed'.ingestions = committed.ingestions
        /\ committed'.endpoints = committed.endpoints
        /\ committed'.dependencies = committed.dependencies
        /\ committed'.evidence = committed.evidence
        /\ committed'.observations = committed.observations
        /\ committed'.windows = committed.windows
    BY <1>5 DEF Tables
  <2> QED BY <1>3, <1>5, <2>1, <2>2 DEF TInv, CommittedOK, IngestedOK
<1> QED BY <1>2, <1>6, <1>7, <1>8, <1>9, NothingOpen DEF TInv

\* The ingestion of a window that has none.
LEMMA IngestionBegins ==
  ASSUME NEW d, NEW C \in SUBSET Captures, IngestedOK(d, C), NEW x \in Captures,
         IngestionKey(x) \notin DOMAIN d.ingestions, NEW e, DOMAIN e = Tables,
         e.sources = EnsureSource(d.sources, x.source, x.observedAt),
         e.ingestions = [k \in DOMAIN d.ingestions \cup {IngestionKey(x)} |->
                           IF k = IngestionKey(x) THEN x.hash ELSE d.ingestions[k]]
  PROVE  IngestedOK(e, C \cup {x})
<1>1. DOMAIN e.sources = {c.source : c \in C \cup {x}}
  <2>1. DOMAIN e.sources = DOMAIN d.sources \cup {x.source}
    BY DEF EnsureSource
  <2>2. DOMAIN d.sources = {c.source : c \in C}
    BY DEF IngestedOK
  <2> QED BY <2>1, <2>2
<1>2. \A k \in DOMAIN e.sources : e.sources[k] \in Times
  BY TelemetryFacts DEF EnsureSource, IngestedOK
<1>3. DOMAIN e.ingestions = {IngestionKey(c) : c \in C \cup {x}}
  <2>1. DOMAIN d.ingestions = {IngestionKey(c) : c \in C}
    BY DEF IngestedOK
  <2> QED BY <2>1
<1>4. \A c \in C \cup {x} : e.ingestions[IngestionKey(c)] = c.hash
  <2>1. \A c \in C : IngestionKey(c) \in DOMAIN d.ingestions
                     /\ d.ingestions[IngestionKey(c)] = c.hash
    BY DEF IngestedOK
  <2> QED BY <2>1
<1> QED BY <1>1, <1>2, <1>3, <1>4 DEF IngestedOK

\* SaveTelemetry begins: a window already there is a replay or a conflict, and nothing of it is
\* written.
LEMMA BeginKeeps == TInv /\ Begin => TInv'
<1> SUFFICES ASSUME TInv, Begin PROVE TInv'
  OBVIOUS
<1>1. PICK x \in Captures :
        /\ validateTelemetrySnapshot(x)
        /\ saving' = x
        /\ \/ Conflict(x) /\ step' = "conflict" /\ UNCHANGED db
           \/ Known(x) /\ ~Conflict(x) /\ step' = "commit" /\ UNCHANGED db
           \/ /\ ~Known(x)
              /\ step' = "services"
              /\ db' = [db EXCEPT !.sources = EnsureSource(@, x.source, x.observedAt),
                                  !.ingestions = [k \in DOMAIN @ \cup {IngestionKey(x)} |->
                                     IF k = IngestionKey(x) THEN x.hash ELSE @[k]]]
  BY DEF Begin
<1>2. saving = None /\ UNCHANGED <<committed, history>> /\ db = committed /\ x # None
  BY TelemetryFacts DEF Begin, TInv, StageOK, New
<1>3. AcceptedOK' /\ CommittedOK'
  BY <1>2 DEF TInv, AcceptedOK, CommittedOK
<1>4. CASE Known(x)
  <2>1. ~New' /\ db' = committed'
    BY <1>1, <1>2, <1>4 DEF New, Known, Conflict
  <2>2. IF committed.ingestions[IngestionKey(x)] = x.hash
        THEN step' = "commit" ELSE step' = "conflict"
    BY <1>1, <1>2, <1>4 DEF Conflict
  <2>3. StageOK'
    BY <1>1, <1>2, <2>1, <2>2 DEF StageOK
  <2> QED BY <1>3, <2>1, <2>3, NothingOpen DEF TInv
<1>5. CASE ~Known(x)
  <2> DEFINE e == [db EXCEPT !.sources = EnsureSource(@, x.source, x.observedAt),
                             !.ingestions = [k \in DOMAIN @ \cup {IngestionKey(x)} |->
                                IF k = IngestionKey(x) THEN x.hash ELSE @[k]]]
  <2>1. db' = e /\ step' = "services"
    BY <1>1, <1>5 DEF Conflict
  <2>2. New'
    BY <1>1, <1>2, <1>5 DEF New, Known
  <2>3. StageOK'
    BY <1>1, <2>1, <2>2 DEF StageOK, Begun
  <2>4. DOMAIN db = Tables
    BY <1>2 DEF TInv, CommittedOK, IngestedOK
  <2>5. /\ DOMAIN e = Tables
        /\ e.sources = EnsureSource(db.sources, x.source, x.observedAt)
        /\ e.ingestions = [k \in DOMAIN db.ingestions \cup {IngestionKey(x)} |->
                             IF k = IngestionKey(x) THEN x.hash ELSE db.ingestions[k]]
        /\ \A table \in Tables \ {"sources", "ingestions"} : e[table] = db[table]
    BY <2>4 DEF Tables
  <2> HIDE DEF e
  <2>6. IngestedOK(e, history.captures \cup {x})
    <3>1. IngestedOK(db, history.captures) /\ history.captures \in SUBSET Captures
      BY <1>2 DEF TInv, CommittedOK, AcceptedOK
    <3>2. IngestionKey(x) \notin DOMAIN db.ingestions
      BY <1>5 DEF Known
    <3> QED BY <2>5, <3>1, <3>2, IngestionBegins
  <2>7. /\ Stored(Begun)' = history.captures \cup {x}
        /\ Stored(Begun \ {"services"})' = history.captures
        /\ Stored(Begun \ {"services", "endpoints"})' = history.captures
        /\ Stored({"evidence", "observations", "windows", "commit"})' = history.captures
        /\ Stored({"observations", "windows", "commit"})' = history.captures
        /\ Stored({"windows", "commit"})' = history.captures
        /\ Stored({"commit"})' = history.captures
    BY <1>1, <1>2, <2>1, <2>2 DEF Stored, Begun
  <2>8. /\ e.services = committed.services /\ e.endpoints = committed.endpoints
        /\ e.dependencies = committed.dependencies /\ e.evidence = committed.evidence
        /\ e.observations = committed.observations /\ e.windows = committed.windows
    BY <1>2, <2>5 DEF Tables
  <2>9. OpenOK'
    BY <1>2, <2>1, <2>6, <2>7, <2>8 DEF OpenOK, TInv, CommittedOK
  <2> QED BY <1>3, <2>3, <2>9 DEF TInv
<1> QED BY <1>4, <1>5

\* What a write has to do with, and leaves as it is: only a capture that is new is written.
LEMMA WritesAre ==
  ASSUME TInv, NEW from \in Begun \ {"commit"}, NEW to \in Begun, Step(from, to)
  PROVE  /\ New /\ New' /\ step = from /\ step' = to /\ saving \in Captures
         /\ UNCHANGED <<committed, saving, history>>
         /\ history.captures \in SUBSET Captures
         /\ DOMAIN db = Tables
         /\ AcceptedOK' /\ CommittedOK' /\ StageOK'
<1>1. /\ saving # None /\ step = from /\ step' = to
      /\ UNCHANGED <<committed, saving, history>>
  BY DEF Step
<1>2. New /\ saving \in Captures
  <2>1. from # "conflict"
    BY DEF Begun
  <2> QED BY <1>1, <2>1 DEF TInv, StageOK
<1>3. New'
  BY <1>1, <1>2 DEF New
<1>4. AcceptedOK' /\ CommittedOK' /\ history.captures \in SUBSET Captures
  BY <1>1 DEF TInv, AcceptedOK, CommittedOK
<1>5. StageOK'
  BY <1>1, <1>2, <1>3 DEF TInv, StageOK
<1>6. DOMAIN db = Tables
  BY DEF TInv, OpenOK, IngestedOK
<1> QED BY <1>1, <1>2, <1>3, <1>4, <1>5, <1>6

\* Each write brings its table to what the capture makes of it, and no other.
LEMMA WriteKeeps ==
  ASSUME TInv, SaveServices \/ SaveEndpoints \/ SaveDependencies \/ SaveEvidence
               \/ SaveObservations \/ SaveWindows
  PROVE  TInv'
<1> DEFINE C == history.captures
           x == saving
<1>1. CASE SaveServices
  <2>1. /\ Step("services", "endpoints")
        /\ db' = [db EXCEPT !.services =
                    EnsureNamed(@, Keyed(saving.environment, saving.services), saving.end)]
    BY <1>1 DEF SaveServices
  <2>2. /\ New /\ New' /\ step = "services" /\ step' = "endpoints" /\ saving \in Captures
        /\ UNCHANGED <<committed, saving, history>> /\ C \in SUBSET Captures
        /\ DOMAIN db = Tables /\ AcceptedOK' /\ CommittedOK' /\ StageOK'
    BY <2>1, WritesAre DEF Begun
  <2>3. /\ DOMAIN db' = Tables
        /\ db'.services = EnsureNamed(db.services, Keyed(x.environment, x["services"]), x.end)
        /\ db'.sources = db.sources /\ db'.ingestions = db.ingestions
        /\ db'.endpoints = db.endpoints /\ db'.dependencies = db.dependencies
        /\ db'.evidence = db.evidence /\ db'.observations = db.observations
        /\ db'.windows = db.windows
    BY <2>1, <2>2 DEF Tables
  <2>4. NamedOK(db'.services, C \cup {x}, history.runtime, "services")
    <3>1. NamedOK(db.services, C, history.runtime, "services")
      BY <2>2 DEF TInv, OpenOK, Stored, Begun
    <3>2. history.runtime \in SUBSET RuntimeFacts
      BY DEF TInv, AcceptedOK
    <3> QED BY <2>2, <2>3, <3>1, <3>2, EnsureNamedKeeps DEF Fields
  <2>5. OpenOK'
    BY <2>2, <2>3, <2>4 DEF TInv, OpenOK, IngestedOK, Stored, Begun
  <2> QED BY <2>2, <2>5 DEF TInv
<1>2. CASE SaveEndpoints
  <2>1. /\ Step("endpoints", "dependencies")
        /\ db' = [db EXCEPT !.endpoints =
                    EnsureSeen(@, {saving.environment} \X saving.endpoints, saving.end)]
    BY <1>2 DEF SaveEndpoints
  <2>2. /\ New /\ New' /\ step = "endpoints" /\ step' = "dependencies" /\ saving \in Captures
        /\ UNCHANGED <<committed, saving, history>> /\ C \in SUBSET Captures
        /\ DOMAIN db = Tables /\ AcceptedOK' /\ CommittedOK' /\ StageOK'
    BY <2>1, WritesAre DEF Begun
  <2>3. /\ DOMAIN db' = Tables
        /\ db'.endpoints = EnsureSeen(db.endpoints, {x.environment} \X x.endpoints, x.end)
        /\ db'.sources = db.sources /\ db'.ingestions = db.ingestions
        /\ db'.services = db.services /\ db'.dependencies = db.dependencies
        /\ db'.evidence = db.evidence /\ db'.observations = db.observations
        /\ db'.windows = db.windows
    BY <2>1, <2>2 DEF Tables
  <2>4. SeenOK(db'.endpoints, C \cup {x})
    <3>1. SeenOK(db.endpoints, C)
      BY <2>2 DEF TInv, OpenOK, Stored, Begun
    <3>2. SeenOK(EnsureSeen(db.endpoints, {x.environment} \X x.endpoints, x.end), C \cup {x})
      <4>1. C \in SUBSET Captures /\ x \in Captures
        BY <2>2
      <4> HIDE DEF C, x
      <4> QED BY <3>1, <4>1, EnsureSeenKeeps
    <3> QED BY <2>3, <3>2
  <2>5. OpenOK'
    BY <2>2, <2>3, <2>4 DEF TInv, OpenOK, IngestedOK, Stored, Begun
  <2> QED BY <2>2, <2>5 DEF TInv
<1>3. CASE SaveDependencies
  <2>1. /\ Step("dependencies", "evidence")
        /\ db' = [db EXCEPT !.dependencies =
                    EnsureNamed(@, Keyed(saving.environment, saving.dependencies), saving.end)]
    BY <1>3 DEF SaveDependencies
  <2>2. /\ New /\ New' /\ step = "dependencies" /\ step' = "evidence" /\ saving \in Captures
        /\ UNCHANGED <<committed, saving, history>> /\ C \in SUBSET Captures
        /\ DOMAIN db = Tables /\ AcceptedOK' /\ CommittedOK' /\ StageOK'
    BY <2>1, WritesAre DEF Begun
  <2>3. /\ DOMAIN db' = Tables
        /\ db'.dependencies =
             EnsureNamed(db.dependencies, Keyed(x.environment, x["dependencies"]), x.end)
        /\ db'.sources = db.sources /\ db'.ingestions = db.ingestions
        /\ db'.services = db.services /\ db'.endpoints = db.endpoints
        /\ db'.evidence = db.evidence /\ db'.observations = db.observations
        /\ db'.windows = db.windows
    BY <2>1, <2>2 DEF Tables
  <2>4. NamedOK(db'.dependencies, C \cup {x}, {}, "dependencies")
    <3>1. NamedOK(db.dependencies, C, {}, "dependencies")
      BY <2>2 DEF TInv, OpenOK, Stored, Begun
    <3>2. {} \in SUBSET RuntimeFacts /\ "dependencies" \in Fields /\ x \in Captures
      BY <2>2 DEF Fields
    <3>3. NamedOK(EnsureNamed(db.dependencies, Keyed(x.environment, x["dependencies"]), x.end),
                  C \cup {x}, {}, "dependencies")
      <4>1. C \in SUBSET Captures
        BY <2>2
      <4> HIDE DEF C, x
      <4> QED BY <3>1, <3>2, <4>1, EnsureNamedKeeps
    <3> QED BY <2>3, <3>3
  <2>5. OpenOK'
    BY <2>2, <2>3, <2>4 DEF TInv, OpenOK, IngestedOK, Stored, Begun
  <2> QED BY <2>2, <2>5 DEF TInv
<1>4. CASE SaveEvidence
  <2>1. /\ Step("evidence", "observations")
        /\ db' = [db EXCEPT !.evidence = @ \cup Rows(saving, saving.evidence)]
    BY <1>4 DEF SaveEvidence
  <2>2. /\ New /\ New' /\ step = "evidence" /\ step' = "observations" /\ saving \in Captures
        /\ UNCHANGED <<committed, saving, history>> /\ C \in SUBSET Captures
        /\ DOMAIN db = Tables /\ AcceptedOK' /\ CommittedOK' /\ StageOK'
    BY <2>1, WritesAre DEF Begun
  <2>3. /\ DOMAIN db' = Tables
        /\ db'.evidence = db.evidence \cup Rows(x, x.evidence)
        /\ db'.sources = db.sources /\ db'.ingestions = db.ingestions
        /\ db'.services = db.services /\ db'.endpoints = db.endpoints
        /\ db'.dependencies = db.dependencies /\ db'.observations = db.observations
        /\ db'.windows = db.windows
    BY <2>1, <2>2 DEF Tables
  <2>4. db'.evidence = EvidenceOf(C \cup {x})
    <3>1. db.evidence = EvidenceOf(C)
      BY <2>2 DEF TInv, OpenOK, Stored
    <3> QED BY <2>3, <3>1, RowsAdd
  <2>5. OpenOK'
    BY <2>2, <2>3, <2>4 DEF TInv, OpenOK, IngestedOK, Stored, Begun
  <2> QED BY <2>2, <2>5 DEF TInv
<1>5. CASE SaveObservations
  <2>1. /\ Step("observations", "windows")
        /\ db' = [db EXCEPT !.observations = @ \cup Rows(saving, saving.edges)]
    BY <1>5 DEF SaveObservations
  <2>2. /\ New /\ New' /\ step = "observations" /\ step' = "windows" /\ saving \in Captures
        /\ UNCHANGED <<committed, saving, history>> /\ C \in SUBSET Captures
        /\ DOMAIN db = Tables /\ AcceptedOK' /\ CommittedOK' /\ StageOK'
    BY <2>1, WritesAre DEF Begun
  <2>3. /\ DOMAIN db' = Tables
        /\ db'.observations = db.observations \cup Rows(x, x.edges)
        /\ db'.sources = db.sources /\ db'.ingestions = db.ingestions
        /\ db'.services = db.services /\ db'.endpoints = db.endpoints
        /\ db'.dependencies = db.dependencies /\ db'.evidence = db.evidence
        /\ db'.windows = db.windows
    BY <2>1, <2>2 DEF Tables
  <2>4. db'.observations = ObservationsOf(C \cup {x})
    <3>1. db.observations = ObservationsOf(C)
      BY <2>2 DEF TInv, OpenOK, Stored
    <3> QED BY <2>3, <3>1, RowsAdd
  <2>5. OpenOK'
    BY <2>2, <2>3, <2>4 DEF TInv, OpenOK, IngestedOK, Stored, Begun
  <2> QED BY <2>2, <2>5 DEF TInv
<1>6. CASE SaveWindows
  <2>1. /\ Step("windows", "commit")
        /\ db' = [db EXCEPT !.windows = @ \cup Rows(saving, saving.aggregates)]
    BY <1>6 DEF SaveWindows
  <2>2. /\ New /\ New' /\ step = "windows" /\ step' = "commit" /\ saving \in Captures
        /\ UNCHANGED <<committed, saving, history>> /\ C \in SUBSET Captures
        /\ DOMAIN db = Tables /\ AcceptedOK' /\ CommittedOK' /\ StageOK'
    BY <2>1, WritesAre DEF Begun
  <2>3. /\ DOMAIN db' = Tables
        /\ db'.windows = db.windows \cup Rows(x, x.aggregates)
        /\ db'.sources = db.sources /\ db'.ingestions = db.ingestions
        /\ db'.services = db.services /\ db'.endpoints = db.endpoints
        /\ db'.dependencies = db.dependencies /\ db'.evidence = db.evidence
        /\ db'.observations = db.observations
    BY <2>1, <2>2 DEF Tables
  <2>4. db'.windows = WindowsOf(C \cup {x})
    <3>1. db.windows = WindowsOf(C)
      BY <2>2 DEF TInv, OpenOK, Stored
    <3> QED BY <2>3, <3>1, RowsAdd
  <2>5. OpenOK'
    BY <2>2, <2>3, <2>4 DEF TInv, OpenOK, IngestedOK, Stored, Begun
  <2> QED BY <2>2, <2>5 DEF TInv
<1> QED BY <1>1, <1>2, <1>3, <1>4, <1>5, <1>6

\* The transaction commits: all tables have the capture by then, or none has to get it.
LEMMA CommitKeeps == TInv /\ Commit => TInv'
<1> SUFFICES ASSUME TInv, Commit PROVE TInv'
  OBVIOUS
<1>1. /\ saving # None /\ step = "commit" /\ committed' = db /\ saving' = None /\ db' = db
      /\ history' = IF New THEN [history EXCEPT !.captures = @ \cup {saving}] ELSE history
  BY DEF Commit, Ended, New
<1>2. ~New'
  BY <1>1 DEF New
<1>3. StageOK'
  BY <1>1, <1>2 DEF StageOK
<1>4. CASE ~New
  <2>1. committed' = committed /\ history' = history
    BY <1>1, <1>4 DEF TInv, StageOK
  <2> QED BY <1>1, <2>1, EndKeeps DEF TInv, StageOK
<1>5. CASE New
  <2>1. /\ history'.captures = history.captures \cup {saving}
        /\ history'.runtime = history.runtime
        /\ history' \in [captures : SUBSET Captures, runtime : SUBSET RuntimeFacts]
    BY <1>1, <1>5 DEF TInv, AcceptedOK, StageOK
  <2>2. AcceptedOK'
    <3>1. \A c \in history.captures : IngestionKey(c) # IngestionKey(saving)
      BY <1>5 DEF New, TInv, CommittedOK, IngestedOK
    <3>2. \A c \in history'.captures : validateTelemetrySnapshot(c)
      BY <1>1, <2>1 DEF TInv, AcceptedOK, StageOK
    <3>3. \A c, d \in history'.captures : IngestionKey(c) = IngestionKey(d) => c = d
      BY <2>1, <3>1 DEF TInv, AcceptedOK
    <3> QED BY <2>1, <3>2, <3>3 DEF AcceptedOK
  <2>3. CommittedOK'
    <3>1. /\ Stored(Begun) = history'.captures
          /\ Stored(Begun \ {"services"}) = history'.captures
          /\ Stored(Begun \ {"services", "endpoints"}) = history'.captures
          /\ Stored({"evidence", "observations", "windows", "commit"}) = history'.captures
          /\ Stored({"observations", "windows", "commit"}) = history'.captures
          /\ Stored({"windows", "commit"}) = history'.captures
          /\ Stored({"commit"}) = history'.captures
      BY <1>1, <1>5, <2>1 DEF Stored, Begun
    <3> QED BY <1>1, <2>1, <3>1 DEF TInv, OpenOK, CommittedOK
  <2> QED BY <1>1, <1>2, <1>3, <2>2, <2>3, NothingOpen DEF TInv
<1> QED BY <1>4, <1>5

\* Every step keeps the invariant.
LEMMA TelemetryNext == TInv /\ [Next]_vars => TInv'
<1> SUFFICES ASSUME TInv, [Next]_vars PROVE TInv'
  OBVIOUS
<1>1. CASE RejectInvalid \/ UNCHANGED vars
  <2>1. UNCHANGED <<db, committed, saving, step, history>>
    BY <1>1 DEF RejectInvalid, vars
  <2> QED BY <2>1 DEF TInv, AcceptedOK, StageOK, CommittedOK, OpenOK, New, Stored
<1>2. CASE RejectConflict \/ Abort
  <2>1. saving' = None /\ UNCHANGED <<committed, history>>
    BY <1>2 DEF RejectConflict, Abort, Ended
  <2>2. db' = committed
    <3>1. CASE Abort
      BY <3>1 DEF Abort
    <3>2. CASE RejectConflict
      <4>1. ~New /\ db' = db
        BY <3>2 DEF RejectConflict, TInv, StageOK, Begun
      <4> QED BY <4>1 DEF TInv, StageOK
    <3> QED BY <1>2, <3>1, <3>2
  <2> QED BY <2>1, <2>2, EndKeeps
<1> QED BY <1>1, <1>2, RuntimeKeeps, BeginKeeps, WriteKeeps, CommitKeeps DEF Next

LEMMA TelemetryKeepsInv == Spec => []TInv
BY TelemetryInit, TelemetryNext, PTL DEF Spec

-----------------------------------------------------------------------------
(* What the invariant says                                                 *)

\* The captures of the tables, from the first to the last written.
LEMMA StoredAre ==
  ASSUME TInv
  PROVE  LET I == Stored(Begun)
             S == Stored(Begun \ {"services"})
             P == Stored(Begun \ {"services", "endpoints"})
             D == Stored({"evidence", "observations", "windows", "commit"})
             O == Stored({"windows", "commit"})
         IN  /\ I \in SUBSET Captures /\ S \in SUBSET I /\ P \in SUBSET S /\ D \in SUBSET P
             /\ Stored({"observations", "windows", "commit"}) \in SUBSET D
             /\ O \in SUBSET Stored({"observations", "windows", "commit"})
             /\ Stored({"commit"}) \in SUBSET O
             /\ \A c \in I : validateTelemetrySnapshot(c)
             /\ \A b, c \in I : IngestionKey(b) = IngestionKey(c) => b = c
<1>1. /\ history.captures \in SUBSET Captures
      /\ \A c \in history.captures : validateTelemetrySnapshot(c)
      /\ \A c, d \in history.captures : IngestionKey(c) = IngestionKey(d) => c = d
      /\ New => saving \in Captures /\ validateTelemetrySnapshot(saving)
      /\ New => \A c \in history.captures : IngestionKey(c) # IngestionKey(saving)
  BY DEF TInv, AcceptedOK, StageOK, New, CommittedOK, IngestedOK
<1> QED BY <1>1 DEF Stored, Begun

\* The open and the committed tables are of whole captures.
LEMMA TypesHold == TInv => TypeOK
<1> SUFFICES ASSUME TInv PROVE TypeOK
  OBVIOUS
<1>1. /\ history.captures \in SUBSET Captures /\ history.runtime \in SUBSET RuntimeFacts
      /\ \A c \in history.captures : validateTelemetrySnapshot(c)
      /\ \A c, d \in history.captures : IngestionKey(c) = IngestionKey(d) => c = d
  BY DEF TInv, AcceptedOK
<1>2. TablesOK(committed)
  <2> DEFINE H == history.captures
             F == history.runtime
  <2>1. /\ IngestedOK(committed, H) /\ NamedOK(committed.services, H, F, "services")
        /\ SeenOK(committed.endpoints, H) /\ NamedOK(committed.dependencies, H, {}, "dependencies")
        /\ committed.evidence = EvidenceOf(H) /\ committed.observations = ObservationsOf(H)
        /\ committed.windows = WindowsOf(H)
    BY DEF TInv, CommittedOK
  <2>2. /\ H \in SUBSET Captures /\ H \in SUBSET H /\ F \in SUBSET RuntimeFacts
        /\ \A c \in H : validateTelemetrySnapshot(c)
        /\ \A b, c \in H : IngestionKey(b) = IngestionKey(c) => b = c
    BY <1>1
  <2> HIDE DEF H, F
  <2> QED BY <2>1, <2>2, TablesFollow
<1>3. TablesOK(db)
  <2> DEFINE I == Stored(Begun)
             S == Stored(Begun \ {"services"})
             P == Stored(Begun \ {"services", "endpoints"})
             D == Stored({"evidence", "observations", "windows", "commit"})
             E == Stored({"observations", "windows", "commit"})
             O == Stored({"windows", "commit"})
             W == Stored({"commit"})
  <2>1. /\ I \in SUBSET Captures /\ S \in SUBSET I /\ P \in SUBSET S /\ D \in SUBSET P
        /\ E \in SUBSET D /\ O \in SUBSET E /\ W \in SUBSET O
        /\ \A c \in I : validateTelemetrySnapshot(c)
        /\ \A b, c \in I : IngestionKey(b) = IngestionKey(c) => b = c
    BY StoredAre
  <2>2. /\ IngestedOK(db, I) /\ NamedOK(db.services, S, history.runtime, "services")
        /\ SeenOK(db.endpoints, P) /\ NamedOK(db.dependencies, D, {}, "dependencies")
        /\ db.evidence = EvidenceOf(E) /\ db.observations = ObservationsOf(O)
        /\ db.windows = WindowsOf(W)
    BY DEF TInv, OpenOK
  <2> HIDE DEF I, S, P, D, E, O, W
  <2> QED BY <1>1, <2>1, <2>2, TablesFollow
<1> QED BY <1>1, <1>2, <1>3 DEF TypeOK, TInv, StageOK

\* The committed tables have every capture of the history whole.
LEMMA CapturesHold == TInv => CapturesComplete
BY DEF TInv, CommittedOK, IngestedOK, EvidenceOf, ObservationsOf, WindowsOf, CapturesComplete

\* Spans and names follow from the facts.
LEMMA FactsHold == TInv => RowsFollowFacts
<1> SUFFICES ASSUME TInv PROVE RowsFollowFacts
  OBVIOUS
<1> DEFINE C == history.captures
<1>1. \A k, field : Naming(k, field) = NamingIn(C, field, k)
  BY DEF Naming, NamingIn
<1>2. \A k : RuntimeTimes(k) = TimesIn(history.runtime, k)
  BY DEF RuntimeTimes, TimesIn
<1>3. \A k : TimesIn({}, k) = {}
  BY DEF TimesIn
<1>4. \A k \in DOMAIN committed.services :
        RowOK(committed.services[k], Naming(k, "services"), RuntimeTimes(k), "services", k)
  BY <1>1, <1>2 DEF TInv, CommittedOK, NamedOK
<1>5. \A k \in DOMAIN committed.dependencies :
        RowOK(committed.dependencies[k], Naming(k, "dependencies"), {}, "dependencies", k)
  BY <1>1, <1>3 DEF TInv, CommittedOK, NamedOK
<1>6. SeenExact
  <2>1. \A k \in DOMAIN committed.endpoints :
          IsSpan(committed.endpoints[k],
                 Ends({c \in C : c.environment = k[1] /\ k[2] \in c.endpoints}))
    BY DEF TInv, CommittedOK, SeenOK, SeeingIn
  <2>2. \A k \in DOMAIN committed.services :
          IsSpan(committed.services[k], Ends(Naming(k, "services")) \cup RuntimeTimes(k))
    BY <1>4 DEF RowOK
  <2>3. \A k \in DOMAIN committed.dependencies :
          IsSpan(committed.dependencies[k], Ends(Naming(k, "dependencies")))
    <3>1. \A k \in DOMAIN committed.dependencies :
            IsSpan(committed.dependencies[k], Ends(Naming(k, "dependencies")) \cup {})
      BY <1>5 DEF RowOK
    <3>2. \A T : T \cup {} = T
      OBVIOUS
    <3> QED BY <3>1, <3>2
  <2> QED BY <2>1, <2>2, <2>3 DEF SeenExact
<1>7. NamesFollowLatest
  <2>1. \A k \in DOMAIN committed.services :
          NameOK(committed.services[k], Naming(k, "services"), RuntimeTimes(k), "services", k)
    BY <1>4 DEF RowOK
  <2>2. \A k \in DOMAIN committed.dependencies :
          IsLeastName(committed.dependencies[k].name,
                      {c \in Naming(k, "dependencies") : c.end = committed.dependencies[k].last},
                      "dependencies", k)
    BY <1>5 DEF RowOK, NameOK, Latest
  <2> QED BY <2>1, <2>2 DEF NameOK, Latest, NamesFollowLatest
<1> QED BY <1>6, <1>7 DEF RowsFollowFacts

\* Whatever captures of whatever windows arrive, in any order, any number of times and with
\* runtime snapshots between, and wherever a call fails: Store.SaveTelemetry stores each whole
\* or not at all, and no row refers to one that does not exist, in the open transaction either.
THEOREM CapturesAreWhole == Spec => []WholeCaptures
<1>1. TInv => WholeCaptures
  BY TypesHold, CapturesHold DEF WholeCaptures
<1> QED BY <1>1, TelemetryKeepsInv, PTL

\* When a service, an endpoint or a dependency was first and last seen, and what it is called,
\* follows from the captures and snapshots stored and not from their order.
THEOREM RowsFollowTheFacts == Spec => []RowsFollowFacts
<1>1. TInv => RowsFollowFacts
  BY FactsHold
<1> QED BY <1>1, TelemetryKeepsInv, PTL

\* A window that is stored stands: the same content is no conflict, other content is refused,
\* and neither changes a table.
THEOREM WindowsStand == Spec => WindowStands
<1>1. ASSUME TInv, [Next]_vars, saving # None, saving' = None,
             NEW c \in history.captures, IngestionKey(c) = IngestionKey(saving)
      PROVE  /\ reply' # (IF c.hash = saving.hash THEN "conflict" ELSE "saved")
             /\ committed' = committed
  <2>1. ~New /\ db = committed
        /\ committed.ingestions[IngestionKey(saving)] = c.hash
    BY <1>1 DEF TInv, CommittedOK, IngestedOK, StageOK, New
  <2>2. IF c.hash = saving.hash THEN step = "commit" ELSE step = "conflict"
    BY <1>1, <2>1 DEF TInv, StageOK
  <2>3. \/ step = "commit" /\ reply' = "saved" /\ committed' = db
        \/ step = "conflict" /\ reply' = "conflict" /\ committed' = committed
        \/ reply' = "failed" /\ committed' = committed
    BY <1>1
    DEF Next, vars, RuntimeSnapshotSaved, RejectInvalid, Begin, SaveServices, SaveEndpoints,
        SaveDependencies, SaveEvidence, SaveObservations, SaveWindows, Step, Commit,
        RejectConflict, Abort, Ended
  <2> QED BY <2>1, <2>2, <2>3
<1>2. TInv /\ [Next]_vars =>
        [(saving # None /\ saving' = None)
         => \A c \in history.captures :
              IngestionKey(c) = IngestionKey(saving) =>
                /\ reply' # (IF c.hash = saving.hash THEN "conflict" ELSE "saved")
                /\ committed' = committed]_vars
  BY <1>1
<1> QED BY <1>2, TelemetryKeepsInv, PTL DEF Spec, WindowStands

===============================================================================
