---------------------------- MODULE StoreTransactions ---------------------------
(***************************************************************************)
(* The saves of one writing store, one after another, on its one pooled    *)
(* connection, while other processes take the lock of the database.  BEGIN *)
(* IMMEDIATE waits for the lock as long as the busy timeout of the         *)
(* connection says, and no context ends that wait: beginTransaction lowers *)
(* the timeout to what the deadline of the caller leaves, and the save     *)
(* puts it back.                                                           *)
(*                                                                         *)
(* Time is counted in ticks that remain.                                   *)
(***************************************************************************)
EXTENDS Integers

CONSTANTS Full,      \* the busy timeout of a connection
          Deadlines, \* the time callers may give a save, None for no deadline
          Attempts,  \* how often a save that finds the database busy is tried
          MaxSaves,  \* bound: saves
          None

TransactionAssumption ==
  /\ Full \in Nat \ {0} /\ Attempts \in Nat /\ MaxSaves \in Nat
  /\ Deadlines \subseteq Nat \cup {None} /\ None \notin Int

VARIABLES pooled,    \* the busy timeout of the connection, None if there is no connection
          inUse,     \* TRUE while a save has the connection
          lowered,   \* TRUE while that save has lowered the timeout
          lock,      \* who has the write lock: "free", "own" or "other"
          step,      \* where the save is
          left,      \* the time its caller leaves it, None if unlimited
          wait,      \* the time BEGIN goes on waiting
          tries,     \* attempts begun
          saves      \* saves begun
vars == <<pooled, inUse, lowered, lock, step, left, wait, tries, saves>>

Init ==
  /\ pooled = Full
  /\ inUse = FALSE
  /\ lowered = FALSE
  /\ lock = "free"
  /\ step = "idle"
  /\ left = None
  /\ wait = 0
  /\ tries = 0
  /\ saves = 0

-----------------------------------------------------------------------------
(* Other processes and the clock                                           *)

OtherLocks ==
  /\ \/ lock = "free" /\ lock' = "other"
     \/ lock = "other" /\ lock' = "free"
  /\ UNCHANGED <<pooled, inUse, lowered, step, left, wait, tries, saves>>

\* Time passes; a wait that is over is noticed at once.
Tick ==
  /\ step # "idle"
  /\ step = "wait" => wait > 0
  /\ wait' = IF step = "wait" THEN wait - 1 ELSE wait
  /\ left' = IF left \in {None, 0} THEN left ELSE left - 1
  /\ <<wait', left'>> # <<wait, left>>
  /\ UNCHANGED <<pooled, inUse, lowered, lock, step, tries, saves>>

-----------------------------------------------------------------------------
(* beginTransaction                                                        *)

Save ==
  /\ step = "idle"
  /\ saves < MaxSaves
  /\ saves' = saves + 1
  /\ left' \in Deadlines
  /\ tries' = 1
  /\ step' = "begin"
  /\ UNCHANGED <<pooled, inUse, lowered, lock, wait>>

Expired ==
  /\ step \in {"begin", "pause"}
  /\ left = 0
  /\ step' = "idle"
  /\ UNCHANGED <<pooled, inUse, lowered, lock, left, wait, tries, saves>>

\* The pool opens a connection when it has none, with the timeout of the DSN.
Connection == IF pooled = None THEN Full ELSE pooled

\* Wrong variant: any deadline will do for the full timeout.
AmpleAlways == left # 0

Ample == left \notin 0..(Full - 1)

BeginPlain ==
  /\ step = "begin"
  /\ Ample
  /\ pooled' = Connection
  /\ inUse' = TRUE
  /\ wait' = Connection
  /\ step' = "wait"
  /\ UNCHANGED <<lowered, lock, left, tries, saves>>

BeginLowered ==
  /\ step = "begin"
  /\ ~Ample /\ left # 0
  /\ pooled' = left
  /\ inUse' = TRUE
  /\ lowered' = TRUE
  /\ wait' = left
  /\ step' = "wait"
  /\ UNCHANGED <<lock, left, tries, saves>>

\* Wrong variant: the connection goes back with the timeout it has.
GiveBackAsIs ==
  /\ inUse' = FALSE
  /\ lowered' = FALSE
  /\ pooled' = pooled

\* The connection goes back to the pool: its timeout is put back, whatever became of the
\* context, or the connection is dropped.
GiveBack ==
  /\ inUse' = FALSE
  /\ lowered' = FALSE
  /\ pooled' \in IF lowered THEN {Full, None} ELSE {pooled}

\* The pragma that lowers the timeout fails, before or after it takes effect.
PragmaFails ==
  /\ step = "begin"
  /\ ~Ample /\ left # 0
  /\ pooled' \in {Full, None}
  /\ step' = "idle"
  /\ UNCHANGED <<inUse, lowered, lock, left, wait, tries, saves>>

Locked ==
  /\ step = "wait"
  /\ lock = "free"
  /\ lock' = "own"
  /\ wait' = 0
  /\ step' = "work"
  /\ UNCHANGED <<pooled, inUse, lowered, left, tries, saves>>

\* Wrong variant: the connection is kept for the next attempt.
BusyKeeps ==
  /\ step = "wait"
  /\ wait = 0
  /\ step' = IF lowered /\ left = 0 THEN "idle" ELSE "pause"
  /\ UNCHANGED <<pooled, inUse, lowered, lock, left, wait, tries, saves>>

\* SQLITE_BUSY: the last look at the lock found it taken.  The connection is given back,
\* and the save pauses unless its context has ended.
Busy ==
  /\ step = "wait"
  /\ wait = 0
  /\ GiveBack
  /\ step' = IF lowered /\ left = 0 THEN "idle" ELSE "pause"
  /\ UNCHANGED <<lock, left, wait, tries, saves>>

\* Wrong variant: the pause is begun again each time.
AgainForever ==
  /\ step = "pause"
  /\ step' = "begin"
  /\ UNCHANGED <<pooled, inUse, lowered, lock, left, wait, tries, saves>>

Again ==
  /\ step = "pause"
  /\ tries < Attempts
  /\ tries' = tries + 1
  /\ step' = "begin"
  /\ UNCHANGED <<pooled, inUse, lowered, lock, left, wait, saves>>

GiveUp ==
  /\ step = "pause"
  /\ tries = Attempts
  /\ step' = "idle"
  /\ UNCHANGED <<pooled, inUse, lowered, lock, left, wait, tries, saves>>

-----------------------------------------------------------------------------
(* The save                                                                *)

\* Commit, or the deferred rollback after an error or the end of the context; then the
\* deferred release.
Finish ==
  /\ step = "work"
  /\ lock' = "free"
  /\ GiveBack
  /\ step' = "idle"
  /\ UNCHANGED <<left, wait, tries, saves>>

Next ==
  \/ OtherLocks \/ Tick
  \/ Save \/ Expired \/ BeginPlain \/ BeginLowered \/ PragmaFails
  \/ Locked \/ Busy \/ Again \/ GiveUp \/ Finish

\* What the save does of its own accord.
OwnStep ==
  Expired \/ BeginPlain \/ BeginLowered \/ Busy \/ Again \/ GiveUp \/ Finish

\* Time passes and the program runs; the lock may never be free.
Fairness == WF_vars(Tick) /\ WF_vars(OwnStep)

Spec == Init /\ [][Next]_vars /\ Fairness

-----------------------------------------------------------------------------
(* Properties                                                              *)

\* BEGIN never waits past the deadline of its caller, and the connection that a save
\* leaves to the next has the full timeout and no transaction.
PoolIsRestored ==
  /\ (step = "wait" /\ left # None) => wait <= left
  /\ ~inUse => pooled \in {None, Full} /\ lock # "own"
  /\ step \in {"idle", "begin", "pause"} => ~inUse

\* A save ends, though the lock may never be free.
SaveEnds == (step # "idle") ~> (step = "idle")
=============================================================================
