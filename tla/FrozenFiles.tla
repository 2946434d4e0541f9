------------------------------ MODULE FrozenFiles -------------------------------
(***************************************************************************)
(* One call of LoadFrozenFile, of deployment ledgers or of telemetry: the  *)
(* file is inspected, read and inspected again, while somebody writes to   *)
(* it or puts another in its place.  Ledgers are inspected by their path,  *)
(* telemetry by the open file.                                             *)
(*                                                                         *)
(* A file has blocks, which are read one at a time; the content of a block *)
(* is the number of the write it stems from.  Times of modification are    *)
(* those of a clock that several writes may find unchanged.                *)
(***************************************************************************)
EXTENDS Integers, Sequences

CONSTANTS Blocks,    \* the blocks of the file at first
          MaxWrites, \* bound: writes
          MaxClock,  \* bound: the clock
          None

FileAssumption == Blocks \in Nat /\ MaxWrites \in Nat /\ MaxClock \in Nat

VARIABLES kind,     \* what is loaded, "ledger" or "telemetry"
          files,    \* the files, the second one once there is one
          at,       \* the file the path names
          clock,
          writes,   \* writes so far
          reading,  \* where the call is
          opened,   \* the file it has opened
          info,     \* size and time of modification at the first inspection
          rested,   \* TRUE if the file had been at rest since an earlier tick
          shown,    \* the content the file had then
          got,      \* the blocks read so far
          loaded    \* the content that is decoded and stored
vars == <<kind, files, at, clock, writes, reading, opened, info, rested, shown, got, loaded>>

world == <<kind, files, at, clock, writes>>

Init ==
  /\ kind \in {"ledger", "telemetry"}
  /\ files = <<[content |-> [b \in 1..Blocks |-> 0], mtime |-> 0]>>
  /\ at = 1
  /\ clock \in {0, 1}
  /\ writes = 0
  /\ reading = IF kind = "ledger" THEN "inspect" ELSE "open"
  /\ opened = None
  /\ info = None
  /\ rested = FALSE
  /\ shown = None
  /\ got = <<>>
  /\ loaded = None

-----------------------------------------------------------------------------
(* Others                                                                  *)

ClockTicks ==
  /\ clock < MaxClock
  /\ clock' = clock + 1
  /\ UNCHANGED <<kind, files, at, writes, reading, opened, info, rested, shown, got, loaded>>

Rewrites(content) == [content |-> content, mtime |-> clock]

\* A block is overwritten or appended, or the file cut short.
Write ==
  /\ writes < MaxWrites
  /\ writes' = writes + 1
  /\ LET old == files[at].content
     IN \E new \in {[old EXCEPT ![b] = writes'] : b \in DOMAIN old}
                   \cup {Append(old, writes'), SubSeq(old, 1, Len(old) - 1)} :
          files' = [files EXCEPT ![at] = Rewrites(new)]
  /\ UNCHANGED <<kind, at, clock, reading, opened, info, rested, shown, got, loaded>>

\* Another file of the same length is renamed to the path.
Replace ==
  /\ writes < MaxWrites
  /\ at = 1
  /\ writes' = writes + 1
  /\ files' = Append(files, Rewrites([b \in 1..Blocks |-> writes']))
  /\ at' = 2
  /\ UNCHANGED <<kind, clock, reading, opened, info, rested, shown, got, loaded>>

-----------------------------------------------------------------------------
(* LoadFrozenFile                                                          *)

\* Lstat or Stat look up the path, fstat the open file.
Inspected == IF kind = "ledger" THEN files[at] ELSE files[opened]

Facts(file) == [size |-> Len(file.content), mtime |-> file.mtime]

Inspect ==
  /\ reading = "inspect"
  /\ info' = Facts(Inspected)
  /\ rested' = (Inspected.mtime < clock)
  /\ shown' = Inspected.content
  /\ reading' = IF kind = "ledger" THEN "open" ELSE "read"
  /\ UNCHANGED <<world, opened, got, loaded>>

OpenFile ==
  /\ reading = "open"
  /\ opened' = at
  /\ reading' = IF kind = "ledger" THEN "read" ELSE "inspect"
  /\ UNCHANGED <<world, info, rested, shown, got, loaded>>

ReadBlock ==
  /\ reading = "read"
  /\ Len(got) < Len(files[opened].content)
  /\ got' = Append(got, files[opened].content[Len(got) + 1])
  /\ UNCHANGED <<world, reading, opened, info, rested, shown, loaded>>

\* The end of the file, as it is by then.
EndOfFile ==
  /\ reading = "read"
  /\ Len(got) >= Len(files[opened].content)
  /\ reading' = "recheck"
  /\ UNCHANGED <<world, opened, info, rested, shown, got, loaded>>

\* Wrong variant: a file of the same size is taken for the same.
SameSize == Facts(Inspected).size = info.size

Same == Facts(Inspected) = info

Accept ==
  /\ reading = "recheck"
  /\ Same
  /\ loaded' = got
  /\ reading' = "done"
  /\ UNCHANGED <<world, opened, info, rested, shown, got>>

\* The file has changed.
Conflict ==
  /\ reading = "recheck"
  /\ ~Same
  /\ reading' = "done"
  /\ UNCHANGED <<world, opened, info, rested, shown, got, loaded>>

\* The file is missing, not regular or too long, or the system fails.
LoadFails ==
  /\ reading # "done"
  /\ reading' = "done"
  /\ UNCHANGED <<world, opened, info, rested, shown, got, loaded>>

Next ==
  \/ ClockTicks \/ Write \/ Replace
  \/ Inspect \/ OpenFile \/ ReadBlock \/ EndOfFile \/ Accept \/ Conflict \/ LoadFails

Spec == Init /\ [][Next]_vars

-----------------------------------------------------------------------------
(* Properties                                                              *)

\* What is loaded from a file that had been at rest is what the file held when it was first
\* inspected, never a mixture of two writes, nor of two files.
LoadedAsInspected == (loaded # None /\ rested) => loaded = shown
=============================================================================
