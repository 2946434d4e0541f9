------------------------------- MODULE WriteOnce -------------------------------
(***************************************************************************)
(* What the path of a package promises: it holds nothing or one whole      *)
(* file, which is never replaced, and which is lost only as long as nobody *)
(* was told that it is there.                                              *)
(***************************************************************************)
CONSTANTS Values,  \* the whole files the path may hold
          None

VARIABLES value,     \* what the path holds
          announced  \* the file somebody was told of
vars == <<value, announced>>

Init ==
  /\ value \in Values \cup {None}
  /\ announced = None

Write ==
  /\ value = None
  /\ value' \in Values
  /\ UNCHANGED announced

Announce ==
  /\ value \in Values
  /\ announced' = value
  /\ UNCHANGED value

\* A power loss, before anybody was told.
Lose ==
  /\ announced = None
  /\ value' = None
  /\ UNCHANGED announced

Next == Write \/ Announce \/ Lose

Spec == Init /\ [][Next]_vars
================================================================================
