-------------------------- MODULE RuntimeAssociation --------------------------
(***************************************************************************)
(* What prodmap deploys concludes about a deployment from the containers   *)
(* observed after it: deployment.EvaluateRuntimeAssociation, and the part  *)
(* of attachRuntimeAssociations in internal/sqlite/deployment.go that      *)
(* chooses its inputs.                                                     *)
(*                                                                         *)
(* A deployment is a record with service, start, ids, commit and verified; *)
(* an observation, a row of runtime_instances, one with container, service,*)
(* at, ids and commit.  ids are immutable image identities; container      *)
(* stands for the source and the external ID.                              *)
(***************************************************************************)
EXTENDS Integers, FiniteSets

CONSTANTS Delay,            \* MaxRuntimeConfirmationDelay
          MaxPerDeployment, \* MaxRuntimeCandidatesPerDeployment
          None

ASSUME AssociationAssumption == Delay \in Nat \ {0} /\ MaxPerDeployment \in Nat

\* Wrong variant: the next deployment does not end the window.
WindowUntilQueried(start, next, until) ==
  IF until <= start + Delay THEN until ELSE start + Delay

\* The end of the window: the next deployment, the end of the query, or the delay.
runtimeConfirmationWindow(start, next, until) ==
  LET capped == IF until <= start + Delay THEN until ELSE start + Delay
  IN  IF next # None /\ next <= capped THEN next ELSE capped

\* A row is valid until the next row of its container.
ValidAt(rows, o, t) ==
  /\ o.at <= t
  /\ ~ \E p \in rows : p.container = o.container /\ o.at < p.at /\ p.at <= t

Intersect(d, o) == d.ids \cap o.ids # {}

\* Wrong variant: only what is observed after the deployment is looked at.
NeverPreexisting(rows, loaded, d) == FALSE

\* The image of d was running when d started, in a row observed before.
Preexisting(rows, loaded, d) ==
  \E o \in loaded :
    o.service = d.service /\ o.at < d.start /\ ValidAt(rows, o, d.start) /\ Intersect(d, o)

InWindow(loaded, d, end) ==
  {o \in loaded : o.service = d.service /\ d.start <= o.at /\ o.at < end}

\* One observation of each container, its first.
FirstOfEach(candidates) ==
  {o \in candidates : \A p \in candidates : p.container = o.container => o.at <= p.at}

CommitConflict(d, o) ==
  d.verified /\ d.commit # None /\ o.commit # None /\ d.commit # o.commit

Supports(d, o) == Intersect(d, o) /\ ~CommitConflict(d, o)

Contradicts(d, o) ==
  ~Supports(d, o) /\ (CommitConflict(d, o) \/ (d.ids # {} /\ o.ids # {}))

\* Wrong variant: one container that has the image confirms the deployment.
ConcludeFromOne(d, seen, preexisting) ==
  IF \E o \in seen : Supports(d, o)
  THEN IF preexisting THEN "PARTIAL" ELSE "MATCHED"
  ELSE IF \E o \in seen : Contradicts(d, o) THEN "CONTRADICTED" ELSE "UNKNOWN"

\* The conclusion from one observation of each container.
Conclude(d, seen, preexisting) ==
  LET supported == \E o \in seen : Supports(d, o)
      contradicted == \E o \in seen : Contradicts(d, o)
  IN  IF contradicted THEN IF supported THEN "PARTIAL" ELSE "CONTRADICTED"
      ELSE IF ~supported THEN "UNKNOWN"
      ELSE IF preexisting THEN "PARTIAL" ELSE "MATCHED"

Unknown == [status |-> "UNKNOWN", seen |-> {}]

\* The association of d, of which concurrent and next are known, with the rows loaded for
\* its page; exceeded says that there were too many of them.
RuntimeAssociationOf(rows, loaded, d, next, concurrent, until, exceeded) ==
  LET end == runtimeConfirmationWindow(d.start, next, until)
      candidates == InWindow(loaded, d, end)
      seen == FirstOfEach(candidates)
  IN  IF concurrent \/ end <= d.start \/ exceeded \/ Cardinality(candidates) > MaxPerDeployment
      THEN Unknown
      ELSE [status |-> Conclude(d, seen, Preexisting(rows, loaded, d)), seen |-> seen]
===============================================================================
