------------------------ MODULE MCInvestigationDocument ------------------------
(***************************************************************************)
(* A small instance of InvestigationDocument: a service deployed at 1,     *)
(* windows of one hour before and after it, some of them twice and one too *)
(* small, other deployments at both ends of the time compared; and, while  *)
(* nothing else is saved, latencies of zero, containers, and dependencies, *)
(* statuses and states of every kind that matters.                         *)
(***************************************************************************)
EXTENDS InvestigationDocument

W(id, endpoint, start, count, coverage, value, kinds) ==
  [id |-> id, service |-> 1, endpoint |-> endpoint, start |-> start, end |-> start + 1,
   count |-> count, coverage |-> coverage, value |-> value, calls |-> kinds]

PlainWindows ==
  {W(1, None, 0, 9, "enough", 100, {"cache"}), W(2, None, 0, 2, "unknown", 90, {}),
   W(3, None, 1, 9, "unknown", 120, {"database"}), W(4, None, 1, 9, "low", 190, {"service"})}

SomeWindows ==
  PlainWindows \cup {W(5, None, 0, 9, "enough", 0, {}), W(6, None, 1, 9, "enough", 0, {"cache"})}

D(id, service, at, status) == [id |-> id, service |-> service, at |-> at, status |-> status]

PlainDeployments ==
  {D(1, 1, 1, "succeeded"), D(2, 1, 1, "rolled_back"), D(3, 1, 0, "failed"), D(4, 1, 2, "running")}

SomeDeployments == PlainDeployments \cup {D(5, 1, 0, "unknown")}

R(id, at, state) == [id |-> id, service |-> 1, at |-> at, state |-> state]

SomeRuntimes == {R(6, 1, "running"), R(7, 0, "removing")}

C(kind, metric, minSamples) ==
  [kind |-> kind, metric |-> metric, minSamples |-> minSamples, deployment |-> 1,
   before |-> 1, after |-> 1, service |-> 1, endpoint |-> None, at |-> 1]

SomeCalls ==
  {C("baseline", "latency", 1), C("baseline", "request_count", 5),
   C("regression", "latency", 1), C("investigation", "latency", 1),
   C("investigation", "error_rate", 5)}

\* All that is saved while a command runs is plain; what is not is there from the beginning.
FewTogether ==
  \/ /\ db.runtimes = {} /\ db.deployments \subseteq PlainDeployments
     /\ {w.row : w \in db.windows} \subseteq PlainWindows
  \/ Cardinality(states) <= 1 /\ now = Latest /\ (call = None \/ call.kind = "investigation")
===============================================================================
