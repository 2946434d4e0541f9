------------------------- MODULE MCTelemetryIngestion -------------------------
(***************************************************************************)
(* A small instance of TelemetryIngestion: captures of three windows, two  *)
(* of which end together, one of them imported twice and one with another  *)
(* content, and runtime snapshots at the end of a window, before and after;*)
(* and captures that are not valid.                                        *)
(***************************************************************************)
EXTENDS TelemetryIngestion, TLC

Pay == [kind |-> "service", key |-> "pay"]

Edge(origin, target, evidence) ==
  [from |-> "api", origin |-> origin, dependency |-> Pay, target |-> target,
   evidence |-> evidence]

\* One client span of api linked to a server span of pay.
Capture(source, hash, start, end, at, api, pay) ==
  [source |-> source, hash |-> hash, environment |-> "prod", start |-> start, end |-> end,
   observedAt |-> at, services |-> ("api" :> api) @@ ("pay" :> pay),
   dependencies |-> Pay :> pay, endpoints |-> {<<"api", "get">>}, evidence |-> {"f1", "f2"},
   edges |-> {Edge("get", "pay", {"f1", "f2"})},
   aggregates |-> {<<"api", None>>, <<"api", "get">>, <<"pay", None>>}]

\* The spans of pay were not captured, nor that of the endpoint.
Unlinked(source, hash, start, end, at, api, pay) ==
  [Capture(source, hash, start, end, at, api, pay) EXCEPT
     !.services = "api" :> api, !.endpoints = {}, !.evidence = {"f1"},
     !.edges = {Edge(None, None, {"f1"})}, !.aggregates = {<<"api", None>>}]

MCCaptures ==
  {Capture("x", "h1", 1, 2, 5, 2, 2), Capture("x", "h1", 1, 2, 6, 2, 2),
   Unlinked("x", "h2", 1, 2, 6, 1, 3),
   Unlinked("x", "h3", 2, 4, 5, 1, 3), Capture("y", "h4", 3, 4, 5, 3, 1),
   [Capture("x", "h5", 1, 2, 4, 1, 1) EXCEPT !.environment = "test"],
   \* Not valid: the target is not the service of the dependency, the endpoint is
   \* not among those of the capture, two edges have one identity.
   [Capture("y", "h1", 1, 2, 4, 1, 1) EXCEPT !.edges = {Edge("get", "api", {"f1"})}],
   [Capture("y", "h2", 1, 2, 4, 1, 1) EXCEPT !.endpoints = {}],
   [Capture("y", "h3", 1, 2, 4, 1, 1) EXCEPT
      !.edges = {Edge("get", "pay", {"f1"}), Edge("get", None, {"f2"})}]}

MCDependencies == {Pay}

MCRuntimeFacts ==
  {[environment |-> "prod", service |-> "api", at |-> t] : t \in {3, 4}}
  \cup {[environment |-> "test", service |-> "pay", at |-> 1]}

MCRuntimeName == ("api" :> 2) @@ ("pay" :> 1)
===============================================================================
