---------------------------- MODULE MCSpanAggregation ----------------------------
(***************************************************************************)
(* Small files of spans.  Services are api, pay and ship; api is called at *)
(* an endpoint and calls the others.                                       *)
(***************************************************************************)
EXTENDS SpanAggregation

Span(key, kind, service, evidence) ==
  [key |-> key, kind |-> kind, service |-> service, evidence |-> evidence, parent |-> Nil,
   links |-> {}, endpoint |-> Nil, declares |-> [c \in {} |-> ""], failed |-> FALSE,
   dropped |-> FALSE, inside |-> TRUE]

At(s, endpoint)    == [s EXCEPT !.endpoint = endpoint]
Under(s, parent)   == [s EXCEPT !.parent = parent]
Linked(s, keys)    == [s EXCEPT !.links = keys]
Declaring(s, c, d) == [s EXCEPT !.declares = (c :> d) @@ @]
Failing(s)         == [s EXCEPT !.failed = TRUE]
Dropping(s)        == [s EXCEPT !.dropped = TRUE]
Outside(s)         == [s EXCEPT !.inside = FALSE]

Request == At(Span("request", "server", "api", 5), "GET /")
Client(key, evidence) == Under(Span(key, "client", "api", evidence), "request")
Server(key, service, evidence, parent) == Under(Span(key, "server", service, evidence), parent)

\* A call that is answered and fails on one side only, one that declares its target, and one
\* that is answered by two services.
AnsweredCalls ==
  {Request, Client("c1", 1), Failing(Server("s1", "pay", 8, "c1")),
   Declaring(Client("c2", 2), "peer", "pay"), Declaring(Client("c3", 3), "rpc", "stock"),
   Server("s3", "pay", 6, "c3"), Server("s4", "ship", 7, "c3")}

\* One answered call contradicts what it declares, another does not.
Contradiction ==
  {Request, Declaring(Client("c1", 1), "peer", "ship"), At(Server("s1", "pay", 8, "c1"), "POST /pay"),
   Client("c2", 4), Server("s2", "pay", 2, "c2"), Declaring(Client("c3", 3), "rpc", "pay")}

\* Producers and a consumer that is linked to both, one of which lost links; a call of the
\* consumer's service that is not answered, and the service itself.
Messages ==
  {Span("p1", "producer", "api", 1), Dropping(Span("p2", "producer", "api", 2)),
   Linked(Span("m1", "consumer", "pay", 3), {"p1"}), Linked(Span("m2", "consumer", "pay", 4), {"p2"}),
   Declaring(Span("c1", "client", "api", 5), "peer", "pay")}

\* Things that are not services, declared in several ways, and a link that answers nothing.
Targets ==
  {Declaring(Declaring(Client("c1", 1), "database", "orders"), "address", "host"),
   Declaring(Client("c2", 2), "address", "host"), Declaring(Client("c3", 3), "peer", "pay"),
   Declaring(Under(Span("p1", "producer", "api", 4), "c1"), "messaging", "topic"),
   Linked(Span("i1", "internal", "pay", 6), {"p1"}), Declaring(Client("c4", 7), "rpc", "pay")}

\* Calls that two services answered: one that declares nothing, and one that declares one of them.
Ambiguous == {Request, Client("c1", 1), Server("s1", "pay", 2, "c1"), Server("s2", "ship", 3, "c1")}

Undecided ==
  {Declaring(Client("c1", 1), "peer", "pay"), Server("s1", "pay", 2, "c1"), Server("s2", "ship", 3, "c1")}

\* Evidence of an answered call that comes after that of others.
LateLink ==
  {Declaring(Client("c1", 1), "rpc", "pay"), Declaring(Client("c2", 2), "peer", "pay"),
   Declaring(Client("c3", 3), "peer", "pay"), Client("c4", 4), Server("s4", "pay", 5, "c4")}

\* A call through spans of its own service that form a cycle.
Cycle ==
  {Under(Span("i1", "internal", "api", 1), "i2"), Under(Span("i2", "internal", "api", 2), "i1"),
   Declaring(Under(Span("c1", "client", "api", 3), "i1"), "peer", "pay"), Request}

\* A call through a span of its own service, answered outside of the window, and one that is
\* not answered and declares nothing.
Nested ==
  {Request, Under(Span("i1", "internal", "api", 4), "request"),
   Declaring(Under(Span("c1", "client", "api", 6), "i1"), "peer", "pay"),
   Outside(Server("s1", "pay", 7, "c1")), Client("c2", 8)}

Repeated == {Client("c1", 1), Failing(Client("c1", 1))}

Many == {Request, At(Span("s2", "server", "api", 2), "GET /2"), At(Span("s3", "server", "api", 3), "GET /3")}

ManyTargets == {Declaring(Client("c" \o ToString(n), n), "database", ToString(n)) : n \in 1..5}

SomeFiles ==
  {AnsweredCalls, Contradiction, Messages, Targets, Ambiguous, Undecided, LateLink, Cycle, Nested, Repeated,
   Many, ManyTargets}
===============================================================================
