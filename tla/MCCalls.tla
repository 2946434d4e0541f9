--------------------------------- MODULE MCCalls --------------------------------
(***************************************************************************)
(* Small instances of what a command does besides its queries.             *)
(***************************************************************************)
EXTENDS Calls, MCSpanAggregation, TLC

\* Times of creation do not follow the IDs.
MCCreated == (1 :> 2) @@ (2 :> 1) @@ (3 :> 2)

\* Two URLs of the API and one of another host, and one that is refused.
MCHostOf == [u \in Urls \cup {Endpoint} |-> IF u \in {"zip", "mirror"} THEN "api" ELSE u]

MCImageOf == (1 :> "a") @@ (2 :> "b") @@ (3 :> "a")

\* A container seen at time 3: with a skew of 1 an image created at 4 is still believed and
\* one created at 5 is not.
Seen(container, digests, imageID, revision, created) ==
  [container |-> container, at |-> 3, service |-> "api", metadata |-> "running",
   reference |-> 1, imageID |-> imageID, digests |-> digests,
   tags |-> {1}, revision |-> revision, created |-> created]

Observations ==
  {Seen("c1", digests, imageID, revision, created) :
     digests \in {{}, {1}, {1, 2}}, imageID \in {None, 1},
     revision \in {None, "<invalid>", "r1"}, created \in {None, 1, 2, 4, 5}}

Batch(seen, rejected) ==
  [observedAt |-> 3, observations |-> seen, rejected |-> rejected]

\* Every combination of what one container can show ("<invalid>" is RuntimeItems' Invalid), and
\* batches of two.
MCBatches ==
  {Batch(<<>>, 0)}
    \cup {Batch(<<o>>, rejected) : o \in Observations, rejected \in {0, 1}}
    \cup {Batch(<<o, Seen("c2", {1}, 1, "r1", None)>>, 0) :
            o \in {p \in Observations : p.created \in {None, 2}}}

MCLookups ==
  {[outcome |-> "commit", sha |-> "r1", time |-> t] : t \in {1, 2, 3}}
    \cup {[outcome |-> "commit", sha |-> "r2", time |-> 1]}
    \cup {[outcome |-> o, sha |-> None, time |-> None] :
            o \in {"conflict", "not_found", "unavailable"}}

\* A commit, a tag of it, and a commit whose description is too long.
MCPeelsTo == ("r1" :> "r1") @@ ("t1" :> "r1") @@ ("r2" :> "r2")
================================================================================
