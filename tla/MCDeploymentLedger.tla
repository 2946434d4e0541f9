--------------------------- MODULE MCDeploymentLedger ---------------------------
(***************************************************************************)
(* A small instance of DeploymentLedger: two sources, ledgers that extend, *)
(* repeat or contradict one another, and refreshes that make an artifact   *)
(* or a commit ambiguous.                                                  *)
(***************************************************************************)
EXTENDS DeploymentLedger

Record(id, environment, at, image, digest) ==
  [id |-> id, environment |-> environment, service |-> "api", deployedAt |-> at,
   image |-> image, digest |-> digest, verified |-> TRUE, revision |-> "r1"]

First   == Record("d1", "prod", 0, "image1", None)
\* The same identity with another time, and in another environment.
Changed == [First EXCEPT !.deployedAt = 1]
Staging == [First EXCEPT !.environment = "staging"]
\* Claims an image and a digest, an instant ahead of the clock's start.
Second  == Record("d2", "prod", 1, "image1", "digest1")
\* Its revision was not verified by the build.
Third   == [Record("d3", "prod", 0, "image2", None) EXCEPT !.verified = FALSE]

Content ==
  [h1 |-> <<First>>, h2 |-> <<First, Second>>, h3 |-> <<Second, Changed>>,
   h4 |-> <<First, Staging>>, h5 |-> <<Third>>]

File(hash, at) ==
  [source |-> "file", hash |-> hash, observedAt |-> at, records |-> Content[hash],
   fetch |-> None]

Fetched(hash, at, artifact, metadata) ==
  [source |-> "github", hash |-> hash, observedAt |-> at, records |-> Content[hash],
   fetch |-> [artifact |-> artifact, metadata |-> metadata]]

MCRequests ==
  {File("h1", 1), File("h2", 2), File("h3", 1), File("h4", 1),
   \* One artifact with another content, and with another description; the same
   \* content as another artifact.
   Fetched("h2", 1, 1, "run1"), Fetched("h5", 2, 1, "run1"),
   Fetched("h2", 2, 1, "run2"), Fetched("h2", 2, 2, "run1")}

MCInventories ==
  {[artifacts |-> {[identity |-> "image1", image |-> "image1"]},
    commits   |-> {[repository |-> "repo", sha |-> "r1"]},
    services  |-> {[environment |-> "prod", key |-> "api"]}],
   \* The image again, now known by its registry digest, and a fork's commit.
   [artifacts |-> {[identity |-> "digest1", image |-> "image1"]},
    commits   |-> {[repository |-> "fork", sha |-> "r1"]},
    services  |-> {[environment |-> "prod", key |-> "api"]}]}
=============================================================================
