----------------------------- MODULE Provenance -----------------------------
(***************************************************************************)
(* The provenance algorithm of internal/correlation: from what Docker says *)
(* of a running image and what Git says of the revision the image declares *)
(* it concludes how firmly the runtime is tied to a commit, and ranks that *)
(* conclusion against other derivations for the same runtime instance.     *)
(*                                                                         *)
(* Claims, subjects and wording are left out: a piece of evidence is kept  *)
(* when it contradicts, and a hard cap is kept by its name.                *)
(***************************************************************************)
EXTENDS Integers

CONSTANTS None,                      \* an absent value: "" or nil in the code
          MaxImageCreatedClockSkew   \* tolerance for image creation times

SkewAssumption == MaxImageCreatedClockSkew \in Nat

Levels == {"EXACT", "HIGH", "MEDIUM", "LOW", "UNKNOWN"}

RevisionStates ==
  {"not_applicable", "invalid", "query_not_executed", "source_unavailable",
   "not_found", "resolved", "mismatched"}

\* UNKNOWN < LOW < MEDIUM < HIGH < EXACT
LevelRank == [UNKNOWN |-> 0, LOW |-> 1, MEDIUM |-> 2, HIGH |-> 3, EXACT |-> 4]

(***************************************************************************)
(* A ProvenanceInput is a record in with                                   *)
(*   immutable, alias    the image identities (None when absent)           *)
(*   revision            the declared OCI revision, None when absent       *)
(*   state               the outcome of the Git lookup                     *)
(*   resolvedSHA         the SHA Git returned, None when it returned none  *)
(*   conflict            several distinct repository digests               *)
(*   createdAt, commitTime, observedAt                                     *)
(***************************************************************************)

\* The evidence an evaluation returns early on, in the order of the code.
IdentityConflict(in) == in.conflict
RevisionInvalid(in)  == ~in.conflict /\ in.state = "invalid"
RevisionAbsent(in)   == ~in.conflict /\ in.state # "invalid" /\ in.revision = None
RevisionDeclared(in) == ~in.conflict /\ in.state # "invalid" /\ in.revision # None

\* addFutureCreatedEvidence: the image claims to be created after it was seen.
FutureCreated(in) ==
  in.createdAt # None /\ in.createdAt > in.observedAt + MaxImageCreatedClockSkew

\* A lookup counts as resolved only if it returned exactly the declared SHA.
CommitResolved(in) ==
  /\ RevisionDeclared(in)
  /\ in.state = "resolved"
  /\ in.resolvedSHA # None
  /\ in.resolvedSHA = in.revision

\* Wrong variant: the commit and image times are not compared.
CommitAfterImageUnchecked(in) == FALSE

CommitAfterImage(in) ==
  /\ CommitResolved(in)
  /\ in.createdAt # None /\ in.commitTime # None
  /\ in.commitTime > in.createdAt

\* The evidence with polarity "contradicts", by the hard cap that goes with it.
Contradictions(in) ==
  {c \in {"future_image_creation", "identity_contradiction", "revision_mismatch",
          "invalid_resolution_result", "commit_after_image"} :
     \/ c = "future_image_creation"  /\ FutureCreated(in)
     \/ c = "identity_contradiction" /\ IdentityConflict(in)
     \/ /\ c = "revision_mismatch"
        /\ RevisionDeclared(in) /\ in.state = "mismatched"
     \/ /\ c = "invalid_resolution_result"
        /\ RevisionDeclared(in) /\ in.state = "resolved" /\ ~CommitResolved(in)
     \/ c = "commit_after_image"     /\ CommitAfterImage(in)}

\* The hard caps that are not contradictions: what is weak or missing, not wrong.
WeaknessCaps(in) ==
  {c \in {"mutable_artifact_identity", "missing_artifact_identity",
          "invalid_oci_revision", "missing_oci_revision", "commit_not_found",
          "git_source_unavailable", "commit_query_not_executed"} :
     \/ c = "mutable_artifact_identity" /\ in.immutable = None /\ in.alias # None
     \/ c = "missing_artifact_identity" /\ in.immutable = None /\ in.alias = None
     \/ c = "invalid_oci_revision"      /\ RevisionInvalid(in)
     \/ /\ c = "missing_oci_revision"
        /\ RevisionAbsent(in) /\ ~FutureCreated(in)
        /\ in.immutable # None \/ in.alias = None
     \/ /\ c = "commit_not_found"
        /\ RevisionDeclared(in) /\ in.state = "not_found"
     \/ /\ c = "git_source_unavailable"
        /\ RevisionDeclared(in) /\ in.state = "source_unavailable"
     \/ /\ c = "commit_query_not_executed"
        /\ RevisionDeclared(in)
        /\ in.state \in {"query_not_executed", "not_applicable"}}

\* The most a result with this cap may claim.
CapLevel(cap) == IF cap = "mutable_artifact_identity" THEN "LOW" ELSE "UNKNOWN"

\* Wrong variant: a resolved commit decides even against contradicting evidence.
LevelDespiteContradiction(in) ==
  IF CommitResolved(in) THEN IF in.immutable = None THEN "LOW" ELSE "EXACT"
  ELSE IF RevisionAbsent(in) /\ in.immutable = None THEN "LOW" ELSE "UNKNOWN"

Level(in) ==
  IF RevisionDeclared(in)
  THEN IF Contradictions(in) # {} \/ ~CommitResolved(in) THEN "UNKNOWN"
       ELSE IF in.immutable = None THEN "LOW" ELSE "EXACT"
  ELSE IF /\ RevisionAbsent(in) /\ ~FutureCreated(in)
          /\ in.immutable = None /\ in.alias # None
       THEN "LOW" ELSE "UNKNOWN"

EvaluateProvenance(in) ==
  [level          |-> Level(in),
   relation       |-> IF Level(in) = "EXACT" THEN "exact" ELSE "inferred",
   contradictions |-> Contradictions(in),
   hardCaps       |-> Contradictions(in) \cup WeaknessCaps(in),
   attempts       |-> {in.state} \ {"not_applicable"}]

\* Wrong variant: a lookup that found nothing ranks below one that never ran.
PriorityFavouringUnavailable(result) ==
  CASE result.contradictions # {} -> 400
    [] result.contradictions = {} /\ result.level = "EXACT" -> 300
    [] result.contradictions = {} /\ result.level = "LOW" -> 200
    [] /\ result.contradictions = {} /\ result.level = "UNKNOWN"
       /\ "source_unavailable" \in result.attempts -> 100
    [] OTHER -> 0

\* Wrong variant: only the level counts.
PriorityByLevelAlone(result) ==
  CASE result.level = "EXACT" -> 300
    [] result.level = "LOW" -> 200
    [] result.level = "UNKNOWN" -> 100

\* Which derivation of one runtime instance is its current conclusion.
DerivationPriority(result) ==
  IF result.contradictions # {} THEN 400
  ELSE IF result.level = "EXACT" THEN 300
  ELSE IF result.level \in {"LOW", "MEDIUM", "HIGH"} THEN 200
  ELSE IF result.attempts \cap {"source_unavailable", "query_not_executed"} # {} THEN 0
  ELSE 100
=============================================================================
