------------------------------- MODULE GitSource -------------------------------
(***************************************************************************)
(* What a refresh asks of Git: the repository once, then one commit after  *)
(* another, each by two commands with five seconds of their own.  Between  *)
(* any two commands, and while one runs, objects are fetched or pruned,    *)
(* the repository goes or comes back, and the caller may give up.  Git     *)
(* itself is external: a command need never end by itself.                 *)
(***************************************************************************)
EXTENDS Integers

CONSTANTS None,
          Objects,    \* complete object IDs
          PeelsTo,    \* the commit an object names: itself, or what a tag points at
          Long,       \* commits whose description exceeds the output limit
          MaxLookups  \* the revisions of one batch

GitAssumption ==
  /\ PeelsTo \in [Objects -> Objects]
  /\ \A o \in Objects : PeelsTo[PeelsTo[o]] = PeelsTo[o]
  /\ Long \subseteq Objects /\ MaxLookups \in Nat

VARIABLES place,      \* what the project directory is: "repository", "elsewhere" or "unusable"
          objects,    \* the objects that are there
          cancelled,  \* the context of the refresh has ended
          expired,    \* so has that of the command
          phase,      \* the command that runs, "idle" between two lookups, or "done"
          found,      \* the identity of the repository: "origin", "local" or None
          revision,   \* the revision asked about
          answer,     \* what the last call returned
          asked,      \* how many revisions were asked about
          was         \* how Git stood to the revision while it was asked (history variable)
vars == <<place, objects, cancelled, expired, phase, found, revision, answer, asked, was>>

Commands == {"toplevel", "origin", "verify", "show"}

Whole(r) == {r, PeelsTo[r]} \subseteq objects

Standing(r) ==
  IF place # "repository" THEN "unusable" ELSE IF Whole(r) THEN "present" ELSE "absent"

Init ==
  /\ place \in {"repository", "elsewhere", "unusable"}
  /\ objects \in SUBSET Objects
  /\ cancelled = FALSE /\ expired = FALSE
  /\ phase = "toplevel"
  /\ found = None /\ revision = None /\ answer = None
  /\ asked = 0
  /\ was = {}

-----------------------------------------------------------------------------
(* Around the calls                                                        *)

\* An object is fetched or pruned, the repository moves, breaks or is repaired.
RepositoryChanges ==
  /\ phase # "done"
  /\ \/ \E o \in Objects : objects' = (objects \ {o}) \cup ({o} \ objects)
        /\ UNCHANGED place
     \/ place' \in {"repository", "elsewhere", "unusable"} \ {place} /\ UNCHANGED objects
  /\ UNCHANGED <<cancelled, expired, phase, found, revision, answer, asked>>
  /\ was' = IF phase \in {"verify", "show"} THEN was \cup {Standing(revision)'} ELSE was

\* The five seconds of a command are over.
Expire ==
  /\ phase \in Commands /\ ~ expired
  /\ expired' = TRUE
  /\ UNCHANGED <<place, objects, cancelled, phase, found, revision, answer, asked, was>>

Cancel ==
  /\ phase # "done" /\ ~ cancelled
  /\ cancelled' = TRUE
  /\ expired' = (phase \in Commands)
  /\ UNCHANGED <<place, objects, phase, found, revision, answer, asked, was>>

-----------------------------------------------------------------------------
(* What the end of a command means                                         *)

\* Wrong variant: the exit code is looked at before the context.
ClassifyByCode(operation, code, missing) ==
  IF code \in {1, 128} /\ (operation = "toplevel" \/ (operation = "verify" /\ missing))
  THEN "not_found" ELSE "unavailable"

\* Wrong variant: every failure of rev-parse is a revision that is not there.
ClassifyAnyMissing(operation, code, missing) ==
  IF expired THEN "context"
  ELSE IF code \in {1, 128} /\ operation \in {"toplevel", "verify"}
       THEN "not_found" ELSE "unavailable"

\* Source.classify: the error of the context comes first; then exit codes 1 and 128 mean that
\* the repository is not there or, if the diagnostic says so, the revision.
classify(operation, code, missing) ==
  IF expired THEN "context"
  ELSE IF code \in {1, 128} /\ (operation = "toplevel" \/ (operation = "verify" /\ missing))
       THEN "not_found" ELSE "unavailable"

\* A command of a directory without repository exits with 128; one that cannot be run has
\* no code, or that of what hinders it.
Codes == IF place = "elsewhere" THEN {128} ELSE {128, -1}

-----------------------------------------------------------------------------
(* Repository                                                              *)

\* The call returned an error: the refresh goes on without Git, or not at all.
NoRepository(outcome) ==
  /\ answer' = [revision |-> None, outcome |-> outcome, sha |-> None]
  /\ phase' = "done"
  /\ UNCHANGED <<found, expired>>

FindToplevel ==
  /\ phase = "toplevel"
  /\ \/ /\ place = "repository" /\ ~ cancelled
        /\ phase' = "origin" /\ expired' = FALSE
        /\ UNCHANGED <<found, answer>>
     \/ place = "repository" /\ cancelled /\ NoRepository("context")
     \/ /\ place # "repository"
        /\ \E code \in Codes : NoRepository(classify("toplevel", code, FALSE))
  /\ UNCHANGED <<place, objects, cancelled, revision, asked, was>>

\* The repository is known by its origin or, if that is no public URL, by its path.
Repository(identity) ==
  /\ found' = identity
  /\ answer' = [revision |-> None, outcome |-> "repository", sha |-> None]
  /\ phase' = "idle"
  /\ UNCHANGED expired

\* An origin is optional: where there is none, the key is not found.
ReadOrigin ==
  /\ phase = "origin"
  /\ \/ place = "repository" /\ \E identity \in {"origin", "local"} : Repository(identity)
     \/ place = "elsewhere" /\ ~ expired /\ Repository("local")
     \/ /\ place = "unusable"
        /\ \E code \in Codes : NoRepository(classify("origin", code, FALSE))
  /\ UNCHANGED <<place, objects, cancelled, revision, asked, was>>

-----------------------------------------------------------------------------
(* ResolveCommit                                                           *)

\* The next revision of the batch.
Ask ==
  /\ phase = "idle" /\ ~ cancelled /\ asked < MaxLookups
  /\ \E r \in Objects : revision' = r /\ was' = {Standing(r)}
  /\ asked' = asked + 1
  /\ phase' = "verify" /\ expired' = FALSE
  /\ UNCHANGED <<place, objects, cancelled, found, answer>>

\* An interrupted lookup ends the refresh.
Return(outcome, sha) ==
  /\ answer' = [revision |-> revision, outcome |-> outcome, sha |-> sha]
  /\ phase' = IF outcome = "context" THEN "done" ELSE "idle"
  /\ UNCHANGED expired

\* rev-parse --verify: the object exists and leads to a commit, which is to be the object.
VerifyRevision ==
  /\ phase = "verify"
  /\ \/ /\ Standing(revision) = "present" /\ PeelsTo[revision] = revision /\ ~ cancelled
        /\ phase' = "show" /\ expired' = FALSE
        /\ UNCHANGED answer
     \/ /\ Standing(revision) = "present" /\ PeelsTo[revision] = revision /\ cancelled
        /\ Return("context", None)
     \/ /\ Standing(revision) = "present" /\ PeelsTo[revision] # revision
        /\ Return("conflict", None)
     \/ /\ Standing(revision) = "absent"
        /\ Return(classify("verify", 128, TRUE), None)
     \/ /\ Standing(revision) = "unusable"
        /\ \E code \in Codes : Return(classify("verify", code, FALSE), None)
  /\ UNCHANGED <<place, objects, cancelled, found, revision, asked, was>>

\* show: the commit that was verified may be gone by now, or too long.
ShowCommit ==
  /\ phase = "show"
  /\ \/ /\ Standing(revision) = "present" /\ revision \notin Long
        /\ Return("commit", revision)
     \/ /\ Standing(revision) = "present" /\ revision \in Long
        /\ Return(classify("show", 0, FALSE), None)
     \/ /\ Standing(revision) # "present"
        /\ Return(classify("show", 128, TRUE), None)
  /\ UNCHANGED <<place, objects, cancelled, found, revision, asked, was>>

-----------------------------------------------------------------------------
(* Ends                                                                    *)

\* exec.CommandContext kills a command whose context has ended: it has no exit code.
Kill ==
  /\ phase \in Commands /\ expired
  /\ IF phase \in {"toplevel", "origin"}
     THEN NoRepository(classify(phase, -1, FALSE))
     ELSE Return(classify(phase, -1, FALSE), None) /\ UNCHANGED found
  /\ UNCHANGED <<place, objects, cancelled, revision, asked, was>>

\* The batch is over, or the loop finds that its caller has given up.
Finish ==
  /\ phase = "idle"
  /\ phase' = "done"
  /\ UNCHANGED <<place, objects, cancelled, expired, found, revision, answer, asked, was>>

Next ==
  \/ RepositoryChanges
  \/ Expire
  \/ Cancel
  \/ FindToplevel
  \/ ReadOrigin
  \/ Ask
  \/ VerifyRevision
  \/ ShowCommit
  \/ Kill
  \/ Finish

\* The timer of a command fires; a killed command returns.
Spec == Init /\ [][Next]_vars /\ WF_vars(Expire) /\ WF_vars(Kill)

-----------------------------------------------------------------------------
(* Properties                                                              *)

\* What Git answered of a revision was so while it was asked: a commit was there and is the
\* one declared, a revision that was not found was not there, and Git is called unavailable
\* only if it was, if the commit vanished between the two commands or if it is too long to
\* be read; never because a command was interrupted.
LookupIsTrue ==
  phase \in {"idle", "done"} /\ revision # None =>
    /\ answer.outcome \in {"commit", "conflict", "not_found", "unavailable", "context"}
    /\ answer.outcome = "commit" => "present" \in was /\ answer.sha = PeelsTo[revision]
    /\ answer.outcome = "conflict" => "present" \in was /\ PeelsTo[revision] # revision
    /\ answer.outcome = "not_found" => "absent" \in was
    /\ answer.outcome = "unavailable" =>
         "unusable" \in was \/ {"present", "absent"} \subseteq was \/ revision \in Long
    /\ answer.outcome = "context" => phase = "done"

\* Each call of Git ends, though its command may hang.
CallsEnd == []<>(phase \notin Commands)
================================================================================
