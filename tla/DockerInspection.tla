--------------------------- MODULE DockerInspection ---------------------------
(***************************************************************************)
(* One call of docker.Source.InspectRuntime: list the containers, inspect  *)
(* each of them and its image on a small pool of workers, and collect the  *)
(* results in the order of the list, while containers and images are       *)
(* removed, the daemon stops and starts, and the deadline of the call      *)
(* passes or its caller cancels it.                                        *)
(*                                                                         *)
(* What Docker says of a container is left out; containers are integers in *)
(* the textual order of their IDs.                                         *)
(***************************************************************************)
EXTENDS Integers, Sequences, FiniteSets

CONSTANTS Containers,  \* IDs of the containers there may be
          ImageOf,     \* the image of each container
          Concurrency, \* how many are inspected at once
          None

DockerAssumption ==
  /\ Containers \subseteq Int /\ IsFiniteSet(Containers)
  /\ DOMAIN ImageOf = Containers
  /\ Concurrency \in Nat \ {0}
  /\ None \notin Containers \cup [index : 1..Cardinality(Containers), container : Containers,
                                  stage : {"container", "image"}]
                              \cup [kind : {"observed", "disappeared", "unavailable", "failed",
                                            "context"},
                                    container : Containers]

VARIABLES alive,   \* the containers that exist now
          images,  \* the images that exist now
          daemon,  \* "up" or "down"
          expired, \* TRUE once the context of the call has ended
          phase,   \* where the call is
          listed,  \* the sorted container IDs
          queue,   \* the indexes in the channel of jobs
          work,    \* the job of each worker, None between jobs
          exited,  \* the workers that have ended, or were not needed
          results, \* one result for each container listed
          outcome  \* what the call returns
environment == <<alive, images, daemon, expired>>
vars == <<environment, phase, listed, queue, work, exited, results, outcome>>

Workers == 1..Concurrency

Images == {ImageOf[c] : c \in Containers}

Init ==
  /\ alive \in SUBSET Containers
  /\ images = Images
  /\ daemon = "up"
  /\ expired = FALSE
  /\ phase = "list"
  /\ listed = <<>>
  /\ queue = <<>>
  /\ work = [w \in Workers |-> None]
  /\ exited = {}
  /\ results = <<>>
  /\ outcome = None

-----------------------------------------------------------------------------
(* What happens around the call                                            *)

RemoveContainer ==
  /\ \E c \in alive : alive' = alive \ {c}
  /\ UNCHANGED <<images, daemon, expired, phase, listed, queue, work, exited, results, outcome>>

RemoveImage ==
  /\ \E i \in images : images' = images \ {i}
  /\ UNCHANGED <<alive, daemon, expired, phase, listed, queue, work, exited, results, outcome>>

DaemonTurns ==
  /\ daemon' = IF daemon = "up" THEN "down" ELSE "up"
  /\ UNCHANGED <<alive, images, expired, phase, listed, queue, work, exited, results, outcome>>

\* The timeout of the call, or a cancellation by its caller.
Expire ==
  /\ ~expired
  /\ expired' = TRUE
  /\ UNCHANGED <<alive, images, daemon, phase, listed, queue, work, exited, results, outcome>>

-----------------------------------------------------------------------------
(* The list                                                                *)

Error(cause) == [kind |-> "error", cause |-> cause]

Batch(observations, rejected) ==
  [kind |-> "batch", observations |-> observations, rejected |-> rejected]

Sorted(S) ==
  CHOOSE q \in [1..Cardinality(S) -> S] :
    \A m, n \in DOMAIN q : m < n => q[m] < q[n]

\* The list is taken, the channel filled and closed, and the workers started:
\* no more of them than there are jobs.
List ==
  /\ phase = "list"
  /\ ~expired /\ daemon = "up"
  /\ listed' = Sorted(alive)
  /\ IF alive = {}
     THEN /\ outcome' = Batch(<<>>, 0)
          /\ phase' = "done"
          /\ UNCHANGED <<queue, exited, results>>
     ELSE /\ queue' = [n \in 1..Cardinality(alive) |-> n]
          /\ results' = [n \in 1..Cardinality(alive) |-> None]
          /\ exited' = {w \in Workers : w > Cardinality(alive)}
          /\ phase' = "inspect"
          /\ UNCHANGED outcome
  /\ UNCHANGED <<environment, work>>

\* docker ps fails, its output does not parse, or the context has ended.
ListFails ==
  /\ phase = "list"
  /\ \E cause \in IF expired THEN {"context"} ELSE {"unavailable", "failed"} :
       outcome' = Error(cause)
  /\ phase' = "done"
  /\ UNCHANGED <<environment, listed, queue, work, exited, results>>

-----------------------------------------------------------------------------
(* The workers.  A job is a record with index, container and stage.        *)

Job(n, stage) == [index |-> n, container |-> listed[n], stage |-> stage]

Busy(w) == work[w] # None

Idle(w) == phase = "inspect" /\ w \notin exited /\ work[w] = None

TakeJob(w) ==
  /\ Idle(w)
  /\ queue # <<>>
  /\ work' = [work EXCEPT ![w] = Job(Head(queue), "container")]
  /\ queue' = Tail(queue)
  /\ UNCHANGED <<environment, phase, listed, exited, results, outcome>>

\* range jobs ends: the channel is closed and empty.
Exit(w) ==
  /\ Idle(w)
  /\ queue = <<>>
  /\ exited' = exited \cup {w}
  /\ UNCHANGED <<environment, phase, listed, queue, work, results, outcome>>

\* Wrong variant: results are stored in the order in which they come.
SlotOfArrival(job) ==
  CHOOSE n \in DOMAIN results :
    results[n] = None /\ \A m \in DOMAIN results : results[m] = None => n <= m

\* results[item.index]
Slot(job) == job.index

\* Worker w is done with its container, in the way that kind tells.
Answer(w, kind) ==
  /\ results' = [results EXCEPT ![Slot(work[w])] =
                   [kind |-> kind, container |-> work[w].container]]
  /\ work' = [work EXCEPT ![w] = None]
  /\ UNCHANGED <<environment, phase, listed, queue, exited, outcome>>

\* docker container inspect succeeds; the image is inspected next.
ContainerInspected(w) ==
  /\ Busy(w) /\ work[w].stage = "container"
  /\ ~expired /\ daemon = "up"
  /\ work[w].container \in alive
  /\ work' = [work EXCEPT ![w].stage = "image"]
  /\ UNCHANGED <<environment, phase, listed, queue, exited, results, outcome>>

\* docker image inspect succeeds, and the observation is complete.
ImageInspected(w) ==
  /\ Busy(w) /\ work[w].stage = "image"
  /\ ~expired /\ daemon = "up"
  /\ ImageOf[work[w].container] \in images
  /\ Answer(w, "observed")

\* "no such container", "no such image": the object is gone since it was listed.
Disappeared(w) ==
  /\ Busy(w)
  /\ ~expired /\ daemon = "up"
  /\ \/ work[w].stage = "container" /\ work[w].container \notin alive
     \/ work[w].stage = "image" /\ ImageOf[work[w].container] \notin images
  /\ Answer(w, "disappeared")

\* The command cannot reach the daemon.
Unavailable(w) ==
  /\ Busy(w)
  /\ ~expired /\ daemon = "down"
  /\ Answer(w, "unavailable")

\* Any other error of a command, and output that is too long, does not decode,
\* or names another object.
ItemFails(w) ==
  /\ Busy(w)
  /\ ~expired
  /\ Answer(w, "failed")

\* Wrong variant: only the first command of an inspection heeds the context.
InterruptedOnlyFirst(w) ==
  /\ Busy(w) /\ work[w].stage = "container"
  /\ expired
  /\ Answer(w, "context")

\* The context kills the command, or prevents the next one.
Interrupted(w) ==
  /\ Busy(w)
  /\ expired
  /\ Answer(w, "context")

-----------------------------------------------------------------------------
(* The collection                                                          *)

Kinds(kinds) == {n \in DOMAIN results : results[n].kind \in kinds}

\* Wrong variant: a container that disappeared is passed over.
RejectedButDisappeared == Cardinality(Kinds({"failed"}))

Rejected == Cardinality(Kinds({"failed", "disappeared"}))

\* In the order of the list.
Observations ==
  LET observed == Sorted(Kinds({"observed"}))
  IN  [n \in DOMAIN observed |-> results[observed[n]].container]

\* Wrong variant: an outage is one more failed inspection.
FatalContextOnly(n) == results[n].kind = "context"

\* The results that refuse the whole batch.
Fatal(n) == results[n].kind \in {"context", "unavailable"}

\* Wrong variant: what is left of the list is returned, be it nothing.
CollectedAnyway ==
  IF \E n \in DOMAIN results : Fatal(n)
  THEN Error(results[CHOOSE n \in DOMAIN results :
                       Fatal(n) /\ \A m \in 1..(n - 1) : ~Fatal(m)].kind)
  ELSE Batch(Observations, Rejected)

\* The first fatal result decides; a list of which nothing is left is an error.
Collected ==
  IF \E n \in DOMAIN results : Fatal(n)
  THEN Error(results[CHOOSE n \in DOMAIN results :
                       Fatal(n) /\ \A m \in 1..(n - 1) : ~Fatal(m)].kind)
  ELSE IF Observations = <<>> /\ Rejected > 0
       THEN Error(IF Kinds({"failed"}) # {} THEN "failed" ELSE "disappeared")
       ELSE Batch(Observations, Rejected)

\* workers.Wait() returns, and the context is looked at once more.
Collect ==
  /\ phase = "inspect"
  /\ exited = Workers
  /\ outcome' = IF expired THEN Error("context") ELSE Collected
  /\ phase' = "done"
  /\ UNCHANGED <<environment, listed, queue, work, exited, results>>

Next ==
  \/ RemoveContainer
  \/ RemoveImage
  \/ DaemonTurns
  \/ Expire
  \/ List
  \/ ListFails
  \/ \E w \in Workers : TakeJob(w)
  \/ \E w \in Workers : Exit(w)
  \/ \E w \in Workers : ContainerInspected(w)
  \/ \E w \in Workers : ImageInspected(w)
  \/ \E w \in Workers : Disappeared(w)
  \/ \E w \in Workers : Unavailable(w)
  \/ \E w \in Workers : ItemFails(w)
  \/ \E w \in Workers : Interrupted(w)
  \/ Collect

\* What the caller does of its own accord.
OwnStep == (expired /\ ListFails) \/ Collect

\* What a goroutine does of its own accord.
WorkerStep(w) == TakeJob(w) \/ Exit(w) \/ Interrupted(w)

(***************************************************************************)
(* The timer of the context fires, goroutines run, and a command that is   *)
(* killed returns.  That a command ever answers is not assumed.            *)
(***************************************************************************)
Fairness ==
  /\ WF_vars(Expire)
  /\ WF_vars(OwnStep)
  /\ \A w \in Workers : WF_vars(WorkerStep(w))

Spec == Init /\ [][Next]_vars /\ Fairness

-----------------------------------------------------------------------------
(* Properties                                                              *)

IsBatch == outcome # None /\ outcome.kind = "batch"

\* A batch is in the order of the list, whatever order the workers worked in,
\* and accounts for every container listed: what is not observed is counted,
\* and is gone or could not be inspected.  An outage of the daemon, or the end of the
\* context, before every inspection has ended never shows as a smaller batch, and an
\* empty one says that no container was there, not that none was left.
BatchAccountsForAll ==
  IsBatch =>
    /\ \A m, n \in DOMAIN outcome.observations :
         m < n => outcome.observations[m] < outcome.observations[n]
    /\ Len(outcome.observations) + outcome.rejected = Len(listed)
    /\ \A n \in DOMAIN listed :
         \/ \E m \in DOMAIN outcome.observations : outcome.observations[m] = listed[n]
         \/ results[n].kind = "failed"
         \/ listed[n] \notin alive \/ ImageOf[listed[n]] \notin images
    /\ \A n \in DOMAIN results : results[n].kind \notin {"unavailable", "context"}
    /\ outcome.observations = <<>> => listed = <<>>

\* The call returns by its deadline, though no command may ever answer.
CallReturns == <>(phase = "done")
===============================================================================
