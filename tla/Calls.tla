--------------------------------- MODULE Calls ---------------------------------
(***************************************************************************)
(* What a command does besides its queries: one refresh (RuntimeRefresh),  *)
(* one fetch (GitHubFetch), one call of Docker (DockerInspection), the     *)
(* calls of one GitSource, one LoadFrozenFile (FrozenFiles), the saves of  *)
(* one store (StoreTransactions), or the Decode of one telemetry file      *)
(* (SpanAggregation).  They share no state, so a behaviour is about one of *)
(* them, `what`, and leaves the variables of the others as they are.       *)
(***************************************************************************)
EXTENDS RuntimeRefresh, SpanAggregation

CONSTANTS Artifacts, Created, Compatible, Agreeing, PageSize, MaxPages, MaxRedirects,
          MaxAttempts, MaxBudget, Waits, Urls, Endpoint, HostOf, Unsafe, \* of GitHubFetch
          Containers, ImageOf, Concurrency,    \* of DockerInspection
          Blocks, MaxWrites, MaxClock,         \* of FrozenFiles
          Full, Deadlines, Attempts, MaxSaves, \* of StoreTransactions
          Objects, PeelsTo, Long, MaxLookups   \* of GitSource

VARIABLES what,
          uploaded, deleted, before, expired, fetchPhase, page, url, auth, visited, attempt,
          waited, usable, chosen, requests, outcome,
          alive, images, daemon, dockerExpired, dockerPhase, listed, queue, work, exited,
          results, dockerOutcome,
          kind, files, at, clock, writes, reading, opened, info, rested, shown, got, loaded,
          pooled, inUse, lowered, lock, step, left, wait, tries, saves,
          place, objects, gitCancelled, gitExpired, gitPhase, found, asking, answer, asked, was

H == INSTANCE GitHubFetch
       WITH phase <- fetchPhase
D == INSTANCE DockerInspection
       WITH expired <- dockerExpired, phase <- dockerPhase, outcome <- dockerOutcome
F == INSTANCE FrozenFiles
T == INSTANCE StoreTransactions
G == INSTANCE GitSource
       WITH cancelled <- gitCancelled, expired <- gitExpired, phase <- gitPhase, revision <- asking

ASSUME CallsAssumption ==
  /\ SkewAssumption /\ RefreshAssumption
  /\ H!FetchAssumption /\ D!DockerAssumption /\ F!FileAssumption
  /\ T!TransactionAssumption /\ G!GitAssumption

refreshVars == vars
ghVars == <<uploaded, deleted, before, expired, fetchPhase, page, url, auth, visited, attempt,
            waited, usable, chosen, requests, outcome>>
dockerVars == <<alive, images, daemon, dockerExpired, dockerPhase, listed, queue, work,
                exited, results, dockerOutcome>>
fileVars == <<kind, files, at, clock, writes, reading, opened, info, rested, shown, got, loaded>>
storeVars == <<pooled, inUse, lowered, lock, step, left, wait, tries, saves>>
gitVars == <<place, objects, gitCancelled, gitExpired, gitPhase, found, asking, answer,
             asked, was>>
callVars == <<what, ghVars, dockerVars, fileVars, storeVars, refreshVars, gitVars, decodeVars>>

\* A component that is not about to act begins in one of its initial states.
CallsInit ==
  /\ what \in {"github", "docker", "file", "store", "refresh", "git", "decode"}
  /\ H!Init /\ (what # "github" => uploaded = {})
  /\ D!Init /\ (what # "docker" => alive = {})
  /\ F!Init /\ (what # "file" => kind = "ledger" /\ clock = 0)
  /\ T!Init
  /\ Init
  /\ G!Init /\ (what # "git" => objects = {} /\ place = "elsewhere")
  /\ DecodeInit /\ (what # "decode" => unread = CHOOSE capture \in Captures : TRUE)

CallsNext ==
  \/ /\ what = "github" /\ H!Next
     /\ UNCHANGED <<what, dockerVars, fileVars, storeVars, refreshVars, gitVars, decodeVars>>
  \/ /\ what = "docker" /\ D!Next
     /\ UNCHANGED <<what, ghVars, fileVars, storeVars, refreshVars, gitVars, decodeVars>>
  \/ /\ what = "file" /\ F!Next
     /\ UNCHANGED <<what, ghVars, dockerVars, storeVars, refreshVars, gitVars, decodeVars>>
  \/ /\ what = "store" /\ T!Next
     /\ UNCHANGED <<what, ghVars, dockerVars, fileVars, refreshVars, gitVars, decodeVars>>
  \/ /\ what = "refresh" /\ Next
     /\ UNCHANGED <<what, ghVars, dockerVars, fileVars, storeVars, gitVars, decodeVars>>
  \/ /\ what = "git" /\ G!Next
     /\ UNCHANGED <<what, ghVars, dockerVars, fileVars, storeVars, refreshVars, decodeVars>>
  \/ /\ what = "decode" /\ DecodeNext
     /\ UNCHANGED <<what, ghVars, dockerVars, fileVars, storeVars, refreshVars, gitVars>>

\* The fairness of each component, while a behaviour is about it: clocks go on, calls and
\* goroutines run.
ClockStep ==
  \/ /\ what = "github" /\ H!Expire
     /\ UNCHANGED <<what, dockerVars, fileVars, storeVars, refreshVars, gitVars, decodeVars>>
  \/ /\ what = "docker" /\ D!Expire
     /\ UNCHANGED <<what, ghVars, fileVars, storeVars, refreshVars, gitVars, decodeVars>>
  \/ /\ what = "store" /\ T!Tick
     /\ UNCHANGED <<what, ghVars, dockerVars, fileVars, refreshVars, gitVars, decodeVars>>
  \/ /\ what = "git" /\ G!Expire
     /\ UNCHANGED <<what, ghVars, dockerVars, fileVars, storeVars, refreshVars, decodeVars>>

CallStep ==
  \/ /\ what = "github" /\ H!OwnStep
     /\ UNCHANGED <<what, dockerVars, fileVars, storeVars, refreshVars, gitVars, decodeVars>>
  \/ /\ what = "docker" /\ D!OwnStep
     /\ UNCHANGED <<what, ghVars, fileVars, storeVars, refreshVars, gitVars, decodeVars>>
  \/ /\ what = "store" /\ T!OwnStep
     /\ UNCHANGED <<what, ghVars, dockerVars, fileVars, refreshVars, gitVars, decodeVars>>
  \/ /\ what = "git" /\ G!Kill
     /\ UNCHANGED <<what, ghVars, dockerVars, fileVars, storeVars, refreshVars, decodeVars>>

GoroutineStep(w) ==
  /\ what = "docker" /\ D!WorkerStep(w)
  /\ UNCHANGED <<what, ghVars, fileVars, storeVars, refreshVars, gitVars, decodeVars>>

CallsSpec ==
  /\ CallsInit /\ [][CallsNext]_callVars
  /\ WF_callVars(ClockStep)
  /\ WF_callVars(CallStep)
  /\ \A w \in D!Workers : WF_callVars(GoroutineStep(w))

-----------------------------------------------------------------------------
(* Properties                                                              *)

\* A batch of Docker accounts for every container listed, and an outage is no batch; what Git
\* answers was so while it was asked, and an interruption is no answer.
SourcesAreTrue == D!BatchAccountsForAll /\ G!LookupIsTrue

\* Whatever GitHub has and however its answers come: the artifact that is stored is the newest
\* there is to be found, and its ledger is that of its run.
NewestIsStored == H!NewestIsStored

\* The token stays with the API's host, and requests and pauses are bounded.
RequestsContained == H!RequestsContained

\* What is loaded from a file is what the file held when it was inspected.
LoadedAsInspected == F!LoadedAsInspected

\* A save leaves its connection as it found it, and BEGIN waits no longer than it may.
PoolIsRestored == T!PoolIsRestored

\* The calls of Docker and of Git and the fetch end by their deadlines, though nobody may
\* answer, and every save ends, though the database may stay locked.
CallsReturn ==
  []<>(CASE what = "github" -> fetchPhase = "done"
         [] what = "docker" -> dockerPhase = "done"
         [] what = "store"  -> step = "idle"
         [] what = "git"    -> gitPhase \notin G!Commands
         [] OTHER -> TRUE)
================================================================================
