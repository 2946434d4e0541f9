------------------------------- MODULE GitHubFetch ------------------------------
(***************************************************************************)
(* One `prodmap deployments sync github-actions`: list the artifacts of a  *)
(* name page by page, choose one, download it through redirects, check     *)
(* what came, and hand it to the store.  Every request may be retried, may *)
(* never be answered, and is under the deadline of the fetch; artifacts    *)
(* are uploaded and deleted meanwhile.                                     *)
(*                                                                         *)
(* Artifacts are integers, their IDs.  GitHub promises no order; here it   *)
(* lists the latest ID first, whereas the times of creation may be any.    *)
(***************************************************************************)
EXTENDS Integers, FiniteSets

CONSTANTS Artifacts,   \* the artifacts there may be
          Created,     \* when each was created
          Compatible,  \* those of the name, unexpired, with a digest and a workflow run
          Agreeing,    \* those with a valid ledger that agrees with the head of the run
          PageSize, MaxPages, MaxRedirects, MaxAttempts, MaxBudget,
          Waits,       \* the seconds an answer may ask to wait
          Urls,        \* where a download may be redirected to
          Endpoint,    \* the URL of the artifact at the API
          HostOf,      \* the host of each URL
          Unsafe,      \* the URLs that are not https, or of a private host
          None

VARIABLES uploaded, \* the artifacts GitHub has now
          deleted,  \* TRUE once one was deleted since the fetch began
          before,   \* the artifacts there were when it began
          expired,  \* TRUE once the context of the fetch has ended
          phase,    \* where the fetch is
          page,     \* the page of the listing it is at
          url,      \* the URL of the download, None while it lists
          auth,     \* TRUE if the next request carries the token
          visited,  \* the URLs of the download so far
          attempt,  \* retries of the present request
          waited,   \* seconds slept between them
          usable,   \* the compatible artifacts listed so far
          chosen,   \* the artifact selected
          requests, \* requests sent
          outcome   \* what the command ends with
vars == <<uploaded, deleted, before, expired, phase, page, url, auth, visited,
          attempt, waited, usable, chosen, requests, outcome>>

github   == <<uploaded, deleted, before>>
request  == <<attempt, waited>>
listing  == <<page, usable, chosen>>
download == <<url, auth, visited>>

Error(cause) == [kind |-> "error", cause |-> cause]

FetchAssumption ==
  /\ Artifacts \subseteq Int /\ IsFiniteSet(Artifacts) /\ Created \in [Artifacts -> Int]
  /\ PageSize \in Nat \ {0} /\ MaxPages \in Nat \ {0} /\ MaxAttempts \in Nat \ {0}
  /\ MaxRedirects \in Nat /\ MaxBudget \in Nat /\ Waits \subseteq Int
  /\ None \notin Urls \cup {Endpoint} /\ Endpoint \notin Unsafe
  /\ None \notin Artifacts /\ None # Error("absent")

Stored(a, ledger) == [kind |-> "stored", artifact |-> a, ledger |-> ledger]

Init ==
  /\ uploaded \in SUBSET Artifacts
  /\ before = uploaded
  /\ deleted = FALSE
  /\ expired = FALSE
  /\ phase = "start"
  /\ page = 1
  /\ url = None
  /\ auth = TRUE
  /\ visited = {}
  /\ attempt = 0
  /\ waited = 0
  /\ usable = {}
  /\ chosen = None
  /\ requests = 0
  /\ outcome = None

-----------------------------------------------------------------------------
(* GitHub and the clock                                                    *)

Upload ==
  /\ \E a \in Artifacts \ uploaded :
       /\ \A b \in uploaded \cup before : a > b
       /\ uploaded' = uploaded \cup {a}
  /\ UNCHANGED <<deleted, before, expired, phase, request, listing, download, requests, outcome>>

Delete ==
  /\ \E a \in uploaded : uploaded' = uploaded \ {a}
  /\ deleted' = TRUE
  /\ UNCHANGED <<before, expired, phase, request, listing, download, requests, outcome>>

\* The timeout of the fetch, or a cancellation.
Expire ==
  /\ ~expired
  /\ expired' = TRUE
  /\ UNCHANGED <<github, phase, request, listing, download, requests, outcome>>

-----------------------------------------------------------------------------
(* One request, with its retries                                           *)

\* The flags, the token and the query are valid, or the command ends at once.
Start ==
  /\ phase = "start"
  /\ phase' = "send"
  /\ UNCHANGED <<github, expired, request, listing, download, requests, outcome>>

End(what) ==
  /\ outcome' = what
  /\ phase' = "done"

Fails(cause) ==
  /\ End(Error(cause))
  /\ UNCHANGED <<github, expired, request, listing, download, requests>>

Refuse == phase = "start" /\ Fails("invalid")

Send ==
  /\ phase = "send"
  /\ ~expired
  /\ phase' = "flight"
  /\ requests' = requests + 1
  /\ UNCHANGED <<github, expired, request, listing, download, outcome>>

\* Wrong variant: a request is sent without the context.
InterruptedBetween ==
  /\ phase \in {"send", "sleep"}
  /\ expired
  /\ Fails("context")

\* The context has ended: before a request, in one that is not answered, or in a sleep.
Interrupted ==
  /\ phase \in {"send", "flight", "sleep"}
  /\ expired
  /\ Fails("context")

\* The transport fails, which is not retried.
TransportFails == phase = "flight" /\ Fails("unavailable")

\* Wrong variant: the pause is what the header says, be it nothing.
DelayAsTold(w) == w

\* retryDelay, and at least a second.
Delay(w) == IF w <= 0 THEN 1 ELSE w

\* Wrong variant: attempts are counted over, after a pause.
RetryForever ==
  /\ phase = "flight"
  /\ \E w \in Waits :
       /\ waited + Delay(w) <= MaxBudget
       /\ waited' = waited + Delay(w)
  /\ phase' = "sleep"
  /\ UNCHANGED <<github, expired, attempt, listing, download, requests, outcome>>

\* A busy answer or a rate limit, which leaves the budget room for a pause.
Retry ==
  /\ phase = "flight"
  /\ attempt < MaxAttempts - 1
  /\ \E w \in Waits :
       /\ waited + Delay(w) <= MaxBudget
       /\ waited' = waited + Delay(w)
  /\ attempt' = attempt + 1
  /\ phase' = "sleep"
  /\ UNCHANGED <<github, expired, listing, download, requests, outcome>>

Wake ==
  /\ phase = "sleep"
  /\ phase' = "send"
  /\ UNCHANGED <<github, expired, request, listing, download, requests, outcome>>

BudgetExhausted ==
  /\ phase = "flight"
  /\ attempt < MaxAttempts - 1
  /\ \E w \in Waits : waited + Delay(w) > MaxBudget
  /\ Fails("unavailable")

\* Any other status, a busy answer to the last attempt, and a body that is too long or
\* does not decode.
Refused ==
  /\ phase = "flight"
  /\ \E cause \in {"unauthorized", "not found", "unavailable", "incompatible"} : Fails(cause)

-----------------------------------------------------------------------------
(* The listing                                                             *)

Listed(n) ==
  LET rank(a) == Cardinality({b \in uploaded : b >= a})
  IN {a \in uploaded : rank(a) \in ((n - 1) * PageSize + 1)..(n * PageSize)}

\* Wrong variant: a page with an artifact that is not compatible is taken for the last.
LastUsable(found) == Cardinality(found \cap Compatible) < PageSize \/ page = MaxPages

Last(found) == Cardinality(found) < PageSize \/ page = MaxPages

\* Wrong variant: the latest ID is taken for the latest artifact.
NewestByID(S) == CHOOSE a \in S : \A b \in S \ {a} : a > b

Newer(a, b) == Created[a] > Created[b] \/ (Created[a] = Created[b] /\ a > b)

Newest(S) == CHOOSE a \in S : \A b \in S \ {a} : Newer(a, b)

ListedSoFar == usable \cup (Listed(page) \cap Compatible)

NextPage ==
  /\ phase = "flight" /\ url = None
  /\ ~Last(Listed(page))
  /\ usable' = ListedSoFar
  /\ page' = page + 1
  /\ attempt' = 0 /\ waited' = 0
  /\ phase' = "send"
  /\ UNCHANGED <<github, expired, chosen, download, requests, outcome>>

\* The last page: an artifact is chosen, and its download begins at the API.
LastPage ==
  /\ phase = "flight" /\ url = None
  /\ Last(Listed(page))
  /\ usable' = ListedSoFar
  /\ ListedSoFar # {}
  /\ chosen' = Newest(ListedSoFar)
  /\ url' = Endpoint
  /\ visited' = {Endpoint}
  /\ attempt' = 0 /\ waited' = 0
  /\ phase' = "send"
  /\ UNCHANGED <<github, expired, page, auth, requests, outcome>>

NoneUsable ==
  /\ phase = "flight" /\ url = None
  /\ Last(Listed(page))
  /\ ListedSoFar = {}
  /\ Fails("absent")

-----------------------------------------------------------------------------
(* The download                                                            *)

\* Wrong variant: the token goes wherever the API redirects to.
KeepsTokenAlways(next) == auth

\* Wrong variant: the token goes to the API's host, by whatever way it got there.
KeepsTokenAtHome(next) == HostOf[next] = HostOf[Endpoint]

KeepsToken(next) == auth /\ HostOf[url] = HostOf[next]

\* Wrong variant: a location is followed wherever it leads.
MayFollowAnywhere(next) == Cardinality(visited) - 1 < MaxRedirects

MayFollow(next) ==
  /\ Cardinality(visited) - 1 < MaxRedirects
  /\ next \notin visited
  /\ next \notin Unsafe

Redirect ==
  /\ phase = "flight" /\ url # None
  /\ \E next \in Urls :
       /\ MayFollow(next)
       /\ auth' = KeepsToken(next)
       /\ url' = next
       /\ visited' = visited \cup {next}
  /\ attempt' = 0 /\ waited' = 0
  /\ phase' = "send"
  /\ UNCHANGED <<github, expired, listing, requests, outcome>>

\* A redirect too many, a loop, or a location that is refused.
RedirectRefused ==
  /\ phase = "flight" /\ url # None
  /\ \E next \in Urls : ~MayFollow(next)
  /\ Fails("incompatible")

\* Wrong variant: the archive is taken for the artifact it was asked for.
DigestUnchecked(a) == TRUE

\* digestMatches: the archive is that of the artifact chosen.
DigestMatches(a) == a = chosen

\* Wrong variant: the revision of the run is not compared.
LedgerUnchecked(a) == TRUE

\* unzipLedger, LoadGitHubActionsLedger and crossCheckWorkflowHead, and
\* ValidateSourceResult again before the store is opened.
LedgerAgrees(a) == a \in Agreeing

\* Some archive comes, the one asked for as a rule, and its ledger is accepted.
Downloaded ==
  /\ phase = "flight" /\ url # None
  /\ \E a \in Artifacts :
       /\ DigestMatches(a) /\ LedgerAgrees(a)
       /\ End(Stored(chosen, a))
  /\ UNCHANGED <<github, expired, request, listing, download, requests>>

\* An archive that is not the one asked for, or whose ledger is not accepted, and the
\* errors of the store.
DownloadRefused ==
  /\ phase = "flight" /\ url # None
  /\ \E a \in Artifacts : ~DigestMatches(a) \/ ~LedgerAgrees(a)
  /\ Fails("incompatible")

StoreFails == phase = "flight" /\ url # None /\ Fails("store")

Next ==
  \/ Upload \/ Delete \/ Expire
  \/ Start \/ Refuse \/ Send
  \/ Interrupted \/ TransportFails \/ Retry \/ Wake \/ BudgetExhausted \/ Refused
  \/ NextPage \/ LastPage \/ NoneUsable
  \/ Redirect \/ RedirectRefused \/ Downloaded \/ DownloadRefused \/ StoreFails

\* What the command does of its own accord.
OwnStep == Start \/ Interrupted

(***************************************************************************)
(* The program runs and its timers fire.  That GitHub ever answers is not  *)
(* assumed.                                                                *)
(***************************************************************************)
Fairness == WF_vars(Expire) /\ WF_vars(OwnStep)

Spec == Init /\ [][Next]_vars /\ Fairness

-----------------------------------------------------------------------------
(* Properties                                                              *)

Fits == Cardinality(uploaded) <= MaxPages * PageSize

\* While nothing is deleted and the pages suffice, no compatible artifact that was there
\* when the fetch began is newer than the one chosen, and none was if none is found; and
\* the ledger that is stored is that of the artifact chosen, and agrees with its run.
NewestIsStored ==
  /\ (chosen # None /\ ~deleted /\ Fits) =>
       \A a \in (before \cap Compatible) \ {chosen} :
         /\ Created[a] <= Created[chosen]
         /\ Created[a] = Created[chosen] => a < chosen
  /\ (outcome = Error("absent") /\ ~deleted /\ Fits) => before \cap Compatible = {}
  /\ (outcome # None /\ outcome.kind = "stored") =>
       /\ outcome.artifact = chosen /\ outcome.ledger = chosen
       /\ chosen \in Compatible \cap Agreeing

\* The token goes to the host of the API and is not taken up again once a redirect has
\* left it; a host that is refused is never asked; and whatever GitHub answers, the
\* requests are bounded, with a pause before each that is a retry.
RequestsContained ==
  /\ (phase = "flight" /\ auth /\ url # None) =>
       \A u \in visited : HostOf[u] = HostOf[Endpoint]
  /\ visited \cap Unsafe = {}
  /\ requests <= MaxAttempts * (MaxPages + MaxRedirects + 1)
  /\ attempt <= waited /\ waited <= MaxBudget

\* The command ends by its deadline, though no request may ever be answered.
FetchEnds == <>(phase = "done")
=============================================================================
