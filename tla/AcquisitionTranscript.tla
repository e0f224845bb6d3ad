-------------------------- MODULE AcquisitionTranscript --------------------------
(***************************************************************************)
(* Offline replay of acquisition transcripts (src/acquisition.rs): what    *)
(* `assess` concludes from the requests, responses and termination that a  *)
(* transcript retains.                                                     *)
(*                                                                         *)
(* A request is a page of a population: an endpoint (kind), what it is     *)
(* about (id: a head, a pull request or a revision) and a page counted     *)
(* from 0.  An address under the repository's numeric alias is the request *)
(* it is an alias of (`canonical_github_path`).  The id Elsewhere stands   *)
(* for a query no collector makes of an endpoint that takes no id.         *)
(* A response keeps what later requests and the assessment read from it.   *)
(***************************************************************************)
EXTENDS Integers, Sequences, FiniteSets, FiniteSetsExt

CONSTANTS
    Heads,          \* commits the branch was moved to
    Pulls,          \* pull requests
    Revisions,      \* commits that checks ran on
    RevisionsOf,    \* merge commit and head of each pull request
    SuiteLimit,     \* check runs of a revision the provider enumerates
    Protected,      \* what a protected branch's response names
    NoRequest,
    Unreported      \* no total_count in a response

NoId == 0
Elsewhere == -1

\* What is asked of a provider.
Kinds ==
    {"repository", "branch", "gh_protection", "activity", "pushes", "pulls",
     "pullrequests", "reviews", "check_runs", "status", "threads", "evaluations",
     "commits", "protection", "configurations"}

ASSUME TranscriptAssumption ==
    /\ Heads \subseteq Nat \ {NoId}
    /\ Pulls \subseteq Nat \ {NoId}
    /\ Revisions \subseteq Nat \ {NoId}
    /\ RevisionsOf \in [Pulls -> SUBSET Revisions]
    /\ SuiteLimit \in Nat
    /\ Protected \notin Int /\ Unreported \notin Nat
    /\ NoRequest \notin [kind : Kinds, id : Int, page : Nat]

Page(kind, id, page) == [kind |-> kind, id |-> id, page |-> page]
First(kind, id) == Page(kind, id, 0)
Following(request) == [request EXCEPT !.page = @ + 1]

-----------------------------------------------------------------------------
(***************************************************************************)
(* Contracts.  `branch_protection_gh` is the branch-protection contract as *)
(* the gh command line captures it, with another initial request.          *)
(***************************************************************************)
GithubHistories ==
    {"repository_mutations", "pull_request_reviews", "build_validation_history"}
AzureHistories == {"azure_mutations", "azure_reviews", "azure_validations"}
Histories == GithubHistories \cup AzureHistories
LookedUp == {"commits", "check_runs", "commit_statuses"}
Contracts ==
    Histories \cup LookedUp
        \cup {"branch_protection", "branch_protection_gh", "branch_policy"}

IsAzure(contract) == contract \in AzureHistories \cup {"branch_policy"}

\* The `initial_request` of a transcript.
Opening(contract) ==
    CASE contract = "branch_protection" -> First("branch", NoId)
      [] contract = "branch_protection_gh" -> First("gh_protection", NoId)
      [] OTHER -> First("repository", NoId)

\* The endpoint every page after a repository lookup must name.
LookedUpKind(contract) ==
    CASE contract = "commits" -> "commits"
      [] contract = "check_runs" -> "check_runs"
      [] contract = "commit_statuses" -> "status"

-----------------------------------------------------------------------------
(***************************************************************************)
(* What retained responses name.                                           *)
(***************************************************************************)
Named(xs, kinds) ==
    UNION {xs[i].found : i \in {j \in DOMAIN xs : xs[j].request.kind \in kinds}}

\* `github_activity_heads`: the branch's heads inside the interval.
HeadsIn(xs) == Named(xs, {"activity"})

\* `github_associated_pull_requests`, `azure_devops_pull_request_ids`
PullsIn(xs) == Named(xs, {"pulls", "pullrequests"})

\* `github_validation_revisions`
RevisionsIn(xs) == UNION {RevisionsOf[p] : p \in PullsIn(xs)}

Requested(xs) == {xs[i].request : i \in DOMAIN xs}

-----------------------------------------------------------------------------
(***************************************************************************)
(* The plan, in the order of the requests: identifiers ascend, and a       *)
(* revision's check runs come before its statuses.                         *)
(***************************************************************************)
Rank(kind) ==
    CASE kind \in {"repository", "branch", "gh_protection"} -> 0
      [] kind \in {"activity", "pushes"} -> 1
      [] kind \in {"pulls", "pullrequests"} -> 2
      [] OTHER -> 3

Before(p, q) ==
    \/ Rank(p.kind) < Rank(q.kind)
    \/ Rank(p.kind) = Rank(q.kind) /\ p.id < q.id
    \/ p.id = q.id /\ p.kind = "check_runs" /\ q.kind = "status"

Firsts(kinds, ids) == {First(k, i) : k \in kinds, i \in ids}

\* `planned_github_history`
PlannedGithub(t) ==
    Firsts({"activity"}, {NoId})
    \cup Firsts({"pulls"}, HeadsIn(t.exchanges))
    \cup (IF t.contract = "pull_request_reviews"
          THEN Firsts({"reviews"}, PullsIn(t.exchanges)) ELSE {})
    \cup (IF t.contract = "build_validation_history"
          THEN Firsts({"check_runs", "status"}, RevisionsIn(t.exchanges)) ELSE {})

\* `planned_azure_history`
PlannedAzure(t) ==
    (IF t.contract = "azure_mutations" THEN Firsts({"pushes"}, {NoId}) ELSE {})
    \cup Firsts({"pullrequests"}, {NoId})
    \cup (IF t.contract = "azure_reviews"
          THEN Firsts({"threads"}, PullsIn(t.exchanges)) ELSE {})
    \cup (IF t.contract = "azure_validations"
          THEN Firsts({"evaluations"}, PullsIn(t.exchanges)) ELSE {})

Planned(t) == IF IsAzure(t.contract) THEN PlannedAzure(t) ELSE PlannedGithub(t)

Refused(xs, kind) ==
    \E i \in DOMAIN xs : xs[i].request.kind = kind /\ xs[i].status # "ok"

\* There is no plan without an identified repository, without the request that
\* follows it, or over a population whose error body lists nothing.
Plannable(t) ==
    IF IsAzure(t.contract) THEN t.exchanges[1].status = "ok"
    ELSE /\ Len(t.exchanges) > 1
         /\ ~Refused(t.exchanges, "activity")
         /\ ~(t.contract = "build_validation_history"
              /\ Refused(t.exchanges, "pulls"))

-----------------------------------------------------------------------------
(***************************************************************************)
(* Pages.                                                                  *)
(***************************************************************************)
SkipPaged == {"pushes", "pullrequests", "evaluations"}

\* `next_page_url`: github names the next page; azure's is the same request
\* with the continuation token, or with the $skip of its place in the chain.
NextPage(contract, x, place) ==
    IF x.status # "ok" \/ x.link = NoRequest THEN NoRequest
    ELSE IF ~IsAzure(contract) THEN x.link
    ELSE IF x.request.kind \in SkipPaged
         THEN [x.request EXCEPT !.page = place + 1]
         ELSE Following(x.request)

\* The place of an exchange in its chain and the page after it.
Chained(t, chain, i) ==
    LET x == t.exchanges[i]
        place == IF i > 1 /\ chain[i - 1].next = x.request
                 THEN chain[i - 1].place + 1 ELSE 0
    IN  [place |-> place, next |-> NextPage(t.contract, x, place)]

\* `next_pages`: the page after every exchange, counted along its chain.
NextPages(t) ==
    LET chain[i \in DOMAIN t.exchanges] == Chained(t, chain, i)
    IN  [i \in DOMAIN t.exchanges |-> chain[i].next]

\* `truncated_at`
TruncatedAt(t, next) ==
    t.exchanges # <<>> /\ next[Len(next)] = t.next

-----------------------------------------------------------------------------
(***************************************************************************)
(* A single resource: `invalid_exchange_sequence` and what follows it.     *)
(***************************************************************************)
\* `planned_successor`: the request planned after the first exchange.  The one
\* after a repository lookup is known from the request that follows it.
PlannedSuccessor(t, followed) ==
    IF t.exchanges[1].status # "ok" THEN {}
    ELSE CASE t.contract = "branch_protection" ->
                  IF Protected \in t.exchanges[1].found
                  THEN Firsts({"protection"}, {NoId}) ELSE {}
           [] t.contract = "branch_policy" -> Firsts({"configurations"}, {NoId})
           [] t.contract \in LookedUp /\ followed ->
                  Firsts({LookedUpKind(t.contract)}, {NoId})
           [] OTHER -> {}

InvalidSequence(t, next) ==
    \/ t.exchanges # <<>> /\ t.exchanges[1].request # t.opening
    \/ /\ t.contract \in LookedUp
       /\ \E i \in DOMAIN t.exchanges \ {1} :
            t.exchanges[i].request.kind # LookedUpKind(t.contract)
    \/ \E i \in DOMAIN t.exchanges \ {1} :
        LET planned == IF i = 2 THEN PlannedSuccessor(t, TRUE) ELSE {} IN
        IF planned # {} THEN t.exchanges[i].request \notin planned
        ELSE next[i - 1] # t.exchanges[i].request

AfterLookup(t) ==
    IF t.contract \in LookedUp
    THEN {i \in DOMAIN t.exchanges : i > 1} ELSE DOMAIN t.exchanges

ItemsIn(xs, places) == MapThenSumSet(LAMBDA i : xs[i].items, places)

\* `assess_github_result_count`: the first page's total against what was kept.
\* "agrees" goes on to the terminal page.
ResultCount(t) ==
    LET pages == AfterLookup(t) IN
    IF t.contract \notin {"check_runs", "commit_statuses"} THEN "agrees"
    ELSE IF pages = {} \/ t.exchanges[2].total = Unreported THEN "Failed"
    ELSE IF t.exchanges[2].total # ItemsIn(t.exchanges, pages) THEN "Truncated"
    ELSE "agrees"

Terminal(t, next) ==
    /\ AfterLookup(t) # {}
    /\ t.exchanges[Len(t.exchanges)].status = "ok"
    /\ next[Len(next)] = NoRequest

\* The status of every other way to end.
StatusOf(termination) ==
    IF termination = "UnsafeRedirect" THEN "Failed" ELSE termination

AssessSingle(t, next) ==
    IF InvalidSequence(t, next) THEN "Failed"
    ELSE CASE t.termination = "Exhausted" ->
                  IF ResultCount(t) # "agrees" THEN ResultCount(t)
                  ELSE IF /\ Terminal(t, next)
                          /\ Len(t.exchanges) = 1 => PlannedSuccessor(t, FALSE) = {}
                       THEN "Complete" ELSE "Failed"
           [] t.termination = "Truncated" ->
                  IF TruncatedAt(t, next) THEN "Truncated" ELSE "Failed"
           [] OTHER -> StatusOf(t.termination)

-----------------------------------------------------------------------------
(***************************************************************************)
(* A history: `assess_composite_enumeration`.                              *)
(***************************************************************************)
\* `historical_request_allowed`, `github_request_allowed`
Allowed(t, request) ==
    LET c == t.contract
        kind == request.kind
    IN  IF request = t.opening THEN TRUE
        ELSE IF IsAzure(c)
        THEN /\ t.exchanges[1].status = "ok"
             /\ \/ kind = "pushes" /\ c = "azure_mutations"
                \/ kind = "pullrequests"
                \/ kind = "threads" /\ c = "azure_reviews"
                \/ kind = "evaluations" /\ c = "azure_validations"
        ELSE \/ kind \in {"activity", "pulls"}
             \/ kind \in {"check_runs", "status"} /\ c = "build_validation_history"
             \/ kind = "reviews" /\ c = "pull_request_reviews"

InvalidComposite(t, next) ==
    \/ t.exchanges = <<>>
    \/ t.exchanges[1].request # t.opening
    \/ \E r \in Requested(t.exchanges) : ~Allowed(t, r)
    \/ \E i \in DOMAIN t.exchanges \ {1} :
        next[i - 1] # NoRequest /\ next[i - 1] # t.exchanges[i].request

\* `incomplete_github_validation_population`
CountFails(xs, kind, revision) ==
    LET pages == {i \in DOMAIN xs :
                    xs[i].request.kind = kind /\ xs[i].request.id = revision}
        reports == {i \in pages : xs[i].total # Unreported}
        reported == xs[Min(reports)].total
    IN  \/ reports = {}
        \/ reported # ItemsIn(xs, pages)
        \/ kind = "check_runs" /\ reported > SuiteLimit

\* Slip: a page that a response names need not be there.
IncompletePagesLeft(t, next) ==
    \/ \E i \in DOMAIN t.exchanges : t.exchanges[i].status # "ok"
    \/ ~Plannable(t)
    \/ \E p \in Planned(t) : p \notin Requested(t.exchanges)

\* `incomplete_composite_population`
Incomplete(t, next) ==
    LET requested == Requested(t.exchanges) IN
    \/ \E i \in DOMAIN t.exchanges :
        \/ t.exchanges[i].status # "ok"
        \/ next[i] # NoRequest /\ next[i] \notin requested
    \/ ~Plannable(t)
    \/ \E p \in Planned(t) : p \notin requested
    \/ /\ t.contract = "build_validation_history"
       /\ \E r \in RevisionsIn(t.exchanges), kind \in {"check_runs", "status"} :
            CountFails(t.exchanges, kind, r)

\* Slip: a population may be missing before the last one reached.
UnplannedWithGaps(t, next) ==
    \/ ~Plannable(t)
    \/ \E i \in DOMAIN t.exchanges \ {1} :
        /\ next[i - 1] # t.exchanges[i].request
        /\ t.exchanges[i].request \notin Planned(t)

\* `unplanned_composite_population`: a population that no plan opens, or a
\* planned one that is missing before the last one reached.
Unplanned(t, next) ==
    LET requested == Requested(t.exchanges)
        planned == Planned(t)
    IN  \/ ~Plannable(t)
        \/ \E i \in DOMAIN t.exchanges \ {1} :
            /\ next[i - 1] # t.exchanges[i].request
            /\ t.exchanges[i].request \notin planned
        \/ planned \cap requested = {}
        \/ \E p \in planned \ requested, q \in planned \cap requested : Before(p, q)

AssessComposite(t, next) ==
    IF InvalidComposite(t, next) THEN "Failed"
    ELSE CASE t.termination = "Exhausted" ->
                  IF Incomplete(t, next) \/ Unplanned(t, next)
                  THEN "Failed" ELSE "Complete"
           [] t.termination = "Truncated" ->
                  IF TruncatedAt(t, next) /\ ~Unplanned(t, next)
                  THEN "Truncated" ELSE "Failed"
           [] OTHER -> StatusOf(t.termination)

\* `assess_enumeration`
Assess(t) ==
    IF t.contract \in Histories THEN AssessComposite(t, NextPages(t))
    ELSE AssessSingle(t, NextPages(t))

\* `assess`: a truncated history keeps authority over what it retained.
Authoritative(t) ==
    \/ Assess(t) = "Complete"
    \/ t.contract \in Histories /\ Assess(t) = "Truncated"

=============================================================================
