------------------------------- MODULE Acquisition -------------------------------
(***************************************************************************)
(* One acquisition (src/acquisition.rs), from its first request to a       *)
(* sealed transcript, and what offline replay makes of that transcript and *)
(* of others that were made from it.                                       *)
(*                                                                         *)
(* The collector reads the opening request, then the populations of each   *)
(* stage, page after page; what the responses of one stage name decides    *)
(* the populations of the next.  The provider answers anything: refusals,  *)
(* pages without end, counts that do not add up.                           *)
(***************************************************************************)
EXTENDS AcquisitionTranscript, SequencesExt

CONSTANTS
    Collected,      \* contracts to collect, a subset of Contracts
    Limits,         \* the max_pages a source may be configured with
    Refusals,       \* statuses other than "ok" that the provider answers
    MaxLinks        \* bound on the responses that name a further page,
                    \* per contract

Statuses == {"ok", "moved", "unauthenticated", "forbidden", "rate_limited",
             "missing", "broken"}

ASSUME AcquisitionAssumption ==
    /\ Collected \subseteq Contracts
    /\ Limits \subseteq Nat \ {0}
    /\ Refusals \subseteq Statuses \ {"ok"}
    /\ MaxLinks \in [Collected -> Nat]

VARIABLES
    contract,       \* what is collected
    limit,          \* its page limit
    stage,          \* of the collector, 0 to 3
    todo,           \* first requests of the stage's remaining populations
    request,        \* the next request of the population being read
    exchanges,      \* retained so far
    ended,          \* the termination, "collecting" before it
    cut,            \* the next_url of a truncation
    altered         \* the sealed transcript is no longer the collector's

vars == <<contract, limit, stage, todo, request, exchanges, ended, cut, altered>>
plan == <<contract, limit>>

Transcript ==
    [contract |-> contract, opening |-> Opening(contract),
     exchanges |-> exchanges, termination |-> ended, next |-> cut]

Init ==
    /\ contract \in Collected
    /\ limit \in Limits
    /\ stage = 0
    /\ todo = {Opening(contract)}
    /\ request = NoRequest
    /\ exchanges = <<>>
    /\ ended = "collecting"
    /\ cut = NoRequest
    /\ altered = FALSE

-----------------------------------------------------------------------------
(***************************************************************************)
(* The provider.                                                           *)
(***************************************************************************)
Lists(kind) ==
    CASE kind = "activity" -> SUBSET Heads
      [] kind \in {"pulls", "pullrequests"} -> {{}} \cup {{p} : p \in Pulls}
      [] kind = "branch" -> {{}, {Protected}}
      [] OTHER -> {{}}

\* Endpoints that answer with one object, and ones that report a total.
Objects == {"repository", "branch", "gh_protection", "protection"}
Counted == {"check_runs", "status"}

Items(kind) == IF kind \in Counted THEN {0, 1} ELSE {0}

\* The first page reports a total: what it holds, or one more; an empty one may
\* leave the total out.
Totals(r, items) ==
    IF r.kind \notin Counted \/ r.page > 0 THEN {Unreported}
    ELSE IF items = 0 THEN {0, Unreported} ELSE {items, items + 1}

Links(r) ==
    IF r.kind \in Objects
       \/ Cardinality({i \in DOMAIN exchanges : exchanges[i].link # NoRequest})
            >= MaxLinks[contract]
    THEN {NoRequest} ELSE {NoRequest, Following(r)}

Answers(r) ==
    UNION {{[request |-> r, status |-> "ok", link |-> link, found |-> found,
             items |-> items, total |-> total] :
               link \in Links(r), found \in Lists(r.kind),
               total \in Totals(r, items)} : items \in Items(r.kind)}

Refusal(r, status) ==
    [request |-> r, status |-> status, link |-> NoRequest, found |-> {},
     items |-> 0, total |-> Unreported]

-----------------------------------------------------------------------------
(***************************************************************************)
(* The collector.                                                          *)
(***************************************************************************)
\* The populations that each stage reads: `capture_github_history_with`,
\* `capture_azure_devops_history_with`, `capture_github_revision_with`,
\* `capture_github_commits_with`, `capture_github_remote_with` and
\* `capture_azure_devops_branch_policy_with`.
StageOne ==
    CASE contract \in GithubHistories -> {First("activity", NoId)}
      [] contract = "azure_mutations" -> {First("pushes", NoId)}
      [] contract = "commits" -> {First("commits", NoId)}
      [] contract = "check_runs" -> {First("check_runs", NoId)}
      [] contract = "commit_statuses" -> {First("status", NoId)}
      [] contract = "branch_protection" ->
            IF Protected \in exchanges[1].found
            THEN {First("protection", NoId)} ELSE {}
      [] contract = "branch_policy" -> {First("configurations", NoId)}
      [] OTHER -> {}

StageTwo ==
    CASE contract \in GithubHistories ->
            {First("pulls", h) : h \in HeadsIn(exchanges)}
      [] contract \in AzureHistories -> {First("pullrequests", NoId)}
      [] OTHER -> {}

\* Slip: the statuses of a revision are left out.
StageThreeChecksOnly ==
    CASE contract = "pull_request_reviews" ->
            {First("reviews", p) : p \in PullsIn(exchanges)}
      [] contract = "build_validation_history" ->
            {First("check_runs", r) : r \in RevisionsIn(exchanges)}
      [] contract = "azure_reviews" ->
            {First("threads", p) : p \in PullsIn(exchanges)}
      [] contract = "azure_validations" ->
            {First("evaluations", p) : p \in PullsIn(exchanges)}
      [] OTHER -> {}

StageThree ==
    CASE contract = "pull_request_reviews" ->
            {First("reviews", p) : p \in PullsIn(exchanges)}
      [] contract = "build_validation_history" ->
            {First("check_runs", r) : r \in RevisionsIn(exchanges)}
                \cup {First("status", r) : r \in RevisionsIn(exchanges)}
      [] contract = "azure_reviews" ->
            {First("threads", p) : p \in PullsIn(exchanges)}
      [] contract = "azure_validations" ->
            {First("evaluations", p) : p \in PullsIn(exchanges)}
      [] OTHER -> {}

Reading == ended = "collecting" /\ request # NoRequest

\* The least of the stage's remaining populations is next.
Open ==
    /\ ended = "collecting" /\ request = NoRequest
    /\ \E p \in todo :
        /\ \A q \in todo \ {p} : Before(p, q)
        /\ request' = p
        /\ todo' = todo \ {p}
    /\ UNCHANGED <<plan, stage, exchanges, ended, cut, altered>>

\* A stage is read to the end.
Proceed ==
    /\ ended = "collecting" /\ request = NoRequest /\ todo = {} /\ stage < 3
    /\ stage' = stage + 1
    /\ todo' = CASE stage = 0 -> StageOne
                 [] stage = 1 -> StageTwo
                 [] stage = 2 -> StageThree
    /\ UNCHANGED <<plan, request, exchanges, ended, cut, altered>>

Exhaust ==
    /\ ended = "collecting" /\ request = NoRequest /\ todo = {} /\ stage = 3
    /\ ended' = "Exhausted"
    /\ UNCHANGED <<plan, stage, todo, request, exchanges, cut, altered>>

\* What the collector reads page by page: everything but single objects and
\* the threads of a pull request.
FollowsPages(kind) == kind \notin Objects \cup {"threads"}

\* Slip: one page more than configured.
AtLimitLate(r) == r.page = limit

AtLimit(r) == r.page + 1 = limit

\* `fetch_github_pages`, `fetch_azure_list_pages`, and the loops that read a
\* single resource: the limit counts pages of one population.
Answered ==
    /\ Reading
    /\ \E x \in Answers(request) :
        /\ exchanges' = Append(exchanges, x)
        /\ \/ /\ x.link = NoRequest \/ ~FollowsPages(request.kind)
              /\ request' = NoRequest
              /\ UNCHANGED <<ended, cut>>
           \/ /\ x.link # NoRequest /\ FollowsPages(request.kind)
              /\ IF AtLimit(request)
                 THEN /\ ended' = "Truncated"
                      /\ cut' = x.link
                      /\ request' = NoRequest
                 ELSE /\ request' = x.link
                      /\ UNCHANGED <<ended, cut>>
    /\ UNCHANGED <<plan, stage, todo, altered>>

\* `classify_github_failure`, `classify_azure_devops_failure`
Classify(status) ==
    CASE status = "moved" -> "UnsafeRedirect"
      [] status = "unauthenticated" -> "Unauthenticated"
      [] status = "forbidden" -> "PermissionDenied"
      [] status = "rate_limited" -> "RateLimited"
      [] status = "missing" -> "NotFound"
      [] status = "broken" -> "Failed"

\* `classify_gh_failure`: from what gh says on its error stream.
ClassifyGh(status) ==
    CASE status \in {"unauthenticated", "forbidden"} -> "PermissionDenied"
      [] status = "rate_limited" -> "RateLimited"
      [] OTHER -> "Failed"

ThroughGh == contract \in {"commits", "branch_protection_gh"}

\* A refusal ends the acquisition.  Its response is retained, except that gh
\* prints none.
Refuse ==
    /\ Reading
    /\ \E status \in Refusals :
        IF ThroughGh
        THEN ended' = ClassifyGh(status) /\ UNCHANGED exchanges
        ELSE /\ ended' = Classify(status)
             /\ exchanges' = Append(exchanges, Refusal(request, status))
    /\ request' = NoRequest
    /\ UNCHANGED <<plan, stage, todo, cut, altered>>

\* No response, a body that is not what the endpoint returns, a repository
\* that is not identified or a next page on another resource: the command
\* fails and nothing is sealed.
Abandon ==
    /\ Reading
    /\ ended' = "abandoned"
    /\ request' = NoRequest
    /\ UNCHANGED <<plan, stage, todo, exchanges, cut, altered>>

-----------------------------------------------------------------------------
(***************************************************************************)
(* A transcript that says other than what was collected, sealed again: one *)
(* exchange less, two in another order, a request of something else, a     *)
(* response that refuses, or another termination.                          *)
(***************************************************************************)
Sealed == ended \notin {"collecting", "abandoned"}

OtherIds(r) ==
    CASE r.kind = "pulls" -> Heads
      [] r.kind \in {"reviews", "threads", "evaluations"} -> Pulls
      [] r.kind \in Counted /\ contract \in Histories -> Revisions
      [] r.kind \in Objects -> {}
      [] OTHER -> {Elsewhere}

OtherExchanges ==
    LET xs == exchanges IN
    {RemoveAt(xs, i) : i \in DOMAIN xs}
    \cup {[xs EXCEPT ![i] = xs[i + 1], ![i + 1] = xs[i]] : i \in 1..(Len(xs) - 1)}
    \cup (UNION {{[xs EXCEPT ![i].request.id = id,
                            ![i].link = IF @ = NoRequest THEN @
                                        ELSE [@ EXCEPT !.id = id]] :
                     id \in OtherIds(xs[i].request)} : i \in DOMAIN xs})
    \cup {[xs EXCEPT ![i] = Refusal(xs[i].request, "forbidden")] : i \in DOMAIN xs}

Reseal ==
    /\ Sealed /\ ~altered
    /\ altered' = TRUE
    /\ \/ /\ exchanges' \in OtherExchanges \ {exchanges}
          /\ UNCHANGED <<ended, cut>>
       \/ /\ ended # "Exhausted"
          /\ ended' = "Exhausted" /\ cut' = NoRequest
          /\ UNCHANGED exchanges
       \/ /\ ended # "Truncated" /\ exchanges # <<>>
          /\ ended' = "Truncated"
          /\ cut' = Following(exchanges[Len(exchanges)].request)
          /\ UNCHANGED exchanges
       \/ \E n \in 1..(Len(exchanges) - 1) :
          /\ exchanges' = SubSeq(exchanges, 1, n)
          /\ ended' = "Truncated"
          /\ cut' = exchanges[n + 1].request
    /\ UNCHANGED <<plan, stage, todo, request>>

Next ==
    \/ Open \/ Proceed \/ Exhaust
    \/ Answered \/ Refuse \/ Abandon
    \/ Reseal

Spec == Init /\ [][Next]_vars

-----------------------------------------------------------------------------
TypeOK ==
    /\ contract \in Collected /\ limit \in Limits
    /\ stage \in 0..3
    /\ altered \in BOOLEAN
    /\ \A r \in todo \cup Requested(exchanges) \cup ({request, cut} \ {NoRequest}) :
        /\ r.id \in {NoId, Elsewhere} \cup Heads \cup Pulls \cup Revisions
        /\ r.page \in 0..limit
    /\ \A i \in DOMAIN exchanges :
        /\ exchanges[i].request.page < limit
        /\ exchanges[i].status \in {"ok"} \cup Refusals \cup {"forbidden"}
        /\ exchanges[i].found \subseteq Heads \cup Pulls \cup {Protected}

Pages(kind, id) ==
    {i \in DOMAIN exchanges :
        exchanges[i].request.kind = kind /\ exchanges[i].request.id = id}

\* The population's first page reports as many items as its pages hold.
AddsUp(kind, id) ==
    \E i \in Pages(kind, id) :
        /\ exchanges[i].request.page = 0
        /\ exchanges[i].total # Unreported
        /\ exchanges[i].total = ItemsIn(exchanges, Pages(kind, id))

CountsAddUp ==
    CASE contract = "check_runs" -> AddsUp("check_runs", NoId)
      [] contract = "commit_statuses" -> AddsUp("status", NoId)
      [] contract = "build_validation_history" ->
            \A r \in RevisionsIn(exchanges) :
                /\ AddsUp("check_runs", r) /\ AddsUp("status", r)
                /\ ItemsIn(exchanges, Pages("check_runs", r)) <= SuiteLimit
      [] OTHER -> TRUE

UnreadThreads ==
    \E i \in DOMAIN exchanges :
        exchanges[i].request.kind = "threads" /\ exchanges[i].link # NoRequest

\* The collector and the replay agree: what was read to the end is complete,
\* unless the provider's counts do not add up, what was cut is truncated and
\* what was refused has the status of its refusal.  The two plan their
\* requests in separate code.  (capture_*_with, planned_github_history,
\* planned_azure_history, planned_successor)
CollectorAgrees ==
    Sealed /\ ~altered =>
        IF UnreadThreads THEN ~Authoritative(Transcript)
        ELSE IF ended = "Exhausted"
        THEN (Assess(Transcript) = "Complete") <=> CountsAddUp
        ELSE Assess(Transcript) = StatusOf(ended)

\* The populations each contract promises, from what the responses name.
Promised ==
    CASE contract = "repository_mutations" ->
            Firsts({"activity"}, {NoId}) \cup Firsts({"pulls"}, HeadsIn(exchanges))
      [] contract = "pull_request_reviews" ->
            Firsts({"activity"}, {NoId}) \cup Firsts({"pulls"}, HeadsIn(exchanges))
                \cup Firsts({"reviews"}, PullsIn(exchanges))
      [] contract = "build_validation_history" ->
            Firsts({"activity"}, {NoId}) \cup Firsts({"pulls"}, HeadsIn(exchanges))
                \cup Firsts(Counted, RevisionsIn(exchanges))
      [] contract = "azure_mutations" -> Firsts({"pushes", "pullrequests"}, {NoId})
      [] contract = "azure_reviews" ->
            Firsts({"pullrequests"}, {NoId})
                \cup Firsts({"threads"}, PullsIn(exchanges))
      [] contract = "azure_validations" ->
            Firsts({"pullrequests"}, {NoId})
                \cup Firsts({"evaluations"}, PullsIn(exchanges))
      [] contract = "branch_policy" -> Firsts({"configurations"}, {NoId})
      [] contract = "branch_protection" ->
            IF Protected \in exchanges[1].found
            THEN Firsts({"protection"}, {NoId}) ELSE {}
      [] contract = "branch_protection_gh" -> {Opening(contract)}
      [] OTHER -> Firsts({LookedUpKind(contract)}, {NoId})

\* A transcript that replays as complete is complete, whoever made it: nothing
\* in it was refused, every page that a response names is there and so is
\* every page before it, everything the responses name was asked for, and the
\* counts add up.  (assess_enumeration, altered_transcripts_cannot_claim_the_
\* collector_plan)
CompleteIsClosed ==
    Sealed /\ Assess(Transcript) = "Complete" =>
        /\ \A i \in DOMAIN exchanges :
            LET x == exchanges[i] IN
            /\ x.status = "ok"
            /\ x.link # NoRequest => Following(x.request) \in Requested(exchanges)
            /\ x.request.page > 0 =>
                [x.request EXCEPT !.page = @ - 1] \in Requested(exchanges)
            /\ x.request.id # Elsewhere
        /\ Promised \subseteq Requested(exchanges)
        /\ CountsAddUp

\* A truncated history that keeps its authority is a beginning of the
\* collector's work: it stops at a page that names a next one, every page was
\* reached from its population's first, and no population was skipped or put
\* in before the one it stops in.  (unplanned_composite_population,
\* assess_composite_enumeration)
TruncatedIsPrefix ==
    Sealed /\ contract \in Histories /\ Assess(Transcript) = "Truncated" =>
        /\ \A i \in DOMAIN exchanges :
            LET r == exchanges[i].request IN
            /\ First(r.kind, r.id) \in Promised \cup {Opening(contract)}
            /\ \A n \in 0..r.page : [r EXCEPT !.page = n] \in Requested(exchanges)
            /\ exchanges[i].link # NoRequest /\ i < Len(exchanges)
                => exchanges[i].link = exchanges[i + 1].request
            /\ \A p \in Promised : Before(p, r) => p \in Requested(exchanges)
        /\ exchanges[Len(exchanges)].link # NoRequest

=============================================================================
