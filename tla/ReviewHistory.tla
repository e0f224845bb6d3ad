------------------------------ MODULE ReviewHistory ------------------------------
(***************************************************************************)
(* Reviewed integrations, end to end: a provider whose branch and reviews  *)
(* keep changing, a collector that reads them page by page into captures,  *)
(* and the claim evaluated over the captures retained so far.              *)
(*                                                                         *)
(* The provider is GitHub as the code uses it: an activity feed read       *)
(* newest first that forgets entries older than Retention, and per pull    *)
(* request a list of reviews.  An action of the collector is one request   *)
(* of `capture_github_history_with`, with what it does to the transcript;  *)
(* a page holds one entry.  Changes are merged one pull request at a time, *)
(* so a commit has one associated pull request and `matching_pull` finds   *)
(* it whenever the association was fetched.                                *)
(*                                                                         *)
(* The time a capture carries is fixed before its first request: it is     *)
(* `plan.observed_at`, the --at of the command or the clock at its start.  *)
(***************************************************************************)
EXTENDS ReviewClaim, FiniteSets

CONSTANTS
    MaxTime,        \* bound on the clock
    Retention,      \* how long the activity feed keeps an entry
    Requests,       \* intervals a collection may be asked for
    PageLimits,     \* the max_pages a source may be configured with
    Bounds,         \* how many changes, reviews of each and captures there may be
    Author,         \* wrote every change
    Unhurried       \* TRUE: a capture is stamped with the time it starts

ASSUME ReviewHistoryAssumption ==
    /\ MaxTime \in Nat /\ Time = 0..MaxTime
    /\ Retention \in Nat /\ Retention > 0
    /\ Requests \subseteq {i \in Interval : i.from < i.until}
    /\ PageLimits \subseteq Nat \ {0}
    /\ Bounds \subseteq [changes : Nat, reviews : Nat, captures : Nat]
    /\ Author \in Actors
    /\ Unhurried \in BOOLEAN

VARIABLES
    now,            \* the provider's clock
    branch,         \* integrations into the branch, oldest first
    reviews,        \* reviews of each pull request, oldest first
    capture,        \* the acquisition in progress
    corpus          \* the captures retained, in identifier order

provider == <<now, branch, reviews>>
vars == <<now, branch, reviews, capture, corpus>>

Targets == {i \in [from : 0..now, until : 0..now] : i.from < i.until}

\* `reviewed` remembers what was true when the change was integrated: somebody
\* other than its author had approved it.
Integration == [change : Changes, how : {"push", "pr_merge"}, at : Time,
                reviewed : BOOLEAN]

Idle == [pc |-> "idle"]

Init ==
    /\ now = 0
    /\ branch = <<>>
    /\ reviews = [c \in Changes |-> <<>>]
    /\ capture = Idle
    /\ corpus = <<>>

\* A capture in progress counts with those retained.
Bounded ==
    \E bound \in Bounds :
        /\ Cardinality({c \in Changes : reviews[c] # <<>> \/
                \E i \in DOMAIN branch : branch[i].change = c}) <= bound.changes
        /\ \A c \in Changes : Len(reviews[c]) <= bound.reviews
        /\ Len(corpus) + (IF capture = Idle THEN 0 ELSE 1) <= bound.captures

-----------------------------------------------------------------------------
(***************************************************************************)
(* The provider.                                                           *)
(***************************************************************************)
Tick ==
    /\ now < MaxTime
    /\ now' = now + 1
    /\ UNCHANGED <<branch, reviews, capture, corpus>>

Approve(c, actor) ==
    /\ reviews' = [reviews EXCEPT ![c] =
           Append(@, [actor |-> actor, state |-> "approved", at |-> now])]
    /\ UNCHANGED <<now, branch, capture, corpus>>
    /\ Bounded'

\* The provider keeps the time of a dismissed review and forgets its state.
Dismiss(c) ==
    /\ \E i \in DOMAIN reviews[c] :
        /\ reviews[c][i].state = "approved"
        /\ reviews' = [reviews EXCEPT ![c][i].state = "dismissed"]
    /\ UNCHANGED <<now, branch, capture, corpus>>

Integrate(c, how) ==
    /\ \A i \in DOMAIN branch : branch[i].change # c
    /\ branch' = Append(branch,
           [change |-> c, how |-> how, at |-> now,
            reviewed |-> how = "pr_merge" /\
                \E i \in DOMAIN reviews[c] : reviews[c][i].actor # Author])
    /\ UNCHANGED <<now, reviews, capture, corpus>>
    /\ Bounded'

-----------------------------------------------------------------------------
(***************************************************************************)
(* The collector.                                                          *)
(***************************************************************************)
Resources == {Mutations, Reviews}

\* A source is planned: what to read, over which interval, with how many pages.
Begin(resource, limit, capturedAt, interval) ==
    /\ capture = Idle
    /\ capturedAt <= now
    /\ Unhurried => capturedAt = now
    /\ interval.until <= capturedAt
    /\ capture' = [pc |-> "activity", resource |-> resource, limit |-> limit,
                   capturedAt |-> capturedAt, interval |-> interval,
                   pages |-> 0, seen |-> {}, associated |-> FALSE,
                   pull |-> NoPull,
                   fetched |-> [c \in Changes |-> {}], finished |-> {}]
    /\ UNCHANGED <<provider, corpus>>
    /\ Bounded'

\* Feed entries older than the last one read; any entry before the first read.
OlderEntries ==
    {i \in DOMAIN branch :
        branch[i].at >= now - Retention /\ \A j \in capture.seen : i < j}

Newest(entries) == {i \in entries : \A j \in entries : j <= i}

\* Slip: the last page the limit allows is taken for the last page.
BeyondLimitIsEnd(last, limit, pages) ==
    IF last \/ pages = limit THEN "end" ELSE "more"

\* What a page with more to come leads to.
Beyond(last, limit, pages) ==
    IF last THEN "end" ELSE IF pages = limit THEN "truncated" ELSE "more"

\* One page of the activity feed.
FetchActivity ==
    /\ capture.pc = "activity"
    /\ LET page == Newest(OlderEntries)
           rest == OlderEntries \ page
           then == Beyond(rest = {}, capture.limit, capture.pages + 1)
       IN  capture' = [capture EXCEPT
               !.seen = @ \cup page,
               !.pages = @ + 1,
               !.pc = CASE then = "end" -> "associations"
                        [] then = "truncated" -> "truncated"
                        [] OTHER -> "activity"]
    /\ UNCHANGED <<provider, corpus>>

\* `github_activity_heads`: the entries inside the requested interval.
Heads == {i \in capture.seen : Within(branch[i].at, capture.interval)}

\* The pull request of every head.  A merged pull request's association does
\* not change any more, so its requests are one step.
FetchAssociations ==
    /\ capture.pc = "associations"
    /\ capture' = [capture EXCEPT
           !.associated = TRUE,
           !.pc = IF capture.resource = Reviews THEN "reviews" ELSE "exhausted"]
    /\ UNCHANGED <<provider, corpus>>

Associated == {branch[i].change : i \in {j \in Heads : branch[j].how = "pr_merge"}}

\* The next pull request's reviews.  Pull requests are read by number, which
\* says nothing about when they were merged: any order.
NextPull(c) ==
    /\ capture.pc = "reviews" /\ capture.pull = NoPull
    /\ c \in Associated \ capture.finished
    /\ capture' = [capture EXCEPT !.pull = c, !.pages = 0]
    /\ UNCHANGED <<provider, corpus>>

\* One page of a pull request's reviews.
FetchReviews ==
    /\ capture.pc = "reviews" /\ capture.pull # NoPull
    /\ LET c == capture.pull
           page == capture.pages + 1
           then == Beyond(page >= Len(reviews[c]), capture.limit, page)
       IN  capture' = [capture EXCEPT
               !.fetched[c] = @ \cup {reviews[c][i] :
                                   i \in {page} \cap DOMAIN reviews[c]},
               !.pages = page,
               !.finished = IF then = "end" THEN @ \cup {c} ELSE @,
               !.pull = IF then = "end" THEN NoPull ELSE @,
               !.pc = IF then = "truncated" THEN "truncated" ELSE @]
    /\ UNCHANGED <<provider, corpus>>

ReviewsRead ==
    /\ capture.pc = "reviews" /\ capture.pull = NoPull
    /\ Associated \subseteq capture.finished
    /\ capture' = [capture EXCEPT !.pc = "exhausted"]
    /\ UNCHANGED <<provider, corpus>>

\* Any request may be refused, limited or lost.
RequestFails ==
    /\ \/ capture.pc \in {"activity", "associations"}
       \/ capture.pc = "reviews" /\ capture.pull # NoPull
    /\ capture' = [capture EXCEPT !.pc = "failed"]
    /\ UNCHANGED <<provider, corpus>>

-----------------------------------------------------------------------------
\* `acquisition_outcome` and the retention window of `remote_collection_scope`.
RetainedFrom == capture.capturedAt - Retention

CaptureOutcome ==
    CASE capture.pc = "failed" -> "Failed"
      [] capture.pc = "truncated" -> "Partial"
      [] OTHER -> IF capture.interval.from < RetainedFrom
                  THEN "RetentionLimited" ELSE "Complete"

ScopeOf(interval) ==
    [proposition |-> capture.resource, branch |-> Branch, interval |-> interval]

ObservedScope ==
    IF CaptureOutcome \in {"Failed", "Partial"} THEN NoScope
    ELSE IF capture.interval.until <= RetainedFrom THEN NoScope
    ELSE ScopeOf([from |-> Larger(capture.interval.from, RetainedFrom),
                  until |-> capture.interval.until])

\* `prepare_remote_pack_collection`: a failed acquisition has no authority, a
\* truncated one keeps it.
RunOf(pc) ==
    [subject |-> Repository, proposition |-> capture.resource,
     branch |-> Branch,
     authority |-> IF pc = "failed" THEN {} ELSE {capture.resource},
     outcome |-> CaptureOutcome,
     terminalPageReached |-> pc = "exhausted",
     nextTokenPresent |-> pc = "truncated",
     observed |-> ObservedScope,
     startedAt |-> capture.capturedAt, completedAt |-> capture.capturedAt,
     malformed |-> {}]

RecordedKind(how) ==
    IF how = "push" THEN "direct_push" ELSE "pull_request_merge"

\* `normalize_mutations`: without a complete association fetch a merge is
\* recorded without its pull request.
NormalizedMutations ==
    {[id |-> branch[i].change, kind |-> RecordedKind(branch[i].how),
      at |-> branch[i].at,
      pull |-> IF branch[i].how = "pr_merge" /\ capture.associated
               THEN branch[i].change ELSE NoPull] : i \in Heads}

ReviewsComplete(c) == c \in capture.finished

\* `normalize_reviews`: every associated pull request gets a record, the ones
\* whose reviews were not reached too.
NormalizedReviews ==
    IF ~capture.associated THEN {}
    ELSE {[number |-> branch[i].change, author |-> Author,
           mergedAt |-> branch[i].at,
           approvals |-> capture.fetched[branch[i].change],
           complete |-> ReviewsComplete(branch[i].change)] :
              i \in {j \in Heads : branch[j].how = "pr_merge"}}

Captured ==
    LET kept(records) == IF capture.pc = "failed" THEN {} ELSE records IN
    [run |-> RunOf(capture.pc),
     events |-> IF capture.resource = Mutations
                THEN kept(NormalizedMutations) ELSE {},
     pulls |-> IF capture.resource = Reviews
               THEN kept(NormalizedReviews) ELSE {}]

InsertedAt(s, i, x) == SubSeq(s, 1, i - 1) \o <<x>> \o SubSeq(s, i, Len(s))

\* The transcript is sealed, normalized and merged into the corpus, at the
\* place its content hash gives it.
Retain ==
    /\ capture.pc \in {"exhausted", "truncated", "failed"}
    /\ \E i \in 1..(Len(corpus) + 1) : corpus' = InsertedAt(corpus, i, Captured)
    /\ capture' = Idle
    /\ UNCHANGED provider

Next ==
    \/ Tick
    \/ \E c \in Changes :
        \/ \E actor \in Actors : Approve(c, actor)
        \/ Dismiss(c)
        \/ \E how \in {"push", "pr_merge"} : Integrate(c, how)
        \/ NextPull(c)
    \/ \E resource \in Resources, limit \in PageLimits, capturedAt \in Time,
          interval \in Requests : Begin(resource, limit, capturedAt, interval)
    \/ FetchActivity \/ FetchAssociations \/ FetchReviews \/ ReviewsRead
    \/ RequestFails
    \/ Retain

Spec == Init /\ [][Next]_vars

-----------------------------------------------------------------------------
IntegratedIn(target) ==
    {branch[i] : i \in {j \in DOMAIN branch : Within(branch[j].at, target)}}

\* An answer is true of the branch, whichever way reads, reviews, merges,
\* dismissals and failures interleaved, and whichever evaluation time is asked
\* about: supported, every integration into the interval had an approval by
\* somebody else before it; contradicted, some integration was pushed directly or
\* had none.  Supported is held to intervals the provider still has in full.
\* (collect_configured, capture_github_history_with, judge_review, agreed_review,
\* evaluate_every_main_change_reviewed)
AnswersSound ==
    \A target \in Targets, at \in 0..now :
        LET answer == Verdict(corpus, target, at)
            allReviewed == \A e \in IntegratedIn(target) : e.reviewed
        IN  /\ answer = "Supported" /\ target.from >= now - Retention => allReviewed
            /\ answer = "Contradicted" => ~allReviewed

\* A direct push that any authoritative run recorded contradicts the claim,
\* whatever other runs recorded, missed or failed to reach.
\* (collect_mutations: the contradiction does not wait for coverage)
DirectPushContradicts ==
    \A target \in Targets :
        (\E i \in Authoritative(corpus, Mutations, target, now) :
            \E e \in corpus[i].events :
                e.kind = "direct_push" /\ Within(e.at, target))
        => Verdict(corpus, target, now) = "Contradicted"

\* Both populations of the target were read completely by some runs.
FullyCollected(target) ==
    Covers(corpus, Mutations, target, now) /\ Covers(corpus, Reviews, target, now)

\* No review of the target's changes is of the kind the evaluator leaves open.
ReviewsPlain(target) ==
    \A i \in DOMAIN branch : Within(branch[i].at, target) =>
        \A j \in DOMAIN reviews[branch[i].change] :
            LET r == reviews[branch[i].change][j] IN
            r.state = "approved" /\ r.at # branch[i].at

TruncatedMutations ==
    \E i \in DOMAIN corpus :
        corpus[i].run.proposition = Mutations /\ corpus[i].run.outcome = "Partial"

\* Collecting again closes a gap in the review records: once complete runs
\* cover the target, a review record that an earlier run truncated is set
\* aside and the claim is decided.  (agreed_review)
ReviewGapHeals ==
    \A target \in Targets :
        /\ target.from >= now - Retention
        /\ FullyCollected(target) /\ ReviewsPlain(target) /\ ~TruncatedMutations
        => Verdict(corpus, target, now) # "InsufficientEvidence"

\* The same of every gap that pagination left, as the table of gaps in
\* docs/troubleshooting.md says: "collect again".
CollectingAgainSettles ==
    \A target \in Targets :
        FullyCollected(target) /\ ReviewsPlain(target)
        => Verdict(corpus, target, now) # "InsufficientEvidence"

=============================================================================
