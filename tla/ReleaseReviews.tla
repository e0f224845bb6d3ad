----------------------------- MODULE ReleaseReviews -----------------------------
(***************************************************************************)
(* Did every change of a release get the configured number of reviews?     *)
(* `evaluate_release_reviews` over exports of a provider that keeps        *)
(* changing: pull requests are approved, dismissed and merged, the branch  *)
(* policy is changed, and the release is published and published again.    *)
(*                                                                         *)
(* An export is what a manifest entry holds: release membership, review    *)
(* records of the release's pull requests, or a branch-policy history that *)
(* says from when to when it is complete.  It carries the time it was made *)
(* (`observed_at`); an answer reads those known by the time it is asked    *)
(* about.  An export that is imported later than it was made, or out of    *)
(* order, makes a corpus that is also one of exports imported at once,     *)
(* for a corpus is a set: the model imports an export when it makes it.    *)
(*                                                                         *)
(* The repository is not a declared mirror.  What the pull requests had    *)
(* when they were merged is kept next to them as history; no export and no *)
(* answer reads it.                                                        *)
(***************************************************************************)
EXTENDS Integers, Sequences, FiniteSets

CONSTANTS
    Pulls,              \* pull requests
    Actors, Author,     \* those who may approve; one wrote every change
    Counts,             \* numbers of approvals a policy may require
    MaxTime,            \* bound on the clock
    Bounds              \* how much of everything there may be

ASSUME ReleaseReviewsAssumption ==
    /\ Author \in Actors /\ IsFiniteSet(Actors)
    /\ Counts \subseteq Nat /\ MaxTime \in Nat
    /\ Bounds \subseteq [pulls : Nat, events : Nat, publications : Nat,
                         membership : Nat, reviews : Nat, policy : Nat]

Time == 0..MaxTime
Open == -1      \* the merge time of a pull request that was not merged
Unusable == -1  \* the time of an approval kept without one that can be read
Kinds == {"membership", "reviews", "policy"}

VARIABLES
    now,        \* the clock
    policy,     \* events of the branch policy, in order of their identifiers
    pulls,      \* what the provider shows of each pull request
    truth,      \* history: what each had when it was merged
    release,    \* the release as it is published now
    corpus,     \* exports imported, by kind
    used, touched   \* what the bounds are about

provider == <<now, policy, pulls, truth, release>>
counts == <<used, touched>>
vars == <<provider, corpus, counts>>

Init ==
    /\ now = 0
    /\ \E n \in Counts : policy = <<[at |-> 0, required |-> n]>>
    /\ pulls = [p \in Pulls |-> [mergedAt |-> Open, approvals |-> {}]]
    /\ truth = [p \in Pulls |-> [approvers |-> {}, required |-> 0, changed |-> FALSE]]
    /\ release = [revision |-> 0, members |-> {}]
    /\ corpus = [k \in Kinds |-> {}]
    /\ used = [k \in {"events", "publications"} \cup Kinds |-> 0]
    /\ touched = {}

\* Something more, about the pull requests `more`, within a bound; `events` are
\* approvals, dismissals and changes of the policy.
Count(what, more) ==
    /\ touched' = touched \cup more
    /\ used' = [k \in DOMAIN used |-> IF k \in what THEN used[k] + 1 ELSE used[k]]
    /\ \E bound \in Bounds :
        /\ Cardinality(touched') <= bound.pulls
        /\ \A k \in DOMAIN used : used'[k] <= bound[k]

-----------------------------------------------------------------------------
(***************************************************************************)
(* The provider.                                                           *)
(***************************************************************************)
Tick ==
    /\ now < MaxTime
    /\ now' = now + 1
    /\ UNCHANGED <<policy, pulls, truth, release, corpus>>

ChangePolicy(required) ==
    /\ policy' = Append(policy, [at |-> now, required |-> required])
    /\ UNCHANGED <<now, pulls, truth, release, corpus>>

\* An approval before the merge or after it; some are kept without a usable time.
Approve(p, actor, at) ==
    /\ pulls' = [pulls EXCEPT ![p].approvals =
           @ \cup {[actor |-> actor, at |-> at, state |-> "approved"]}]
    /\ UNCHANGED <<now, policy, truth, release, corpus>>

\* A dismissed approval does not show any more what it was.
Dismiss(p, approval) ==
    /\ approval.state = "approved"
    /\ pulls' = [pulls EXCEPT ![p].approvals =
           (@ \ {approval}) \cup {[approval EXCEPT !.state = "dismissed"]}]
    /\ truth' = [truth EXCEPT ![p].changed = pulls[p].mergedAt # Open]
    /\ UNCHANGED <<now, policy, release, corpus>>

\* Those who approve a pull request, other than its author.
Approving(p) ==
    {r.actor : r \in {r \in pulls[p].approvals :
        r.state = "approved" /\ r.actor # Author}}

Merge(p) ==
    /\ pulls[p].mergedAt = Open
    /\ pulls' = [pulls EXCEPT ![p].mergedAt = now]
    /\ truth' = [truth EXCEPT ![p] =
           [approvers |-> Approving(p), required |-> policy[Len(policy)].required,
            changed |-> FALSE]]
    /\ UNCHANGED <<now, policy, release, corpus>>

\* The release is published, or its tag is moved, with what is merged.
Publish ==
    /\ release' = [revision |-> release.revision + 1,
                   members |-> {p \in Pulls : pulls[p].mergedAt # Open}]
    /\ UNCHANGED <<now, policy, pulls, truth, corpus>>

-----------------------------------------------------------------------------
(***************************************************************************)
(* An export and its import: the adapters keep what it says.               *)
(***************************************************************************)
Import(kind, export) ==
    /\ corpus' = [corpus EXCEPT ![kind] = @ \cup {export}]
    /\ UNCHANGED provider

ExportMembership ==
    /\ release.revision > 0
    /\ Import("membership", [at |-> now, revision |-> release.revision,
                           members |-> release.members])

\* Some or all of the release's pull requests.
ExportReviews(some) ==
    /\ release.revision > 0
    /\ Import("reviews", [at |-> now, revision |-> release.revision,
                        records |-> [p \in some |-> pulls[p]]])

\* The events from some time on, by their identifiers.
ExportPolicy(from) ==
    /\ Import("policy", [at |-> now, from |-> from, through |-> now,
            events |-> [i \in {i \in DOMAIN policy : from <= policy[i].at} |-> policy[i]]])

Next ==
    \/ Tick /\ UNCHANGED counts
    \/ Count({"events"}, {}) /\ \E n \in Counts : ChangePolicy(n)
    \/ \E p \in Pulls :
        \/ Count({}, {p}) /\ Merge(p)
        \/ /\ Count({"events"}, {p})
           /\ \/ \E actor \in Actors, at \in {now, Unusable} : Approve(p, actor, at)
              \/ \E approval \in pulls[p].approvals : Dismiss(p, approval)
    \/ Count({"publications"}, {}) /\ Publish
    \/ Count({"membership"}, {}) /\ ExportMembership
    \/ Count({"reviews"}, {}) /\ \E some \in SUBSET release.members : ExportReviews(some)
    \/ Count({"policy"}, {}) /\ \E from \in 0..now : ExportPolicy(from)

Spec == Init /\ [][Next]_vars

-----------------------------------------------------------------------------
(***************************************************************************)
(* The claim.                                                              *)
(***************************************************************************)

\* `latest_matching`: of the matching exports known by `at`, one of the latest;
\* identifiers order those of one instant.
Latest(matching, at) ==
    LET known == {o \in matching : o.at <= at}
    IN  {o \in known : \A other \in known : other.at <= o.at}

Approved(record) ==
    {r \in record.approvals : r.state = "approved" /\ r.actor # Author}

\* Those whose approval counts towards the requirement: submitted by the merge.
Qualifying(record) ==
    {r.actor : r \in {r \in Approved(record) :
        r.at # Unusable /\ r.at <= record.mergedAt}}

\* Others whose approval cannot be placed before or after the merge.
Undated(record) ==
    {r.actor : r \in {r \in Approved(record) : r.at = Unusable}} \ Qualifying(record)

\* Slip: the requirement of the first event the history has.
RequiredByFirst(history, t) ==
    {history.events[i].required : i \in {j \in DOMAIN history.events :
        /\ history.from <= t /\ t <= history.through
        /\ \A k \in DOMAIN history.events : j <= k}}

\* Slip: a merge at the last instant of the history is outside it.
RequiredInside(history, t) ==
    IF t < history.through THEN RequiredByFirst(history, t) ELSE {}

\* `policy_history_at`: the requirement in force at t, if the history says so.
RequiredAt(history, t) ==
    LET before == {i \in DOMAIN history.events : history.events[i].at <= t}
    IN  {history.events[i].required :
            i \in {j \in before : /\ history.from <= t /\ t <= history.through
                                  /\ \A k \in before : k <= j}}

\* Slip: an approval without a time is no approval.
VerdictIgnoringUndated(record, required) ==
    IF Cardinality(Qualifying(record)) >= required THEN "met" ELSE "short"

\* `evaluate_pull_request`
VerdictOf(record, required) ==
    LET count == Cardinality(Qualifying(record))
    IN  IF count >= required THEN "met"
        ELSE IF count + Cardinality(Undated(record)) >= required THEN "missing"
        ELSE "short"

\* `evaluate_release_pull_requests` for one of them; `histories` has the latest
\* policy history, if there is one.
MemberVerdict(p, reviews, histories) ==
    IF p \notin DOMAIN reviews.records THEN "missing"
    ELSE LET record == reviews.records[p]
             required == UNION {RequiredAt(h, record.mergedAt) : h \in histories}
         IN  IF required = {} THEN "missing"
             ELSE VerdictOf(record, CHOOSE n \in required : TRUE)

\* `evaluate_release_reviews` once membership and reviews are found.
Outcome(membership, reviews, histories) ==
    LET verdicts == {MemberVerdict(p, reviews, histories) : p \in membership.members}
    IN  IF "short" \in verdicts THEN "Contradicted"
        ELSE IF "missing" \in verdicts THEN "InsufficientEvidence"
        ELSE "Supported"

\* The records of the membership's own revision.
ReviewsFor(membership, at) ==
    Latest({r \in corpus["reviews"] : r.revision = membership.revision}, at)

\* At most one of the latest histories is used.
Histories(at) ==
    LET latest == Latest(corpus["policy"], at)
    IN  IF latest = {} THEN {{}} ELSE {{h} : h \in latest}

\* The answers as of `at`: for which membership, and what.
Answers(at) ==
    UNION {{<<m, Outcome(m, r, h)>> : r \in ReviewsFor(m, at), h \in Histories(at)} :
              m \in Latest(corpus["membership"], at)}

-----------------------------------------------------------------------------
TypeOK ==
    /\ now \in Time
    /\ policy \in Seq([at : Time, required : Counts]) /\ policy # <<>>
    /\ \A p \in Pulls :
        /\ pulls[p].mergedAt \in Time \cup {Open}
        /\ truth[p].approvers \subseteq Actors
    /\ release.members \subseteq Pulls
    /\ \A k \in Kinds : \A export \in corpus[k] : export.at \in 0..now

\* The instant of the merge tells the order of events: no approval and no change
\* of policy has the same.
Ordered(p) ==
    /\ \A r \in pulls[p].approvals : r.at # pulls[p].mergedAt
    /\ \A i \in DOMAIN policy : i > 1 => policy[i].at # pulls[p].mergedAt

Met(p) == Cardinality(truth[p].approvers) >= truth[p].required

\* An answer is true of the merges, whatever was exported when, imported in which
\* order, dismissed, approved late, required later or lost: supported, every
\* member of the release had as many approvals by others as the policy in force
\* required when it was merged; contradicted, one had fewer, unless an approval of
\* it was dismissed afterwards.  (evaluate_release_reviews, evaluate_pull_request,
\* policy_history_at)
ReleaseAnswersTrue ==
    \A at \in 0..now : \A answer \in Answers(at) :
        LET members == answer[1].members
        IN  (\A p \in members : Ordered(p)) =>
                /\ answer[2] = "Supported" => \A p \in members : Met(p)
                /\ answer[2] = "Contradicted" =>
                        \E p \in members : ~Met(p) \/ truth[p].changed

\* The latest exports say all there is to say about the release's merges.
FullyExported ==
    /\ \E m \in Latest(corpus["membership"], now) : m.revision = release.revision
    /\ \A m \in Latest(corpus["membership"], now) : m.revision = release.revision
    /\ Latest({r \in corpus["reviews"] : r.revision = release.revision}, now) # {}
    /\ \A r \in Latest({r \in corpus["reviews"] : r.revision = release.revision}, now) :
            \A p \in release.members :
                /\ p \in DOMAIN r.records
                /\ \A approval \in r.records[p].approvals : approval.at # Unusable
    /\ Latest(corpus["policy"], now) # {}
    /\ \A h \in Latest(corpus["policy"], now) :
            h.from = 0 /\ \A p \in release.members : pulls[p].mergedAt <= h.through

\* No gap is left where there is none: once the latest exports cover the release,
\* its reviews and the policy at each merge, the claim is decided.
\* (docs/questions.md:263-266; evaluate_release_pull_requests, policy_history_at)
FullExportsDecide ==
    FullyExported =>
        \A answer \in Answers(now) : answer[2] # "InsufficientEvidence"

=============================================================================
