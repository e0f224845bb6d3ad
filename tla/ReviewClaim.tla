------------------------------ MODULE ReviewClaim ------------------------------
(***************************************************************************)
(* `evaluate_every_main_change_reviewed` of src/assertions.rs: what the    *)
(* retained captures let the evaluator say about one interval of one       *)
(* branch.                                                                 *)
(*                                                                         *)
(* A capture is one collection run with the records its observation holds. *)
(* A corpus is a sequence of captures: the code keeps observations sorted  *)
(* by identifier, and an identifier is a content hash, so the order says   *)
(* nothing about time and whoever builds a corpus may put a capture        *)
(* anywhere.  Coverage is read pointwise, as theorem Complete of           *)
(* CoverageProofs says `assess` decides it.                                *)
(***************************************************************************)
EXTENDS CoverageRules, Sequences, FiniteSets

CONSTANTS
    Changes,        \* changes of the branch; a change names its pull request
    NoPull,         \* a mutation record without a pull request
    Actors,
    Repository, Branch, Mutations, Reviews

ReviewStates == {"approved", "dismissed"}
IntegrationKinds == {"direct_push", "pull_request_merge"}
ReviewRecord == [actor : Actors, state : ReviewStates, at : Time]
MutationEvent == [id : Changes, kind : IntegrationKinds, at : Time,
                  pull : Changes \cup {NoPull}]
PullRequest == [number : Changes, author : Actors, mergedAt : Time,
                approvals : SUBSET ReviewRecord, complete : BOOLEAN]
Capture == [run : Run, events : SUBSET MutationEvent,
            pulls : SUBSET PullRequest]

ASSUME ReviewClaimAssumption ==
    /\ NoPull \notin Changes
    /\ Repository \in Subjects /\ Branch \in Branches
    /\ Mutations \in Propositions /\ Reviews \in Propositions
    /\ Mutations # Reviews

-----------------------------------------------------------------------------
\* `coverage_requirement`
Needs(proposition, target) ==
    [proposition |-> proposition, subject |-> Repository, branch |-> Branch,
     interval |-> target, malformed |-> FALSE]

\* The outcome of `coverage::assess`.
Covers(corpus, proposition, target, at) ==
    \A t \in Time : Within(t, target) =>
        \E i \in DOMAIN corpus :
            /\ corpus[i].run.completedAt <= at
            /\ Establishes(corpus[i].run, Needs(proposition, target), t)

\* `authoritative_runs`: an incomplete enumeration still supplies records.
Authoritative(corpus, proposition, target, at) ==
    {i \in DOMAIN corpus :
        LET run == corpus[i].run
            req == Needs(proposition, target)
        IN  /\ run.completedAt <= at
            /\ Concerns(run, req)
            /\ Disposition(run, req) \in
                   {"Used", "RetentionLimited", "PaginationIncomplete", "Interrupted"}}

-----------------------------------------------------------------------------
\* The mutation records inside the target, each with the place of its capture.
MutationRecords(corpus, target, at) ==
    UNION {{<<i, e>> : e \in {f \in corpus[i].events : Within(f.at, target)}} :
               i \in Authoritative(corpus, Mutations, target, at)}

\* `collect_mutations`: the first record of an event in corpus order is used.
Kept(records) ==
    {r[2] : r \in {s \in records :
        \A other \in records : other[2].id = s[2].id => s[1] <= other[1]}}

\* A later record that differs leaves a gap.
Disputed(records) ==
    \E r, s \in records : r[2].id = s[2].id /\ r[2] # s[2]

PullRecords(corpus, number, target, at) ==
    UNION {{p \in corpus[i].pulls : p.number = number} :
               i \in Authoritative(corpus, Reviews, target, at)}

ApprovedBefore(event, pull) ==
    \E a \in pull.approvals :
        a.state = "approved" /\ a.actor # pull.author /\ a.at < event.at

\* A state the evaluator does not know, or an approval whose order with the
\* integration is not known.
Unsettled(event, pull) ==
    \E a \in pull.approvals :
        \/ a.state # "approved"
        \/ a.state = "approved" /\ a.at = event.at

\* `judge_review`.  A record of another revision cannot occur: the pack names
\* a pull request only when its merge commit is the event's.
Judge(target, event, pull) ==
    IF ~Within(pull.mergedAt, target) THEN "OutsideInterval"
    ELSE IF ApprovedBefore(event, pull) THEN "Reviewed"
    ELSE IF Unsettled(event, pull) THEN "Inconclusive"
    ELSE IF pull.complete THEN "Unreviewed"
    ELSE "Undecided"

\* Slip: an incomplete record is never set aside for a complete one.
VerdictsKeepingIncomplete(target, event, records) ==
    {IF v = "Undecided" THEN "Inconclusive" ELSE v :
        v \in {Judge(target, event, p) : p \in records}}

\* `agreed_review`: the verdicts of the deciding records.  A record that shows
\* nothing decisive is set aside when some record is complete.
Verdicts(target, event, records) ==
    LET judged == {Judge(target, event, p) : p \in records} IN
    IF \E p \in records : p.complete
    THEN judged \ {"Undecided"}
    ELSE {IF v = "Undecided" THEN "Inconclusive" ELSE v : v \in judged}

-----------------------------------------------------------------------------
\* The verdicts about a kept merge: none when no pull request is named or no
\* review record matches it.
MergeVerdicts(corpus, event, target, at) ==
    IF event.pull = NoPull THEN {}
    ELSE Verdicts(target, event, PullRecords(corpus, event.pull, target, at))

DirectPushes(corpus, target, at) ==
    {e \in Kept(MutationRecords(corpus, target, at)) : e.kind = "direct_push"}

Merges(corpus, target, at) ==
    {e \in Kept(MutationRecords(corpus, target, at)) :
        e.kind = "pull_request_merge"}

\* The entries of `assertion.contradictions`.
Contradictions(corpus, target, at) ==
    DirectPushes(corpus, target, at)
    \cup {e \in Merges(corpus, target, at) :
             MergeVerdicts(corpus, e, target, at) = {"Unreviewed"}}

\* `assertion.missing` is not empty.
HasGap(corpus, target, at) ==
    \/ Disputed(MutationRecords(corpus, target, at))
    \/ \E e \in Merges(corpus, target, at) :
           MergeVerdicts(corpus, e, target, at) \notin {{"Reviewed"}, {"Unreviewed"}}

\* Slip: a counterexample only counts in a covered population.
VerdictCoverageFirst(corpus, target, at) ==
    IF \/ ~Covers(corpus, Mutations, target, at)
       \/ ~Covers(corpus, Reviews, target, at)
    THEN "InsufficientEvidence"
    ELSE IF Contradictions(corpus, target, at) # {} THEN "Contradicted"
    ELSE IF HasGap(corpus, target, at) THEN "InsufficientEvidence"
    ELSE "Supported"

\* `evaluate_every_main_change_reviewed`
Verdict(corpus, target, at) ==
    IF Contradictions(corpus, target, at) # {} THEN "Contradicted"
    ELSE IF \/ ~Covers(corpus, Mutations, target, at)
            \/ ~Covers(corpus, Reviews, target, at)
            \/ HasGap(corpus, target, at)
    THEN "InsufficientEvidence"
    ELSE "Supported"

=============================================================================
