------------------------------ MODULE PackAnswers ------------------------------
(***************************************************************************)
(* Answers that packs give, and what core lets pass: `pack::evaluate` with *)
(* `validate_assertions`, over a corpus whose coverage Coverage decides;   *)
(* the evaluators of the GitHub and the Azure DevOps pack; and core's own  *)
(* evaluator of configured review, which reads the same snapshots.         *)
(*                                                                         *)
(* Every run of the corpus retains one observation, which has the run's    *)
(* index, is about the run's subject and branch and was observed when the  *)
(* run completed; a manifest gives a failed run observations, too.  Next   *)
(* to them there is one observation outside any run, `Imported`.  What the *)
(* observations say is a reading: a function of their identifiers.         *)
(*                                                                         *)
(* A declared mirror has taken the authority of the repository's runs away *)
(* before any evaluator sees them (HistoricalView); all propositions here  *)
(* are about process.                                                      *)
(***************************************************************************)
EXTENDS Coverage, FiniteSets

CONSTANTS
    BranchConfiguration, RevisionChecks,    \* the propositions the packs declare
    Imported, ImportedAt,   \* the observation outside any run, and its time
    NoInterval,             \* an answer about no interval
    Freshness,              \* CONFIG_FRESHNESS_DAYS
    Answers,                \* answers a pack may return
    Declarations,           \* propositions an evaluator may declare
    Settings,               \* readings of branch snapshots
    Reports                 \* readings of check runs and commit statuses

Use == Nat \cup {Imported}
Decision == [requirement : Requirement, outcome : {"Complete", "Incomplete"}]
Answer == [outcome : {"Supported", "Contradicted", "InsufficientEvidence", "Stale"},
           pointInTime : BOOLEAN, at : Time,
           subject : Subjects, branch : Branches,
           interval : Interval \cup {NoInterval},
           coverage : Seq(Decision),
           support : SUBSET Use, contradictions : SUBSET Use]

ASSUME PackAnswersAssumption ==
    /\ Imported \notin Nat /\ ImportedAt \in Time
    /\ NoInterval \notin Interval
    /\ BranchConfiguration # RevisionChecks
    /\ Answers \subseteq Answer
    /\ Declarations \subseteq SUBSET Propositions

-----------------------------------------------------------------------------
(***************************************************************************)
(* What core checks of an answer.                                          *)
(***************************************************************************)

\* The observations of the corpus as of the evaluation.
Evidence ==
    {i \in DOMAIN corpus : corpus[i].completedAt <= knownAt}
    \cup {o \in {Imported} : ImportedAt <= knownAt}

EstablishedNothing == {"Failed", "PermissionDenied", "NotAttempted"}

\* The NotSystemOfRecord limitation of `with_declared_mirror`.
NotOfRecord(run, mirror) == mirror /\ run.subject = requirement.subject

\* `unestablished` for a run's observation, `mirror_gap` for the other one.
Unestablished(o, mirror) ==
    IF o = Imported THEN mirror
    ELSE \/ NotOfRecord(corpus[o], mirror)
         \/ corpus[o].outcome \in EstablishedNothing

\* `coverage::assess` of a requirement a decision names: what the loops decided
\* of the one they were given, and the reading they were proved to have of any
\* other.
CoreDecision(req) ==
    [requirement |-> req,
     outcome |->
        IF req = requirement THEN outcome
        ELSE IF \A t \in Time : Within(t, req.interval) =>
                    \E i \in DOMAIN corpus :
                        /\ corpus[i].completedAt <= knownAt
                        /\ Establishes(corpus[i], req, t)
             THEN "Complete" ELSE "Incomplete"]

\* It returns an error for a requirement without a duration, and for a run whose
\* times it needs and cannot read.
Assessable(req) ==
    /\ ~req.malformed /\ req.interval.from < req.interval.until
    /\ \A i \in DOMAIN corpus :
            corpus[i].completedAt <= knownAt /\ Concerns(corpus[i], req)
                => ~Unreadable(corpus[i], req)

\* `corpus_observation_run`
FromCompleteRun(o, proposition) ==
    /\ o \in Evidence \ {Imported}
    /\ corpus[o].outcome = "Complete"
    /\ proposition \in corpus[o].authority

\* Slip: a decision about any interval or branch will do.
AboutAnything(answer, d, proposition) ==
    d.requirement.proposition = proposition

\* A decision about one of the declared propositions over the answer's own
\* subject.
AboutSubject(answer, d, proposition) ==
    /\ d.requirement.proposition = proposition
    /\ d.requirement.subject = answer.subject
    /\ d.requirement.branch = answer.branch
    /\ answer.interval # NoInterval
    /\ d.requirement.interval = answer.interval

CoveredOver(answer, declared) ==
    \A p \in declared :
        LET matching == {i \in DOMAIN answer.coverage :
                            AboutSubject(answer, answer.coverage[i], p)}
        IN  \E i \in matching :
                matching = {i} /\ answer.coverage[i].outcome = "Complete"

\* `validate_supported_coverage`
SupportCovered(answer, declared) ==
    \/ /\ answer.pointInTime /\ answer.coverage = <<>>
       /\ \A p \in declared : \E o \in answer.support : FromCompleteRun(o, p)
    \/ CoveredOver(answer, declared)

CoverageAgrees(answer, declared) ==
    \A i \in DOMAIN answer.coverage :
        LET d == answer.coverage[i]
        IN  /\ d.requirement.proposition \in declared
            /\ Assessable(d.requirement)
            /\ d = CoreDecision(d.requirement)

\* `validate_assertions` for one assertion; anything it refuses ends the whole
\* evaluation with an error.
Accepted(answer, declared, mirror) ==
    /\ answer.at = knownAt
    /\ CoverageAgrees(answer, declared)
    /\ answer.outcome = "Supported" => SupportCovered(answer, declared)
    /\ answer.support \cup answer.contradictions \subseteq Evidence
    /\ \A o \in answer.support \cup answer.contradictions :
            ~Unestablished(o, mirror)

-----------------------------------------------------------------------------
(***************************************************************************)
(* The evaluators.  Each takes a reading and the evidence e of the         *)
(* evaluation and has a set of possible answers: which of several          *)
(* observations of the same instant is last is left open.                  *)
(***************************************************************************)

\* Observations of the target's repository and branch, by claim key.
AboutTarget(e, proposition) ==
    {o \in e : o # Imported =>
        /\ corpus[o].proposition = proposition
        /\ corpus[o].subject = requirement.subject
        /\ corpus[o].branch = requirement.branch}

ObservedAt(o) == IF o = Imported THEN ImportedAt ELSE corpus[o].completedAt

Latest(os) == {o \in os : \A other \in os : ObservedAt(other) <= ObservedAt(o)}

\* `assertion_base`, with the outcome and the evidence filled in.
Answering(o, support, contradictions) ==
    [outcome |-> o, pointInTime |-> TRUE, at |-> knownAt,
     subject |-> requirement.subject, branch |-> requirement.branch,
     interval |-> requirement.interval, coverage |-> <<>>,
     support |-> support, contradictions |-> contradictions]

Undecided == Answering("InsufficientEvidence", {}, {})
Supporting(os) == Answering("Supported", os, {})
Contradicting(os) == Answering("Contradicted", {}, os)

\* The GitHub pack's own `established` and `withheld_by_mirror`.
EstablishedForPack(o, mirror) ==
    IF o = Imported THEN ~mirror
    ELSE /\ corpus[o].outcome \notin EstablishedNothing
         /\ ~NotOfRecord(corpus[o], mirror)

\* Slip: the outcome and the authority of the runs are not looked at.
EnumeratedFor(os, propositions) ==
    os # {} /\ \A o \in os :
        /\ o # Imported
        /\ corpus[o].terminalPageReached /\ ~corpus[o].nextTokenPresent

\* `complete` in both packs
CompleteFor(os, propositions) ==
    os # {} /\ \A o \in os :
        /\ o # Imported
        /\ corpus[o].outcome = "Complete"
        /\ corpus[o].authority \cap propositions # {}
        /\ corpus[o].terminalPageReached /\ ~corpus[o].nextTokenPresent

GitHubPropositions == {BranchConfiguration, RevisionChecks}

\* `evaluate_required_checks`
RequiredStatusChecks(setting, e, mirror) ==
    LET found == Latest({o \in AboutTarget(e, BranchConfiguration) :
                            EstablishedForPack(o, mirror)})
        Answered(o) ==
            IF setting[o] = "unreported" THEN Undecided
            ELSE IF setting[o] = "none" THEN Contradicting({o})
            ELSE IF CompleteFor(found, GitHubPropositions) THEN Supporting({o})
            ELSE Answering("InsufficientEvidence", {o}, {})
    IN  IF found = {} THEN {Undecided} ELSE {Answered(o) : o \in found}

\* What the latest check runs and the latest classic statuses say together; they
\* must tell of one revision.
ChecksOf(report, checks, statuses) ==
    LET uses == checks \cup statuses
        results == UNION {report[o].results : o \in uses}
        Revisions(os) == {report[o].revision : o \in os}
        sameRevision == \E r \in Revisions(checks) :
                            Revisions(checks) = {r} /\ Revisions(statuses) = {r}
    IN  IF sameRevision /\ "failed" \in results THEN {Contradicting(uses)}
        ELSE IF /\ results = {"passed"} /\ sameRevision
                /\ CompleteFor(checks, GitHubPropositions)
                /\ CompleteFor(statuses, GitHubPropositions)
        THEN {Supporting(uses)}
        ELSE {Undecided}

\* `evaluate_current_checks`
CurrentRevisionChecks(report, e, mirror) ==
    LET Found(kind) == Latest({o \in AboutTarget(e, RevisionChecks) :
                    report[o].kind = kind /\ EstablishedForPack(o, mirror)})
    IN  ChecksOf(report, Found("checks"), Found("statuses"))

\* The Azure DevOps pack's `evaluate`, for each predicate on policies: "required"
\* is a snapshot with a policy that satisfies it.
BranchPolicies(setting, e) ==
    LET found == Latest(AboutTarget(e, BranchConfiguration))
    IN  IF ~CompleteFor(found, {BranchConfiguration}) THEN {Undecided}
        ELSE IF \E o \in found : setting[o] = "required" THEN {Supporting(found)}
        ELSE {Contradicting(found)}

\* Its approving-review answer names no interval.
AboutNoInterval(answer) == [answer EXCEPT !.interval = NoInterval]

ApprovingReview(setting, e) ==
    {AboutNoInterval(answer) : answer \in BranchPolicies(setting, e)}

\* Slip: whatever run the snapshot is from.
AuthoritativeUnlessMirror(o, mirror) ==
    IF o = Imported THEN ~mirror ELSE ~NotOfRecord(corpus[o], mirror)

\* `observation_authoritative`
Authoritative(o, mirror) ==
    IF o = Imported THEN ~mirror
    ELSE BranchConfiguration \in corpus[o].authority

\* Core's evaluate_configured_independent_review and evaluate_configured_reviews.
ConfiguredReview(setting, e, mirror) ==
    LET found == Latest({o \in AboutTarget(e, BranchConfiguration) :
                            Authoritative(o, mirror)})
        Answered(o) ==
            IF setting[o] # "required" THEN Contradicting({o})
            ELSE IF knownAt - ObservedAt(o) > Freshness
            THEN Answering("Stale", {o}, {})
            ELSE Supporting({o})
    IN  IF found = {} THEN {Undecided} ELSE {Answered(o) : o \in found}

-----------------------------------------------------------------------------
\* What core records when it captures runs itself: authority for nothing but the
\* requested proposition, and none when nothing was established.  A manifest may
\* say otherwise; the GitHub pack then takes one proposition's authority for the
\* other's, and core refuses its answer.
CapturedByCore ==
    \A i \in DOMAIN corpus :
        /\ corpus[i].authority \subseteq {corpus[i].proposition}
        /\ corpus[i].outcome \in EstablishedNothing => corpus[i].authority = {}

\* with_declared_mirror leaves no authority for the target's runs.
MirrorPossible ==
    \A i \in DOMAIN corpus :
        corpus[i].subject = requirement.subject
            => corpus[i].proposition \notin corpus[i].authority

Mirrors == {FALSE} \cup {m \in {TRUE} : MirrorPossible}

\* An answer that passes as supported is supported by what was collected: for
\* every proposition its evaluator declares, either each instant of the interval
\* it is about is established by a run known by the cutoff, or it is about the
\* present and rests on an observation of a complete, authoritative run.  No
\* choice of another interval, branch or proposition, of duplicate decisions or
\* of invented evidence gets past.  (validate_assertions,
\* validate_supported_coverage)
EstablishedThroughout(answer, p) ==
    \A t \in Time : Within(t, answer.interval) =>
        \E i \in DOMAIN corpus :
            /\ corpus[i].completedAt <= knownAt
            /\ Establishes(corpus[i], [proposition |-> p, subject |-> answer.subject,
                                       branch |-> answer.branch,
                                       interval |-> answer.interval,
                                       malformed |-> FALSE], t)

RestsOnCompleteRun(answer, p) ==
    /\ answer.pointInTime
    /\ \E o \in answer.support \cap DOMAIN corpus :
            /\ corpus[o].completedAt <= knownAt
            /\ corpus[o].outcome = "Complete" /\ p \in corpus[o].authority

SupportedCovered ==
    pc = "decided" =>
        \A answer \in Answers, declared \in Declarations, mirror \in Mirrors :
            answer.outcome = "Supported" /\ Accepted(answer, declared, mirror) =>
                \A p \in declared :
                    \/ RestsOnCompleteRun(answer, p)
                    \/ /\ answer.interval # NoInterval
                       /\ EstablishedThroughout(answer, p)

\* What the packs answer of the branch's configuration and of its checks.
PolicyAnswers(setting, e, mirror) ==
    RequiredStatusChecks(setting, e, mirror)
    \cup BranchPolicies(setting, e) \cup ApprovingReview(setting, e)

\* The packs' own reading of established, authoritative and mirrored evidence
\* agrees with core's: no answer of theirs is refused, which would end the whole
\* evaluation with an error.  (packs' established, withheld_by_mirror and
\* complete against unestablished, mirror_gap and validate_supported_coverage)
PackAnswersAccepted ==
    pc = "decided" /\ CapturedByCore =>
        \A mirror \in Mirrors :
            /\ \A setting \in Settings :
                \A answer \in PolicyAnswers(setting, Evidence, mirror) :
                    Accepted(answer, {BranchConfiguration}, mirror)
            /\ \A report \in Reports :
                \A answer \in CurrentRevisionChecks(report, Evidence, mirror) :
                    Accepted(answer, {RevisionChecks}, mirror)

\* Evidence of runs that established nothing, or of a declared mirror, decides
\* nothing: every answer that is not insufficient is also the answer without that
\* evidence, however late it was observed.  It may only hide an answer.
\* (docs/concepts.md:56-59 of what a failed run and a mirror are good for;
\* latest, observation_authoritative)
DecidedBy(answers, sound) ==
    \A answer \in answers :
        answer.outcome # "InsufficientEvidence" => answer \in sound

FailuresDecideNothing ==
    pc = "decided" /\ CapturedByCore =>
        \A mirror \in Mirrors :
            LET sound == {o \in Evidence : ~Unestablished(o, mirror)}
            IN  /\ \A setting \in Settings :
                    /\ DecidedBy(PolicyAnswers(setting, Evidence, mirror),
                                 PolicyAnswers(setting, sound, mirror))
                    /\ DecidedBy(ConfiguredReview(setting, Evidence, mirror),
                                 ConfiguredReview(setting, sound, mirror))
                /\ \A report \in Reports :
                    DecidedBy(CurrentRevisionChecks(report, Evidence, mirror),
                              CurrentRevisionChecks(report, sound, mirror))

=============================================================================
