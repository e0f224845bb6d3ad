---------------------------------- MODULE Views ----------------------------------
(***************************************************************************)
(* `isms_update`: what a review says of two evaluations.                   *)
(*                                                                         *)
(* An evaluation is a sequence of answers.  An answer has the kind of its  *)
(* claim, a subject (repository, branch and release), the interval it is   *)
(* about, an outcome, and the requirements it misses.                      *)
(***************************************************************************)
EXTENDS Naturals, Sequences

CONSTANTS
    CoreReviewed,   \* kinds of claims of core that a review selects
    PackKinds       \* kinds of claims of packs, all of which it selects

\* `review_assertions`: where the reviewed answers are; the first of each kind of core's.
ReviewAssertions(answers) ==
    {i \in DOMAIN answers :
        \/ answers[i].kind \in PackKinds
        \/ /\ answers[i].kind \in CoreReviewed
           /\ \A j \in DOMAIN answers : answers[j].kind = answers[i].kind => i <= j}

\* Slip: the same claim over a period that ends later is another claim.
KeyWithEnd(answer) ==
    <<answer.kind, answer.subject, answer.from, answer.until>>

\* The same claim in two evaluations; the interval's end advances with every one.
ReviewKey(answer) == <<answer.kind, answer.subject, answer.from>>

\* The answers by key: of those with one key the last.
ByKey(answers) ==
    LET reviewed == ReviewAssertions(answers)
        Last(i) == \A j \in reviewed \ {i} :
                        ReviewKey(answers[j]) = ReviewKey(answers[i]) => j < i
    IN  {answers[i] : i \in {i \in reviewed : Last(i)}}

\* The claims whose outcome differs, as it was and as it is.
Changes(former, latest) ==
    {change \in ByKey(former) \X ByKey(latest) :
        /\ ReviewKey(change[1]) = ReviewKey(change[2])
        /\ change[1].outcome # change[2].outcome}

\* What is missing for a claim, whatever the interval.
Gaps(answers) ==
    UNION {{<<answers[i].kind, answers[i].subject, requirement>> :
                requirement \in answers[i].missing} : i \in ReviewAssertions(answers)}

NewGaps(former, latest) == Gaps(latest) \ Gaps(former)

\* Claims that were decided and are not any more.
CoverageRegressions(changes) ==
    {change[2] : change \in {c \in changes :
        /\ c[2].outcome = "InsufficientEvidence"
        /\ c[1].outcome # "InsufficientEvidence"}}

IsmsUpdate(former, latest) ==
    LET changes == Changes(former, latest)
    IN  [changes |-> changes, newGaps |-> NewGaps(former, latest),
         regressions |-> CoverageRegressions(changes)]

==================================================================================
