-------------------------------- MODULE Coverage --------------------------------
(***************************************************************************)
(* `coverage::assess`: one decision about one requirement.  The three      *)
(* loops of the function are three phases: "assess" walks the corpus's     *)
(* collection runs, "merge" folds the contributed intervals in order of    *)
(* their start, "gaps" walks the merged intervals with a cursor.  Each     *)
(* iteration is a step.                                                    *)
(*                                                                         *)
(* `pending` stands for the sorted Vec the merge loop walks: the next      *)
(* element is one with the least `from`.  The sort leaves the order of     *)
(* equal starts to the input; the model leaves it open, and the properties *)
(* hold for every order.                                                   *)
(***************************************************************************)
EXTENDS CoverageRules, Sequences

CONSTANTS
    Corpora,        \* the sequences of runs a corpus may hold
    Requirements    \* the requirements a claim may state

VARIABLES
    corpus,         \* corpus.collections
    requirement,    \* what the claim needs
    knownAt,        \* the evaluation's knowledge cutoff
    pc,             \* phase of `assess`
    next,           \* next run to look at
    assessments,    \* one record per run that was not skipped
    pending,        \* contributions not merged yet
    covered,        \* merged intervals
    position,       \* next merged interval the gap loop looks at
    cursor,         \* everything required before it is accounted for
    uncovered,      \* gaps found so far
    outcome         \* the decision's outcome once made

inputs == <<corpus, requirement, knownAt>>
vars == <<corpus, requirement, knownAt, pc, next, assessments, pending,
          covered, position, cursor, uncovered, outcome>>

Assessment == [run : Nat, disposition : Dispositions,
               contributed : SUBSET Interval]

ASSUME InputAssumption ==
    /\ Corpora \subseteq Seq(Run)
    /\ Requirements \subseteq Requirement

Init ==
    /\ corpus \in Corpora
    /\ requirement \in Requirements
    /\ knownAt \in Time
    /\ pc = "start"
    /\ next = 1
    /\ assessments = <<>>
    /\ pending = {}
    /\ covered = <<>>
    /\ position = 1
    /\ cursor = requirement.interval.from
    /\ uncovered = <<>>
    /\ outcome = "None"

\* Parse the required interval and insist on a positive duration.
Start ==
    /\ pc = "start"
    /\ pc' = IF \/ requirement.malformed
                \/ requirement.interval.from >= requirement.interval.until
             THEN "error" ELSE "assess"
    /\ UNCHANGED <<inputs, next, assessments, pending, covered, position,
                   cursor, uncovered, outcome>>

-----------------------------------------------------------------------------
Looking == pc = "assess" /\ next <= Len(corpus)

\* The completion time is parsed before anything else is looked at.
Readable(run) == "completedAt" \notin run.malformed

Relevant(run) == run.completedAt <= knownAt /\ Concerns(run, requirement)

SkipRun ==
    /\ Looking
    /\ Readable(corpus[next]) /\ ~Relevant(corpus[next])
    /\ next' = next + 1
    /\ UNCHANGED <<inputs, pc, assessments, pending, covered, position,
                   cursor, uncovered, outcome>>

AssessRun ==
    /\ Looking
    /\ Readable(corpus[next]) /\ Relevant(corpus[next])
    /\ ~Unreadable(corpus[next], requirement)
    /\ LET run == corpus[next] IN
        /\ assessments' = Append(assessments,
               [run |-> next,
                disposition |-> Disposition(run, requirement),
                contributed |-> Contribution(run, requirement)])
        /\ pending' = pending \cup Contribution(run, requirement)
    /\ next' = next + 1
    /\ UNCHANGED <<inputs, pc, covered, position, cursor, uncovered, outcome>>

\* A timestamp that does not parse ends the assessment with an error.
RejectRun ==
    /\ Looking
    /\ \/ ~Readable(corpus[next])
       \/ Relevant(corpus[next]) /\ Unreadable(corpus[next], requirement)
    /\ pc' = "error"
    /\ UNCHANGED <<inputs, next, assessments, pending, covered, position,
                   cursor, uncovered, outcome>>

RunsAssessed ==
    /\ pc = "assess" /\ next > Len(corpus)
    /\ pc' = "merge"
    /\ UNCHANGED <<inputs, next, assessments, pending, covered, position,
                   cursor, uncovered, outcome>>

-----------------------------------------------------------------------------
First(interval) ==
    /\ interval \in pending
    /\ \A other \in pending : interval.from <= other.from

\* Slip: an interval that starts where the last one ends is taken for a new one.
TouchesStrictly(interval) ==
    covered # <<>> /\ interval.from < covered[Len(covered)].until

\* The interval overlaps or touches the last merged one and extends it.
Touches(interval) ==
    covered # <<>> /\ interval.from <= covered[Len(covered)].until

\* Slip: the merged interval ends where the last interval ends, so that a
\* contained interval shortens it.
ExtendToLast ==
    /\ pc = "merge"
    /\ \E interval \in pending :
        /\ First(interval) /\ Touches(interval)
        /\ covered' = [covered EXCEPT ![Len(covered)].until = interval.until]
        /\ pending' = pending \ {interval}
    /\ UNCHANGED <<inputs, pc, next, assessments, position, cursor, uncovered,
                   outcome>>

Extend ==
    /\ pc = "merge"
    /\ \E interval \in pending :
        /\ First(interval) /\ Touches(interval)
        /\ covered' = [covered EXCEPT ![Len(covered)] =
               [from |-> @.from, until |-> Larger(@.until, interval.until)]]
        /\ pending' = pending \ {interval}
    /\ UNCHANGED <<inputs, pc, next, assessments, position, cursor, uncovered,
                   outcome>>

Push ==
    /\ pc = "merge"
    /\ \E interval \in pending :
        /\ First(interval) /\ ~Touches(interval)
        /\ covered' = Append(covered, interval)
        /\ pending' = pending \ {interval}
    /\ UNCHANGED <<inputs, pc, next, assessments, position, cursor, uncovered,
                   outcome>>

Merged ==
    /\ pc = "merge" /\ pending = {}
    /\ pc' = "gaps"
    /\ UNCHANGED <<inputs, next, assessments, pending, covered, position,
                   cursor, uncovered, outcome>>

-----------------------------------------------------------------------------
Gap(until) ==
    IF cursor < until
    THEN Append(uncovered, [from |-> cursor, until |-> until])
    ELSE uncovered

PassCovered ==
    /\ pc = "gaps" /\ position <= Len(covered)
    /\ uncovered' = Gap(covered[position].from)
    /\ cursor' = Larger(cursor, covered[position].until)
    /\ position' = position + 1
    /\ UNCHANGED <<inputs, pc, next, assessments, pending, covered, outcome>>

\* Slip: the gap after the last covered interval is forgotten.
DecideWithoutTrailingGap ==
    /\ pc = "gaps" /\ position > Len(covered)
    /\ outcome' = IF uncovered = <<>> THEN "Complete" ELSE "Incomplete"
    /\ pc' = "decided"
    /\ UNCHANGED <<inputs, next, assessments, pending, covered, position,
                   cursor, uncovered>>

\* The trailing gap, and the decision.
Decide ==
    /\ pc = "gaps" /\ position > Len(covered)
    /\ uncovered' = Gap(requirement.interval.until)
    /\ outcome' = IF uncovered' = <<>> THEN "Complete" ELSE "Incomplete"
    /\ pc' = "decided"
    /\ UNCHANGED <<inputs, next, assessments, pending, covered, position,
                   cursor>>

Ended == pc \in {"decided", "error"} /\ UNCHANGED vars

Next ==
    \/ Start
    \/ SkipRun \/ AssessRun \/ RejectRun \/ RunsAssessed
    \/ Extend \/ Push \/ Merged
    \/ PassCovered \/ Decide
    \/ Ended

Spec == Init /\ [][Next]_vars

-----------------------------------------------------------------------------
TypeOK ==
    /\ corpus \in Seq(Run)
    /\ requirement \in Requirement
    /\ knownAt \in Time
    /\ pc \in {"start", "assess", "merge", "gaps", "decided", "error"}
    /\ next \in 1..(Len(corpus) + 1)
    /\ assessments \in Seq(Assessment)
    /\ pending \subseteq Interval
    /\ covered \in Seq(Interval)
    /\ position \in 1..(Len(covered) + 1)
    /\ cursor \in Time
    /\ uncovered \in Seq(Interval)
    /\ outcome \in {"None", "Complete", "Incomplete"}

\* t lies in one of the intervals of the sequence s.
In(t, s) == \E i \in DOMAIN s : Within(t, s[i])

\* Of the runs before the k-th, one known by the cutoff establishes t.
EstablishedBefore(k, t) ==
    \E i \in DOMAIN corpus :
        /\ i < k
        /\ corpus[i].completedAt <= knownAt
        /\ Establishes(corpus[i], requirement, t)

Established(t) == EstablishedBefore(Len(corpus) + 1, t)

\* A decision is exact: an instant of the required interval is reported as
\* uncovered exactly when no run known by the cutoff establishes it, whatever
\* the order, overlap and adjacency of the runs.  (assess, merge_intervals,
\* gaps)
DecisionExact ==
    pc = "decided" =>
        \A t \in Time : Within(t, requirement.interval) =>
            (~Established(t) <=> In(t, uncovered))

\* "Complete" is said exactly when the whole required interval is
\* established, to its last instant.  (assess: `gaps.is_empty()`)
CompleteMeansEstablished ==
    pc = "decided" =>
        (outcome = "Complete" <=>
            \A t \in Time : Within(t, requirement.interval) => Established(t))

\* Intervals in a decision are non-empty, in order, and separated by at least
\* an instant, so that a reader may take each as a maximal stretch.  Gaps never
\* touch each other either: between two of them something is covered.
\* (merge_intervals, gaps)
Separated(s) ==
    /\ \A i \in DOMAIN s : s[i].from < s[i].until
    /\ \A i, j \in DOMAIN s : i < j => s[i].until < s[j].from

CanonicalIntervals ==
    /\ pc \in {"gaps", "decided"} => Separated(covered)
    /\ Separated(uncovered)

\* The covered and uncovered intervals together are the required interval, and no
\* instant is in both.
Partitioned ==
    pc = "decided" =>
        \A t \in Time :
            /\ Within(t, requirement.interval) <=> In(t, covered) \/ In(t, uncovered)
            /\ ~(In(t, covered) /\ In(t, uncovered))

\* A decision accounts for what was asked and nothing else, in maximal stretches.
\* (assess, merge_intervals, gaps)
Tiled == CanonicalIntervals /\ Partitioned

=============================================================================
