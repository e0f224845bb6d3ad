------------------------------- MODULE MCCoverage -------------------------------
(***************************************************************************)
(* Coverage over five instants.  Three-run corpora hold complete runs over *)
(* every interval, which gives every overlap, adjacency, containment and   *)
(* gap the merge can meet; two-run corpora add every way a run can fail to *)
(* count.  On the same corpora the answers of packs are checked; corpora   *)
(* about revision checks are there for the evaluator that joins two kinds  *)
(* of observation.                                                         *)
(***************************************************************************)
EXTENDS PackAnswers

CONSTANTS main, other    \* branches
CONSTANTS repo, fork     \* subjects
CONSTANTS review, push   \* propositions: branch configuration, revision checks
CONSTANT  imported       \* the observation outside any run

MCTime == 0..4
MCSubjects == {repo, fork}
MCPropositions == {review, push}
MCBranches == {main, other}

Range(from, until) == [from |-> from, until |-> until]
Observed(from, until) ==
    [proposition |-> review, branch |-> main, interval |-> Range(from, until)]

Full == [subject |-> repo, proposition |-> review, branch |-> main,
         authority |-> {review}, outcome |-> "Complete",
         terminalPageReached |-> TRUE, nextTokenPresent |-> FALSE,
         observed |-> Observed(0, 4), startedAt |-> 4, completedAt |-> 4,
         malformed |-> {}]

CompleteRuns ==
    {[Full EXCEPT !.observed.interval = i] :
        i \in {j \in [from : MCTime, until : MCTime] : j.from < j.until}}

\* The cut at the start of the run, and runs that finish before the cutoff.
EarlyRuns ==
    {[Full EXCEPT !.startedAt = s, !.completedAt = 3] : s \in 0..3}

\* Every outcome, pagination state and scope that keeps a run from counting.
DeficientRuns ==
    {[Full EXCEPT !.outcome = o] : o \in Outcomes}
    \cup {[Full EXCEPT !.outcome = "Failed", !.authority = {}],
          [Full EXCEPT !.authority = {}, !.completedAt = 3]}
    \cup {[Full EXCEPT !.outcome = "RetentionLimited", !.observed = Observed(2, 4)],
          [Full EXCEPT !.terminalPageReached = FALSE],
          [Full EXCEPT !.nextTokenPresent = TRUE],
          [Full EXCEPT !.authority = {push}],
          [Full EXCEPT !.subject = fork],
          [Full EXCEPT !.proposition = push],
          [Full EXCEPT !.branch = other],
          [Full EXCEPT !.observed = NoScope],
          [Full EXCEPT !.observed.branch = other],
          [Full EXCEPT !.observed.interval = Range(3, 1)]}
    \cup {[Full EXCEPT !.malformed = {f}] : f \in TimestampFields}

AnyRun == CompleteRuns \cup EarlyRuns \cup DeficientRuns

CheckRuns ==
    LET Checks(o, authority, at) ==
            [Full EXCEPT !.proposition = push, !.observed.proposition = push,
                         !.outcome = o, !.authority = authority, !.completedAt = at]
    IN  {Checks("Complete", {push}, 4), Checks("Complete", {push}, 3),
         Checks("Partial", {push}, 4), Checks("Failed", {}, 4),
         Checks("Complete", {}, 4)}

MCCorpora ==
    {<<>>} \cup {<<a>> : a \in AnyRun}
    \cup {<<a, b>> : a \in AnyRun, b \in AnyRun}
    \cup {<<a, b, c>> : a \in CompleteRuns, b \in CompleteRuns,
                        c \in CompleteRuns \cup EarlyRuns}
    \cup {<<a, b, c>> : a \in CheckRuns, b \in CheckRuns,
                        c \in CheckRuns \cup {Full}}

Requires(from, until) ==
    [proposition |-> review, subject |-> repo, branch |-> main,
     interval |-> Range(from, until), malformed |-> FALSE]

MCRequirements ==
    {Requires(0, 4), Requires(1, 3), Requires(2, 2),
     [Requires(0, 4) EXCEPT !.malformed = TRUE],
     [Requires(0, 4) EXCEPT !.proposition = push]}

Decided(req, o) == [requirement |-> req, outcome |-> o]

\* What an answer of a pack may cite: nothing, one decision, the same twice, or
\* one about something else.
Citations ==
    LET full == Decided(Requires(0, 4), "Complete")
    IN  {<<>>, <<full>>, <<full, full>>,
         <<Decided(Requires(0, 4), "Incomplete")>>,
         <<Decided(Requires(1, 3), "Complete")>>,
         <<Decided([Requires(0, 4) EXCEPT !.branch = other], "Complete")>>,
         <<full, Decided([Requires(0, 4) EXCEPT !.proposition = push], "Complete")>>}

MCAnswers ==
    [outcome : {"Supported"}, pointInTime : BOOLEAN, at : {3, 4},
     subject : {repo}, branch : {main},
     interval : {Range(0, 4), Range(1, 3), NoInterval},
     coverage : Citations, support : {{}, {1}, {1, 2}, {imported}},
     contradictions : {{}}]

MCDeclarations == {{review}, {review, push}}

Use3 == 1..3 \cup {imported}
Says(values) == [Use3 -> values]

\* Snapshots: agreeing, and disagreeing with each other.
MCSettings ==
    {s \in Says({"required", "none", "unreported"}) :
        s[2] = s[3] /\ s[3] = s[imported]}

\* Enumerations of checks and statuses of one revision or two.
Enumerated(k, r, results) == [kind |-> k, revision |-> r, results |-> results]
MCReports ==
    {[o \in Use3 |-> IF o = 1 THEN Enumerated("checks", 1, first)
                     ELSE IF o = 2 THEN Enumerated("statuses", r, second)
                     ELSE Enumerated("checks", 1, {})] :
        first \in {{"passed"}, {"passed", "failed"}, {"pending"}},
        second \in {{"passed"}, {}}, r \in {1, 2}}

=============================================================================
