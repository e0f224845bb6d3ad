----------------------------- MODULE CoverageRules -----------------------------
(***************************************************************************)
(* What one collection run says about a required population: the operators *)
(* of `assess_run` in src/coverage.rs, and next to them the pointwise      *)
(* reading of the module's documentation that the runs and proofs hold     *)
(* them to.                                                                *)
(*                                                                         *)
(* Time is an arbitrary set of integers.  An Option<Interval> is a set     *)
(* with at most one element.  A timestamp that does not parse is recorded  *)
(* by name in the run's `malformed` set; the code reads the fields one at  *)
(* a time, so a malformed field only matters where it is read.             *)
(***************************************************************************)
EXTENDS Integers

CONSTANTS
    Time,           \* instants
    Subjects,       \* repository identifiers
    Propositions,   \* populations a collector can claim authority for
    Branches,       \* branch names, the absent branch among them
    NoScope         \* a run that recorded no observed scope

Interval == [from : Time, until : Time]
Scope == [proposition : Propositions, branch : Branches, interval : Interval]
TimestampFields == {"completedAt", "startedAt", "observed"}

Unavailable == {"PermissionDenied", "Interrupted", "Failed", "NotAttempted"}
Outcomes == Unavailable \cup {"Partial", "Complete", "RetentionLimited"}
Dispositions ==
    {"Used", "ScopeMismatch", "NotAuthoritative", "PaginationIncomplete",
     "PermissionDenied", "RetentionLimited", "Interrupted", "Failed",
     "NotAttempted"}

Run == [subject : Subjects,
        proposition : Propositions,         \* requested_scope
        branch : Branches,                  \* requested_scope
        authority : SUBSET Propositions,
        outcome : Outcomes,
        terminalPageReached : BOOLEAN,
        nextTokenPresent : BOOLEAN,
        observed : Scope \cup {NoScope},
        startedAt : Time,
        completedAt : Time,
        malformed : SUBSET TimestampFields]

Requirement == [proposition : Propositions, subject : Subjects,
                branch : Branches, interval : Interval, malformed : BOOLEAN]

ASSUME TimeAssumption == Time \subseteq Int
ASSUME NoScopeAssumption == NoScope \notin Scope

-----------------------------------------------------------------------------
Larger(a, b) == IF a >= b THEN a ELSE b
Smaller(a, b) == IF a <= b THEN a ELSE b

\* `intersection`: the common part of two half-open intervals, if any.
Intersection(left, right) ==
    {i \in {[from |-> Larger(left.from, right.from),
             until |-> Smaller(left.until, right.until)]} : i.from < i.until}

\* The runs `assess` looks at: the rest are skipped without a disposition.
Concerns(run, req) ==
    /\ run.subject = req.subject
    /\ run.proposition = req.proposition
    /\ run.branch = req.branch

ObservedMatches(run, req) ==
    /\ run.observed # NoScope
    /\ run.observed.proposition = req.proposition
    /\ run.observed.branch = req.branch

\* The part of the required interval the run observed.
Overlap(run, req) ==
    IF ObservedMatches(run, req)
    THEN Intersection(req.interval, run.observed.interval)
    ELSE {}

\* `assess_run` up to the pagination checks: everything that is decided
\* before the observed scope is looked at.
Disposition(run, req) ==
    IF req.proposition \notin run.authority THEN "NotAuthoritative"
    ELSE IF run.outcome \in Unavailable THEN run.outcome
    ELSE IF ~run.terminalPageReached \/ run.nextTokenPresent
         THEN "PaginationIncomplete"
    ELSE IF run.outcome = "Partial" THEN "PaginationIncomplete"
    ELSE IF Overlap(run, req) = {} THEN "ScopeMismatch"
    ELSE IF run.outcome = "RetentionLimited" THEN "RetentionLimited"
    ELSE "Used"

\* Slip: a run covers what it says it observed, past its own start.
ContributionUncut(run, req) ==
    IF Disposition(run, req) \in {"Used", "RetentionLimited"}
    THEN Overlap(run, req) ELSE {}

\* The overlap is cut at the run's own start; a cut that leaves nothing
\* keeps the disposition and contributes no interval.
Contribution(run, req) ==
    IF Disposition(run, req) \in {"Used", "RetentionLimited"}
    THEN UNION {Intersection(o, [from |-> o.from, until |-> run.startedAt]) :
                    o \in Overlap(run, req)}
    ELSE {}

\* The `?` exits of `assess_run`: the observed interval is parsed once the
\* scope matches, the start only when there is an overlap to cut.
Unreadable(run, req) ==
    /\ req.proposition \in run.authority
    /\ run.outcome \in {"Complete", "RetentionLimited"}
    /\ run.terminalPageReached /\ ~run.nextTokenPresent
    /\ ObservedMatches(run, req)
    /\ \/ "observed" \in run.malformed
       \/ Overlap(run, req) # {} /\ "startedAt" \in run.malformed

-----------------------------------------------------------------------------
(***************************************************************************)
(* The reference reading.  A run establishes an instant of the required    *)
(* population when it was authoritative for it, read the source to its     *)
(* last page, observed that instant, and started after it.                 *)
(***************************************************************************)
Within(t, interval) == interval.from <= t /\ t < interval.until

Establishes(run, req, t) ==
    /\ Concerns(run, req)
    /\ req.proposition \in run.authority
    /\ run.outcome \in {"Complete", "RetentionLimited"}
    /\ run.terminalPageReached /\ ~run.nextTokenPresent
    /\ ObservedMatches(run, req)
    /\ Within(t, run.observed.interval)
    /\ t < run.startedAt

=============================================================================
