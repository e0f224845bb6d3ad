----------------------------- MODULE CoverageProofs -----------------------------
(***************************************************************************)
(* Proofs about coverage decisions and the answers that rest on them.      *)
(*                                                                         *)
(* Coverage decisions are exact, for every set of instants, corpus and     *)
(* requirement.  The inductive invariant says, phase by phase, where the   *)
(* established instants are held: in `pending` while runs are assessed, in *)
(* `pending` and `covered` while intervals are merged, and outside         *)
(* `uncovered` up to the cursor while gaps are found.                      *)
(***************************************************************************)
EXTENDS PackAnswers, TLAPS

Required == requirement.interval

\* An interval that can be in a decision: non-empty, inside what was asked.
Inside(i) ==
    /\ Required.from <= i.from
    /\ i.from < i.until
    /\ i.until <= Required.until

Pending(t) == \E i \in pending : Within(t, i)

\* Past the first step the requirement has a positive duration, and before the
\* gap loop the gap loop's variables are untouched.
Bounds ==
    /\ pc \in {"assess", "merge", "gaps", "decided"} => Required.from < Required.until
    /\ pc \in {"start", "assess", "merge"} =>
        /\ position = 1
        /\ cursor = Required.from
        /\ uncovered = <<>>
    /\ \A i \in pending : Inside(i)
    /\ \A k \in DOMAIN covered : Inside(covered[k])

Assessing ==
    pc \in {"start", "assess"} =>
        /\ covered = <<>>
        /\ \A t \in Time : Within(t, Required) =>
            (EstablishedBefore(next, t) <=> Pending(t))

Merging ==
    pc = "merge" =>
        /\ Separated(covered)
        /\ covered # <<>> => \A i \in pending : covered[Len(covered)].from <= i.from
        /\ \A t \in Time : Within(t, Required) =>
            (Established(t) <=> Pending(t) \/ In(t, covered))

MergedExactly ==
    pc \in {"gaps", "decided"} =>
        /\ Separated(covered)
        /\ \A t \in Time : Within(t, Required) =>
            (Established(t) <=> In(t, covered))

Walking ==
    pc = "gaps" =>
        /\ cursor = IF position = 1 THEN Required.from
                                    ELSE covered[position - 1].until
        /\ Separated(uncovered)
        /\ \A k \in DOMAIN uncovered :
            /\ Required.from <= uncovered[k].from
            /\ uncovered[k].until < cursor
        /\ \A t \in Time : Required.from <= t /\ t < cursor =>
            (In(t, covered) <=> ~In(t, uncovered))
        /\ \A t \in Time : cursor <= t => ~In(t, uncovered)

Decided ==
    pc = "decided" =>
        /\ Separated(uncovered)
        /\ \A k \in DOMAIN uncovered : Inside(uncovered[k])
        /\ \A t \in Time : Within(t, Required) =>
            (In(t, covered) <=> ~In(t, uncovered))
        /\ outcome = IF uncovered = <<>> THEN "Complete" ELSE "Incomplete"

Inv ==
    /\ TypeOK
    /\ Bounds
    /\ Assessing
    /\ Merging
    /\ MergedExactly
    /\ Walking
    /\ Decided
    /\ pc = "error" => uncovered = <<>>


-----------------------------------------------------------------------------
\* The common part of two intervals holds exactly the instants both hold.
LEMMA IntersectionExact ==
    ASSUME NEW l \in Interval, NEW r \in Interval
    PROVE  /\ Intersection(l, r) \subseteq Interval
           /\ \A i \in Intersection(l, r) :
                /\ i.from < i.until
                /\ l.from <= i.from /\ i.until <= l.until
                /\ r.from <= i.from /\ i.until <= r.until
           /\ \A t \in Time : (\E i \in Intersection(l, r) : Within(t, i))
                               <=> Within(t, l) /\ Within(t, r)
<1> DEFINE c == [from |-> Larger(l.from, r.from), until |-> Smaller(l.until, r.until)]
<1>1. c \in Interval
  BY DEF Interval, Larger, Smaller
<1>2. /\ c.from = IF l.from >= r.from THEN l.from ELSE r.from
      /\ c.until = IF l.until <= r.until THEN l.until ELSE r.until
  BY DEF Larger, Smaller
<1>3. Intersection(l, r) = IF c.from < c.until THEN {c} ELSE {}
  BY DEF Intersection
<1>4. /\ l.from \in Int /\ l.until \in Int
      /\ r.from \in Int /\ r.until \in Int
  BY TimeAssumption DEF Interval
<1> HIDE DEF c
<1>5. ASSUME NEW t \in Time
      PROVE  (\E i \in Intersection(l, r) : Within(t, i)) <=> Within(t, l) /\ Within(t, r)
  <2>1. t \in Int
    BY TimeAssumption
  <2>2. Within(t, c) <=> Within(t, l) /\ Within(t, r)
    BY <1>2, <1>4, <2>1 DEF Within
  <2>3. Within(t, c) => c.from < c.until
    BY <1>2, <1>4, <2>1 DEF Within
  <2> QED
    BY <1>3, <2>2, <2>3
<1> QED
  BY <1>1, <1>2, <1>3, <1>4, <1>5

\* One run contributes exactly the required instants it establishes: the
\* overlap, the cut at its start and the order of the checks in assess_run
\* lose nothing and add nothing.
LEMMA ContributionExact ==
    ASSUME NEW run \in Run, NEW req \in Requirement, Concerns(run, req)
    PROVE  /\ Contribution(run, req) \subseteq Interval
           /\ \A i \in Contribution(run, req) :
                /\ i.from < i.until
                /\ req.interval.from <= i.from /\ i.until <= req.interval.until
           /\ \A t \in Time : Within(t, req.interval) =>
                ((\E i \in Contribution(run, req) : Within(t, i))
                    <=> Establishes(run, req, t))
<1> DEFINE cut(o) == Intersection(o, [from |-> o.from, until |-> run.startedAt])
           counts == /\ req.proposition \in run.authority
                     /\ run.outcome \in {"Complete", "RetentionLimited"}
                     /\ run.terminalPageReached /\ ~run.nextTokenPresent
<1>1. req.interval \in Interval /\ run.startedAt \in Time
  BY DEF Requirement, Run
<1>2. ObservedMatches(run, req) => run.observed.interval \in Interval
  BY DEF ObservedMatches, Run, Scope
<1>3. \A o \in Overlap(run, req) :
        /\ o \in Interval /\ o.from < o.until
        /\ req.interval.from <= o.from /\ o.until <= req.interval.until
  BY <1>1, <1>2, IntersectionExact DEF Overlap
<1>4. \A t \in Time : (\E o \in Overlap(run, req) : Within(t, o))
        <=> /\ ObservedMatches(run, req)
            /\ Within(t, req.interval) /\ Within(t, run.observed.interval)
  BY <1>1, <1>2, IntersectionExact DEF Overlap
<1>5. ASSUME NEW o \in Overlap(run, req)
      PROVE  /\ cut(o) \subseteq Interval
             /\ \A i \in cut(o) :
                    /\ i.from < i.until
                    /\ req.interval.from <= i.from /\ i.until <= req.interval.until
             /\ \A t \in Time : (\E i \in cut(o) : Within(t, i))
                                <=> Within(t, o) /\ t < run.startedAt
  <2> DEFINE before == [from |-> o.from, until |-> run.startedAt]
  <2>1. o \in Interval /\ before \in Interval
    BY <1>1, <1>3 DEF Interval
  <2>2. /\ before.from = o.from /\ before.until = run.startedAt
        /\ o.from \in Int /\ o.until \in Int /\ run.startedAt \in Int
        /\ req.interval.from \in Int /\ req.interval.until \in Int
    BY <1>1, <2>1, TimeAssumption DEF Interval
  <2> HIDE DEF before
  <2>3. /\ Intersection(o, before) \subseteq Interval
        /\ \A i \in Intersection(o, before) :
                i.from < i.until /\ o.from <= i.from /\ i.until <= o.until
        /\ \A t \in Time : (\E i \in Intersection(o, before) : Within(t, i))
                             <=> Within(t, o) /\ Within(t, before)
    BY <2>1, IntersectionExact
  <2>4. \A t \in Time : Within(t, o) => (Within(t, before) <=> t < run.startedAt)
    BY <2>2, TimeAssumption DEF Within
  <2>5. \A i \in Intersection(o, before) :
            req.interval.from <= i.from /\ i.until <= req.interval.until
    <3> SUFFICES ASSUME NEW i \in Intersection(o, before)
                 PROVE  req.interval.from <= i.from /\ i.until <= req.interval.until
      OBVIOUS
    <3>1. i.from \in Int /\ i.until \in Int
      BY <2>3, TimeAssumption DEF Interval
    <3> QED
      BY <1>3, <2>2, <2>3, <3>1
  <2> QED
    BY <2>3, <2>4, <2>5 DEF before
<1>6. Disposition(run, req) \in {"Used", "RetentionLimited"}
        <=> counts /\ Overlap(run, req) # {}
  BY DEF Disposition, Run, Outcomes, Unavailable
<1>7. Contribution(run, req) =
        IF counts /\ Overlap(run, req) # {}
        THEN UNION {cut(o) : o \in Overlap(run, req)} ELSE {}
  BY <1>6 DEF Contribution
<1>8. \A i : i \in Contribution(run, req)
            <=> counts /\ \E o \in Overlap(run, req) : i \in cut(o)
  BY <1>7
<1> HIDE DEF cut
<1>9. ASSUME NEW t \in Time, Within(t, req.interval)
      PROVE  (\E i \in Contribution(run, req) : Within(t, i)) <=> Establishes(run, req, t)
  <2>1. (\E i \in Contribution(run, req) : Within(t, i))
        <=> counts /\ \E o \in Overlap(run, req) : Within(t, o) /\ t < run.startedAt
    BY <1>5, <1>8
  <2>2. (\E o \in Overlap(run, req) : Within(t, o) /\ t < run.startedAt)
        <=> /\ ObservedMatches(run, req)
            /\ Within(t, run.observed.interval) /\ t < run.startedAt
    BY <1>4, <1>9
  <2> QED
    BY <2>1, <2>2 DEF Establishes
<1> QED
  BY <1>5, <1>8, <1>9

-----------------------------------------------------------------------------
LEMMA DispositionType ==
    ASSUME NEW run \in Run, NEW req \in Requirement
    PROVE  Disposition(run, req) \in Dispositions
BY DEF Disposition, Dispositions, Run, Outcomes, Unavailable

LEMMA GapType ==
    ASSUME TypeOK, NEW until \in Time
    PROVE  Gap(until) \in Seq(Interval)
<1>1. [from |-> cursor, until |-> until] \in Interval
  BY DEF TypeOK, Interval
<1> QED
  BY <1>1 DEF Gap, TypeOK

\* Every variable keeps its type, and `position`, `next` stay in their ranges.
LEMMA TypeStep == TypeOK /\ [Next]_vars => TypeOK'
<1> SUFFICES ASSUME TypeOK, [Next]_vars PROVE TypeOK'
  OBVIOUS
<1> USE DEF TypeOK, inputs
<1>1. CASE Start
  BY <1>1 DEF Start
<1>2. CASE SkipRun
  BY <1>2 DEF SkipRun, Looking
<1>3. CASE AssessRun
  <2>1. corpus[next] \in Run
    BY <1>3 DEF AssessRun, Looking
  <2>2. Contribution(corpus[next], requirement) \subseteq Interval
    BY <1>3, <2>1, ContributionExact DEF AssessRun, Relevant
  <2>3. [run |-> next, disposition |-> Disposition(corpus[next], requirement),
         contributed |-> Contribution(corpus[next], requirement)] \in Assessment
    BY <2>1, <2>2, DispositionType DEF Assessment
  <2>4. assessments' \in Seq(Assessment)
    BY <1>3, <2>3 DEF AssessRun
  <2> QED
    BY <1>3, <2>2, <2>4 DEF AssessRun, Looking
<1>4. CASE RejectRun
  BY <1>4 DEF RejectRun
<1>5. CASE RunsAssessed
  BY <1>5 DEF RunsAssessed
<1>6. CASE Extend
  <2>1. PICK i \in pending :
          /\ Touches(i)
          /\ covered' = [covered EXCEPT ![Len(covered)] =
                 [from |-> @.from, until |-> Larger(@.until, i.until)]]
          /\ pending' = pending \ {i}
    BY <1>6 DEF Extend
  <2>2. Len(covered) \in DOMAIN covered /\ covered[Len(covered)] \in Interval
    BY <2>1 DEF Touches
  <2>3. [from |-> covered[Len(covered)].from,
         until |-> Larger(covered[Len(covered)].until, i.until)] \in Interval
    BY <2>2 DEF Interval, Larger
  <2>4. covered' \in Seq(Interval) /\ Len(covered') = Len(covered)
    BY <2>1, <2>2, <2>3
  <2> QED
    BY <1>6, <2>1, <2>4 DEF Extend
<1>7. CASE Push
  <2>1. PICK i \in pending : covered' = Append(covered, i) /\ pending' = pending \ {i}
    BY <1>7 DEF Push
  <2>2. covered' \in Seq(Interval) /\ Len(covered') = Len(covered) + 1
    BY <2>1
  <2> QED
    BY <1>7, <2>1, <2>2 DEF Push
<1>8. CASE Merged
  BY <1>8 DEF Merged
<1>9. CASE PassCovered
  <2>1. covered[position] \in Interval
    BY <1>9 DEF PassCovered
  <2>2. /\ cursor' \in Time
        /\ uncovered' \in Seq(Interval)
    BY <1>9, <2>1, GapType DEF PassCovered, Larger, Interval
  <2> QED
    BY <1>9, <2>2 DEF PassCovered
<1>10. CASE Decide
  <2>1. uncovered' \in Seq(Interval)
    BY <1>10, GapType DEF Decide, Interval, Requirement
  <2> QED
    BY <1>10, <2>1 DEF Decide
<1>11. CASE UNCHANGED vars
  BY <1>11 DEF vars
<1> QED
  BY <1>1, <1>2, <1>3, <1>4, <1>5, <1>6, <1>7, <1>8, <1>9, <1>10, <1>11
  DEF Next, Ended

LEMMA TypeInit == Init => TypeOK
BY InputAssumption DEF Init, TypeOK, Requirement, Interval

\* Type correctness of the whole assessment.
THEOREM TypeCorrect == Spec => []TypeOK
BY TypeInit, TypeStep, PTL DEF Spec

-----------------------------------------------------------------------------
LEMMA TimesAreIntegers ==
    /\ \A t \in Time : t \in Int
    /\ \A i \in Interval : i.from \in Int /\ i.until \in Int
BY TimeAssumption DEF Interval

\* Everything an arithmetic step needs to know of the state's integers.
LEMMA StateIntegers ==
    ASSUME TypeOK
    PROVE  /\ Required \in Interval
           /\ Required.from \in Int /\ Required.until \in Int
           /\ cursor \in Int
           /\ \A k \in DOMAIN covered : covered[k] \in Interval
           /\ \A k \in DOMAIN uncovered : uncovered[k] \in Interval
           /\ DOMAIN covered = 1..Len(covered) /\ Len(covered) \in Nat
           /\ DOMAIN uncovered = 1..Len(uncovered) /\ Len(uncovered) \in Nat
<1>1. Required \in Interval
  BY DEF TypeOK, Required, Requirement
<1> QED
  BY <1>1, TimesAreIntegers DEF TypeOK

\* Looking at one more run adds what that run establishes.
LEMMA EstablishedStep ==
    ASSUME TypeOK, next <= Len(corpus), NEW t \in Time
    PROVE  EstablishedBefore(next + 1, t)
             <=> \/ EstablishedBefore(next, t)
                 \/ /\ corpus[next].completedAt <= knownAt
                    /\ Establishes(corpus[next], requirement, t)
<1>1. next \in DOMAIN corpus
  BY DEF TypeOK
<1>2. \A i \in DOMAIN corpus : i < next + 1 <=> i < next \/ i = next
  BY DEF TypeOK
<1> QED
  BY <1>1, <1>2 DEF EstablishedBefore

LEMMA InitInv == Init => Inv
<1> SUFFICES ASSUME Init PROVE Inv
  OBVIOUS
<1>1. TypeOK
  BY TypeInit
<1>2. Bounds
  BY DEF Init, Bounds, Required
<1>3. Assessing
  <2>1. \A t \in Time : ~EstablishedBefore(next, t)
    BY <1>1 DEF Init, EstablishedBefore, TypeOK
  <2>2. \A t \in Time : ~Pending(t)
    BY DEF Init, Pending
  <2> QED
    BY <2>1, <2>2 DEF Init, Assessing
<1> QED
  BY <1>1, <1>2, <1>3 DEF Init, Inv, Merging, MergedExactly, Walking, Decided

LEMMA StartStep == Inv /\ Start => Inv'
<1> SUFFICES ASSUME Inv, Start PROVE Inv'
  OBVIOUS
<1>1. TypeOK'
  BY TypeStep DEF Inv, Next
<1>2. UNCHANGED <<corpus, requirement, knownAt, next, assessments, pending, covered,
                  position, cursor, uncovered, outcome>>
  BY DEF Start, inputs
<1>3. pc = "start" /\ pc' \in {"assess", "error"}
  BY DEF Start
<1>4. Bounds'
  <2>1. pc' = "assess" => Required.from < Required.until
    BY StateIntegers DEF Start, Required, Inv
  <2> QED
    BY <1>2, <1>3, <2>1 DEF Bounds, Inv, Inside, Required
<1>5. Assessing'
  BY <1>2, <1>3 DEF Assessing, Inv, EstablishedBefore, Pending, Required
<1> QED
  BY <1>1, <1>2, <1>3, <1>4, <1>5
  DEF Inv, Merging, MergedExactly, Walking, Decided, Bounds

LEMMA SkipRunStep == Inv /\ SkipRun => Inv'
<1> SUFFICES ASSUME Inv, SkipRun PROVE Inv'
  OBVIOUS
<1>1. TypeOK'
  BY TypeStep DEF Inv, Next
<1>2. UNCHANGED <<corpus, requirement, knownAt, pc, assessments, pending, covered,
                  position, cursor, uncovered, outcome>>
  BY DEF SkipRun, inputs
<1>3. pc = "assess" /\ next <= Len(corpus) /\ next' = next + 1
  BY DEF SkipRun, Looking
<1>4. ASSUME NEW t \in Time
      PROVE  EstablishedBefore(next, t)' <=> EstablishedBefore(next, t)
  <2>1. ~ /\ corpus[next].completedAt <= knownAt
          /\ Establishes(corpus[next], requirement, t)
    BY DEF SkipRun, Relevant, Establishes
  <2>2. EstablishedBefore(next + 1, t) <=> EstablishedBefore(next, t)
    BY <1>3, <2>1, EstablishedStep DEF Inv
  <2>3. EstablishedBefore(next, t)' <=> EstablishedBefore(next + 1, t)
    BY <1>2, <1>3 DEF EstablishedBefore
  <2> QED
    BY <2>2, <2>3
<1>5. Assessing'
  BY <1>2, <1>3, <1>4 DEF Assessing, Inv, Pending, Required
<1>6. Bounds'
  BY <1>2 DEF Bounds, Inv, Inside, Required
<1> QED
  BY <1>1, <1>2, <1>3, <1>5, <1>6 DEF Inv, Merging, MergedExactly, Walking, Decided

LEMMA AssessRunStep == Inv /\ AssessRun => Inv'
<1> SUFFICES ASSUME Inv, AssessRun PROVE Inv'
  OBVIOUS
<1> DEFINE run == corpus[next]
           new == Contribution(run, requirement)
<1>1. TypeOK'
  BY TypeStep DEF Inv, Next
<1>2. UNCHANGED <<corpus, requirement, knownAt, pc, covered, position, cursor,
                  uncovered, outcome>>
  BY DEF AssessRun, inputs
<1>3. pc = "assess" /\ next <= Len(corpus) /\ next' = next + 1
  BY DEF AssessRun, Looking
<1>4. pending' = pending \cup new
  BY DEF AssessRun
<1>5. /\ run \in Run /\ requirement \in Requirement
      /\ run.completedAt <= knownAt /\ Concerns(run, requirement)
  BY <1>3 DEF AssessRun, Relevant, Inv, TypeOK
<1>6. /\ new \subseteq Interval
      /\ \A i \in new : Inside(i)
      /\ \A t \in Time : Within(t, Required) =>
            ((\E i \in new : Within(t, i)) <=> Establishes(run, requirement, t))
  BY <1>5, ContributionExact DEF Inside, Required
<1> HIDE DEF new
<1>7. ASSUME NEW t \in Time, Within(t, Required)
      PROVE  EstablishedBefore(next, t)' <=> Pending(t)'
  <2>1. EstablishedBefore(next, t)' <=> EstablishedBefore(next + 1, t)
    BY <1>2, <1>3 DEF EstablishedBefore
  <2>2. EstablishedBefore(next + 1, t)
          <=> EstablishedBefore(next, t) \/ Establishes(run, requirement, t)
    BY <1>3, <1>5, EstablishedStep DEF Inv
  <2>3. Pending(t)' <=> Pending(t) \/ \E i \in new : Within(t, i)
    BY <1>4 DEF Pending
  <2>4. EstablishedBefore(next, t) <=> Pending(t)
    BY <1>3, <1>7 DEF Inv, Assessing
  <2> QED
    BY <1>6, <1>7, <2>1, <2>2, <2>3, <2>4
<1>8. Assessing'
  BY <1>2, <1>3, <1>7 DEF Assessing, Inv, Required
<1>9. Bounds'
  <2>1. \A i \in pending' : Inside(i)
    BY <1>4, <1>6 DEF Inv, Bounds
  <2> QED
    BY <1>2, <2>1 DEF Bounds, Inv, Inside, Required
<1> QED
  BY <1>1, <1>2, <1>3, <1>8, <1>9 DEF Inv, Merging, MergedExactly, Walking, Decided

LEMMA RejectRunStep == Inv /\ RejectRun => Inv'
<1> SUFFICES ASSUME Inv, RejectRun PROVE Inv'
  OBVIOUS
<1>1. TypeOK'
  BY TypeStep DEF Inv, Next
<1>2. /\ UNCHANGED <<requirement, pending, covered, uncovered>>
      /\ pc = "assess" /\ pc' = "error"
  BY DEF RejectRun, Looking, inputs
<1>3. Bounds'
  BY <1>2 DEF Bounds, Inv, Inside, Required
<1> QED
  BY <1>1, <1>2, <1>3
  DEF Inv, Bounds, Assessing, Merging, MergedExactly, Walking, Decided

LEMMA RunsAssessedStep == Inv /\ RunsAssessed => Inv'
<1> SUFFICES ASSUME Inv, RunsAssessed PROVE Inv'
  OBVIOUS
<1>1. TypeOK'
  BY TypeStep DEF Inv, Next
<1>2. UNCHANGED <<corpus, requirement, knownAt, next, assessments, pending, covered,
                  position, cursor, uncovered, outcome>>
  BY DEF RunsAssessed, inputs
<1>3. pc = "assess" /\ pc' = "merge" /\ next = Len(corpus) + 1
  BY DEF RunsAssessed, Inv, TypeOK
<1>4. covered = <<>> /\ \A t \in Time : ~In(t, covered)
  BY <1>3 DEF Inv, Assessing, In
<1>5. Merging'
  <2>1. Separated(covered)'
    BY <1>2, <1>4 DEF Separated
  <2>2. \A t \in Time : Within(t, Required) =>
          (Established(t) <=> Pending(t) \/ In(t, covered))
    BY <1>3, <1>4 DEF Inv, Assessing, Established
  <2>3. (\A t \in Time : Within(t, Required) =>
          (Established(t) <=> Pending(t) \/ In(t, covered)))'
    BY <1>2, <2>2 DEF Established, EstablishedBefore, Pending, In, Required
  <2> QED
    BY <1>2, <1>4, <2>1, <2>3 DEF Merging
<1>6. Bounds'
  BY <1>2, <1>3 DEF Bounds, Inv, Inside, Required
<1> QED
  BY <1>1, <1>3, <1>5, <1>6 DEF Inv, Assessing, MergedExactly, Walking, Decided

-----------------------------------------------------------------------------
\* Extending the last merged interval adds exactly the instants of the interval
\* that touches it, and leaves the merged intervals separated.
LEMMA ExtendStep == Inv /\ Extend => Inv'
<1> SUFFICES ASSUME Inv, Extend PROVE Inv'
  OBVIOUS
<1>1. TypeOK'
  BY TypeStep DEF Inv, Next
<1>2. UNCHANGED <<corpus, requirement, knownAt, pc, next, assessments, position,
                  cursor, uncovered, outcome>>
  BY DEF Extend, inputs
<1>3. PICK i \in pending :
        /\ First(i) /\ Touches(i)
        /\ covered' = [covered EXCEPT ![Len(covered)] =
               [from |-> @.from, until |-> Larger(@.until, i.until)]]
        /\ pending' = pending \ {i}
  BY DEF Extend
<1> DEFINE n == Len(covered)
           last == covered[n]
<1>4. /\ n \in DOMAIN covered /\ DOMAIN covered' = DOMAIN covered
      /\ Len(covered') = n
      /\ \A k \in DOMAIN covered : k # n => covered'[k] = covered[k]
      /\ covered'[n].from = last.from
      /\ covered'[n].until = IF last.until >= i.until THEN last.until ELSE i.until
  <2>1. n \in DOMAIN covered
    BY <1>3 DEF Touches, Inv, TypeOK
  <2>2. covered \in Seq(Interval) /\ covered' \in Seq(Interval)
    BY <1>1 DEF Inv, TypeOK
  <2>3. DOMAIN covered' = DOMAIN covered
    BY <1>3
  <2>4. Len(covered') = n
    BY <2>2, <2>3
  <2> QED
    BY <1>3, <2>1, <2>3, <2>4 DEF Larger
<1>5. /\ last.from \in Int /\ last.until \in Int
      /\ i.from \in Int /\ i.until \in Int
      /\ last.from < last.until /\ i.from < i.until
      /\ last.from <= i.from /\ i.from <= last.until
      /\ Inside(last) /\ Inside(i)
      /\ pc = "merge"
  <2>1. last \in Interval /\ i \in Interval
    BY <1>3, <1>4 DEF Inv, TypeOK
  <2>2. Inside(last) /\ Inside(i) /\ pc = "merge"
    BY <1>3, <1>4 DEF Inv, Bounds, Extend
  <2>3. last.from <= i.from
    BY <1>3, <2>2 DEF Inv, Merging, Touches
  <2>4. i.from <= last.until
    BY <1>3 DEF Touches
  <2> QED
    BY <2>1, <2>2, <2>3, <2>4, TimesAreIntegers DEF Inside
<1> HIDE DEF last
<1>6. ASSUME NEW t \in Time
      PROVE  Within(t, covered'[n]) <=> Within(t, last) \/ Within(t, i)
  BY <1>4, <1>5, TimesAreIntegers DEF Within
<1>7. \A t \in Time : In(t, covered') <=> In(t, covered) \/ Within(t, i)
  BY <1>4, <1>6 DEF In, last
<1>8. \A t \in Time : Pending(t) <=> Pending(t)' \/ Within(t, i)
  BY <1>3 DEF Pending
<1>9. Separated(covered)'
  <2>1. Separated(covered)
    BY <1>5 DEF Inv, Merging
  <2>2. \A j \in DOMAIN covered : covered'[j].from = covered[j].from
    BY <1>4 DEF last
  <2>3. \A j \in DOMAIN covered : covered'[j].from < covered'[j].until
    BY <1>4, <1>5, <2>1 DEF Separated
  <2>4. \A j, k \in DOMAIN covered : j < k => j # n
    BY StateIntegers DEF Inv
  <2> QED
    BY <1>4, <2>1, <2>2, <2>3, <2>4 DEF Separated
<1>10. Merging'
  <2>1. \A j \in pending' : covered'[n].from <= j.from
    BY <1>3, <1>4, <1>5 DEF Inv, Merging, Touches, last
  <2>2. \A t \in Time : Within(t, Required) =>
          (Established(t) <=> Pending(t)' \/ In(t, covered'))
    BY <1>5, <1>7, <1>8 DEF Inv, Merging
  <2>3. (\A t \in Time : Within(t, Required) =>
          (Established(t) <=> Pending(t) \/ In(t, covered)))'
    BY <1>2, <2>2 DEF Established, EstablishedBefore, Required, In
  <2> QED
    BY <1>4, <1>9, <2>1, <2>3 DEF Merging
<1>11. Bounds'
  <2>1. \A k \in DOMAIN covered' : Inside(covered'[k])
    BY <1>4, <1>5 DEF Inv, Bounds, Inside
  <2> QED
    BY <1>2, <1>3, <2>1 DEF Inv, Bounds, Inside, Required
<1> QED
  BY <1>1, <1>2, <1>5, <1>10, <1>11 DEF Inv, Assessing, MergedExactly, Walking, Decided

\* A first interval that touches nothing merged so far starts after all of it.
LEMMA PushStep == Inv /\ Push => Inv'
<1> SUFFICES ASSUME Inv, Push PROVE Inv'
  OBVIOUS
<1>1. TypeOK'
  BY TypeStep DEF Inv, Next
<1>2. UNCHANGED <<corpus, requirement, knownAt, pc, next, assessments, position,
                  cursor, uncovered, outcome>>
  BY DEF Push, inputs
<1>3. PICK i \in pending :
        /\ First(i) /\ ~Touches(i)
        /\ covered' = Append(covered, i)
        /\ pending' = pending \ {i}
  BY DEF Push
<1> DEFINE n == Len(covered)
<1>4. /\ i \in Interval /\ Inside(i) /\ pc = "merge"
      /\ n \in Nat /\ DOMAIN covered = 1..n
      /\ Len(covered') = n + 1 /\ DOMAIN covered' = 1..(n + 1)
      /\ covered'[n + 1] = i
      /\ \A k \in 1..n : covered'[k] = covered[k]
  BY <1>3 DEF Inv, TypeOK, Bounds, Push
<1>5. Separated(covered)
  BY <1>4 DEF Inv, Merging
<1>6. \A k \in 1..n : covered[k].until < i.from
  <2> SUFFICES ASSUME NEW k \in 1..n PROVE covered[k].until < i.from
    OBVIOUS
  <2>1. n \in 1..n /\ covered # <<>>
    BY <1>4
  <2>2. covered[n].until < i.from
    <3>1. ~(i.from <= covered[n].until)
      BY <1>3, <2>1 DEF Touches
    <3>2. covered[n] \in Interval
      BY <1>4, <2>1, StateIntegers DEF Inv
    <3>3. i.from \in Int /\ covered[n].until \in Int
      BY <1>4, <3>2, TimesAreIntegers
    <3> QED
      BY <3>1, <3>3
  <2>3. k = n \/ covered[k].until < covered[n].from
    <3>1. k \in DOMAIN covered /\ n \in DOMAIN covered
      BY <1>4, <2>1
    <3>2. k = n \/ k < n
      <4>1. n \in Nat /\ k \in 1..n
        BY <1>4
      <4> QED
        BY <4>1
    <3> QED
      BY <1>5, <3>1, <3>2 DEF Separated
  <2>4. covered[n].from < covered[n].until
    BY <1>4, <1>5, <2>1 DEF Separated
  <2>5. /\ covered[k].until \in Int /\ covered[n].from \in Int
        /\ covered[n].until \in Int /\ i.from \in Int
    BY <1>4, <2>1, StateIntegers, TimesAreIntegers DEF Inv
  <2> QED
    BY <2>2, <2>3, <2>4, <2>5
<1>7. Separated(covered)'
  <2>1. \A j \in 1..(n + 1) : covered'[j].from < covered'[j].until
    BY <1>4, <1>5 DEF Separated, Inside
  <2>2. ASSUME NEW j \in 1..(n + 1), NEW k \in 1..(n + 1), j < k
        PROVE  covered'[j].until < covered'[k].from
    <3>1. j \in 1..n
      BY <1>4, <2>2
    <3>2. CASE k = n + 1
      BY <1>4, <1>6, <3>1, <3>2
    <3>3. CASE k # n + 1
      BY <1>4, <1>5, <2>2, <3>1, <3>3 DEF Separated
    <3> QED
      BY <3>2, <3>3
  <2> QED
    BY <1>4, <2>1, <2>2 DEF Separated
<1>8. \A t \in Time : In(t, covered') <=> In(t, covered) \/ Within(t, i)
  <2>1. \A k : k \in 1..(n + 1) <=> k \in 1..n \/ k = n + 1
    BY <1>4
  <2> QED
    BY <1>4, <2>1 DEF In
<1>9. \A t \in Time : Pending(t) <=> Pending(t)' \/ Within(t, i)
  BY <1>3 DEF Pending
<1>10. Merging'
  <2>1. \A j \in pending' : covered'[n + 1].from <= j.from
    BY <1>3, <1>4 DEF First
  <2>2. \A t \in Time : Within(t, Required) =>
          (Established(t) <=> Pending(t)' \/ In(t, covered'))
    BY <1>4, <1>8, <1>9 DEF Inv, Merging
  <2>3. (\A t \in Time : Within(t, Required) =>
          (Established(t) <=> Pending(t) \/ In(t, covered)))'
    BY <1>2, <2>2 DEF Established, EstablishedBefore, Required, In
  <2> QED
    BY <1>4, <1>7, <2>1, <2>3 DEF Merging
<1>11. Bounds'
  <2>1. \A k \in DOMAIN covered' : Inside(covered'[k])
    BY <1>4 DEF Inv, Bounds
  <2> QED
    BY <1>2, <1>3, <2>1 DEF Inv, Bounds, Inside, Required
<1> QED
  BY <1>1, <1>2, <1>4, <1>10, <1>11 DEF Inv, Assessing, MergedExactly, Walking, Decided

LEMMA MergedStep == Inv /\ Merged => Inv'
<1> SUFFICES ASSUME Inv, Merged PROVE Inv'
  OBVIOUS
<1>1. TypeOK'
  BY TypeStep DEF Inv, Next
<1>2. UNCHANGED <<corpus, requirement, knownAt, next, assessments, pending, covered,
                  position, cursor, uncovered, outcome>>
  BY DEF Merged, inputs
<1>3. pc = "merge" /\ pc' = "gaps" /\ pending = {}
  BY DEF Merged
<1>4. position = 1 /\ cursor = Required.from /\ uncovered = <<>>
  BY <1>3 DEF Inv, Bounds
<1>5. MergedExactly'
  <2>1. Separated(covered) /\ \A t \in Time : Within(t, Required) =>
          (Established(t) <=> In(t, covered))
    BY <1>3 DEF Inv, Merging, Pending
  <2> QED
    BY <1>2, <2>1 DEF MergedExactly, Established, EstablishedBefore, In, Required, Separated
<1>6. Walking'
  <2>1. Separated(uncovered)
    BY <1>4 DEF Separated
  <2>2. \A t \in Time : ~In(t, uncovered)
    BY <1>4 DEF In
  <2>3. \A t \in Time : ~(Required.from <= t /\ t < Required.from)
    <3> SUFFICES ASSUME NEW t \in Time
                 PROVE  ~(Required.from <= t /\ t < Required.from)
      OBVIOUS
    <3>1. Required.from \in Int /\ t \in Int
      BY StateIntegers, TimesAreIntegers DEF Inv
    <3> QED
      BY <3>1
  <2> QED
    BY <1>2, <1>4, <2>1, <2>2, <2>3 DEF Walking, Required, In, Separated
<1>7. Bounds'
  BY <1>2, <1>3 DEF Inv, Bounds, Inside, Required
<1> QED
  BY <1>1, <1>3, <1>5, <1>6, <1>7 DEF Inv, Assessing, Merging, Decided

-----------------------------------------------------------------------------
\* While gaps are walked, the cursor separates the intervals behind it from the
\* intervals ahead of it.
LEMMA CursorSeparates ==
    ASSUME Inv, pc = "gaps"
    PROVE  /\ \A k \in DOMAIN covered :
                /\ k < position => covered[k].until <= cursor
                /\ k >= position => cursor <= covered[k].from
           /\ Required.from <= cursor /\ cursor <= Required.until
<1>1. /\ Required.from \in Int /\ Required.until \in Int
      /\ Required.from < Required.until
      /\ position \in 1..(Len(covered) + 1) /\ Len(covered) \in Nat
      /\ DOMAIN covered = 1..Len(covered)
  BY StateIntegers DEF Inv, Bounds, TypeOK
<1>2. \A k \in DOMAIN covered :
        /\ covered[k].from \in Int /\ covered[k].until \in Int
        /\ Inside(covered[k])
  BY StateIntegers, TimesAreIntegers DEF Inv, Bounds
<1>3. Separated(covered)
  BY DEF Inv, MergedExactly
<1>4. CASE position = 1
  <2>1. cursor = Required.from
    BY <1>4 DEF Inv, Walking
  <2> QED
    BY <1>1, <1>2, <1>4, <2>1 DEF Inside
<1>5. CASE position # 1
  <2> DEFINE q == position - 1
  <2>1. q \in DOMAIN covered /\ q \in Int
    BY <1>1, <1>5
  <2>2. cursor = covered[q].until
    BY <1>5 DEF Inv, Walking
  <2>3. ASSUME NEW k \in DOMAIN covered, k < position
        PROVE  covered[k].until <= cursor
    <3>1. k = q \/ k < q
      BY <1>1, <2>3
    <3>2. CASE k = q
      BY <1>2, <2>1, <2>2, <3>2
    <3>3. CASE k < q
      <4>1. covered[k].until < covered[q].from /\ covered[q].from < covered[q].until
        BY <1>3, <2>1, <3>3 DEF Separated
      <4> QED
        BY <1>2, <2>1, <2>2, <4>1
    <3> QED
      BY <3>1, <3>2, <3>3
  <2>4. ASSUME NEW k \in DOMAIN covered, k >= position
        PROVE  cursor <= covered[k].from
    <3>1. q < k
      BY <1>1, <2>4
    <3>2. covered[q].until < covered[k].from
      BY <1>3, <2>1, <3>1 DEF Separated
    <3> QED
      BY <1>2, <2>1, <2>2, <3>2
  <2>5. Required.from <= cursor /\ cursor <= Required.until
    BY <1>1, <1>2, <2>1, <2>2 DEF Inside
  <2> QED
    BY <2>3, <2>4, <2>5
<1> QED
  BY <1>4, <1>5

\* Recording the gap from the cursor up to `until` adds exactly the instants
\* between the two and keeps the gaps apart.
LEMMA GapExact ==
    ASSUME Inv, pc = "gaps", NEW until \in Time, cursor <= until
    PROVE  /\ \A t \in Time : In(t, Gap(until))
                 <=> In(t, uncovered) \/ (cursor <= t /\ t < until)
           /\ Separated(Gap(until))
           /\ \A k \in DOMAIN Gap(until) :
                /\ Required.from <= Gap(until)[k].from
                /\ Gap(until)[k].until <= until
<1> DEFINE n == Len(uncovered)
           new == [from |-> cursor, until |-> until]
<1>1. /\ cursor \in Int /\ until \in Int /\ Required.from \in Int
      /\ Required.from <= cursor
      /\ n \in Nat /\ DOMAIN uncovered = 1..n
      /\ \A k \in 1..n : /\ uncovered[k].from \in Int /\ uncovered[k].until \in Int
                         /\ Required.from <= uncovered[k].from
                         /\ uncovered[k].until < cursor
      /\ Separated(uncovered)
  BY StateIntegers, TimesAreIntegers, CursorSeparates DEF Inv, Walking
<1>2. CASE ~(cursor < until)
  <2>1. Gap(until) = uncovered
    BY <1>2 DEF Gap
  <2>2. \A k \in 1..n : uncovered[k].until <= until
    BY <1>1
  <2>3. \A t \in Time : ~(cursor <= t /\ t < until)
    <3> SUFFICES ASSUME NEW t \in Time PROVE ~(cursor <= t /\ t < until)
      OBVIOUS
    <3>1. t \in Int
      BY TimesAreIntegers
    <3> QED
      BY <1>1, <1>2, <3>1
  <2> QED
    BY <1>1, <2>1, <2>2, <2>3
<1>3. CASE cursor < until
  <2>1. new \in Interval /\ new.from = cursor /\ new.until = until
    BY DEF Interval, Inv, TypeOK
  <2> HIDE DEF new
  <2>2. Gap(until) = Append(uncovered, new)
    BY <1>3 DEF Gap, new
  <2> DEFINE longer == Append(uncovered, new)
  <2>3. /\ DOMAIN longer = 1..(n + 1)
        /\ longer[n + 1] = new
        /\ \A k \in 1..n : longer[k] = uncovered[k]
    BY <2>1 DEF Inv, TypeOK
  <2> HIDE DEF longer
  <2>4. \A k : k \in 1..(n + 1) <=> k \in 1..n \/ k = n + 1
    BY <1>1
  <2>5. \A t \in Time : In(t, longer)
          <=> In(t, uncovered) \/ (cursor <= t /\ t < until)
    BY <1>1, <2>1, <2>3, <2>4 DEF In, Within
  <2>6. \A k \in 1..(n + 1) : longer[k].from < longer[k].until
    BY <1>1, <1>3, <2>1, <2>3, <2>4 DEF Separated
  <2>7. ASSUME NEW j \in 1..(n + 1), NEW k \in 1..(n + 1), j < k
        PROVE  longer[j].until < longer[k].from
    <3>1. j \in 1..n
      BY <1>1, <2>7
    <3>2. CASE k = n + 1
      BY <1>1, <2>1, <2>3, <3>1, <3>2
    <3>3. CASE k # n + 1
      BY <1>1, <2>3, <2>4, <2>7, <3>1, <3>3 DEF Separated
    <3> QED
      BY <3>2, <3>3
  <2>8. ASSUME NEW k \in 1..(n + 1)
        PROVE  Required.from <= longer[k].from /\ longer[k].until <= until
    <3>1. CASE k = n + 1
      BY <1>1, <2>1, <2>3, <3>1
    <3>2. CASE k \in 1..n
      BY <1>1, <1>3, <2>3, <3>2
    <3> QED
      BY <2>4, <3>1, <3>2
  <2> QED
    BY <2>2, <2>3, <2>5, <2>6, <2>7, <2>8 DEF Separated, longer
<1> QED
  BY <1>2, <1>3

LEMMA PassCoveredStep == Inv /\ PassCovered => Inv'
<1> SUFFICES ASSUME Inv, PassCovered PROVE Inv'
  OBVIOUS
<1> DEFINE c == covered[position]
<1>1. TypeOK'
  BY TypeStep DEF Inv, Next
<1>2. UNCHANGED <<corpus, requirement, knownAt, pc, next, assessments, pending,
                  covered, outcome>>
  BY DEF PassCovered, inputs
<1>3. /\ pc = "gaps" /\ position \in DOMAIN covered
      /\ position' = position + 1 /\ position \in Nat \ {0}
      /\ uncovered' = Gap(c.from)
  BY DEF PassCovered, Inv, TypeOK
<1>4. /\ c \in Interval /\ c.from \in Time /\ c.from \in Int /\ c.until \in Int
      /\ cursor \in Int /\ cursor <= c.from /\ c.from < c.until
      /\ cursor' = c.until
  <2>1. c \in Interval /\ c.from \in Time /\ c.from \in Int /\ c.until \in Int /\ cursor \in Int
    BY <1>3, StateIntegers, TimesAreIntegers DEF Inv, Interval
  <2>2. cursor <= c.from
    BY <1>3, CursorSeparates
  <2>3. c.from < c.until
    BY <1>3 DEF Inv, MergedExactly, Separated
  <2>4. cursor' = Larger(cursor, c.until)
    BY DEF PassCovered
  <2> QED
    BY <2>1, <2>2, <2>3, <2>4 DEF Larger
<1>5. ASSUME NEW t \in Time, cursor <= t
      PROVE  /\ t < c.from => ~In(t, covered)
             /\ c.from <= t /\ t < c.until => In(t, covered)
  <2>1. t \in Int
    BY TimesAreIntegers
  <2>2. ASSUME NEW k \in DOMAIN covered, Within(t, covered[k]), t < c.from
        PROVE  FALSE
    <3>1. /\ covered[k].from \in Int /\ covered[k].until \in Int
          /\ k \in Int /\ position \in Int
      BY StateIntegers, TimesAreIntegers, <1>3 DEF Inv
    <3>2. k < position => covered[k].until <= cursor
      BY <1>3, CursorSeparates
    <3>3. k = position \/ (k > position => c.until < covered[k].from)
      BY <1>3 DEF Inv, MergedExactly, Separated
    <3> QED
      BY <1>4, <1>5, <2>1, <2>2, <3>1, <3>2, <3>3 DEF Within
  <2> QED
    BY <1>3, <2>2 DEF In, Within
<1>6. /\ \A t \in Time : In(t, uncovered')
             <=> In(t, uncovered) \/ (cursor <= t /\ t < c.from)
      /\ Separated(uncovered')
      /\ \A k \in DOMAIN uncovered' :
            Required.from <= uncovered'[k].from /\ uncovered'[k].until <= c.from
  BY <1>3, <1>4, GapExact
<1> HIDE DEF c
<1>7. ASSUME NEW t \in Time
      PROVE  /\ Required.from <= t /\ t < c.until =>
                (In(t, covered) <=> ~In(t, uncovered'))
             /\ c.until <= t => ~In(t, uncovered')
  <2>1. t \in Int
    BY TimesAreIntegers
  <2>2. /\ Required.from <= t /\ t < cursor => (In(t, covered) <=> ~In(t, uncovered))
        /\ cursor <= t => ~In(t, uncovered)
    BY <1>3 DEF Inv, Walking
  <2> QED
    BY <1>4, <1>5, <1>6, <2>1, <2>2
<1>8. ASSUME NEW k \in DOMAIN uncovered' PROVE uncovered'[k].until < c.until
  <2>1. uncovered'[k] \in Interval
    BY <1>1, <1>8 DEF TypeOK
  <2>2. uncovered'[k].until \in Int
    BY <2>1, TimesAreIntegers
  <2> QED
    BY <1>4, <1>6, <2>2
<1>9. Walking'
  <2>1. position' # 1 /\ cursor' = covered[position' - 1].until
    BY <1>3, <1>4 DEF c
  <2> QED
    BY <1>2, <1>4, <1>6, <1>7, <1>8, <2>1 DEF Walking, In, Required, Separated
<1>10. MergedExactly'
  BY <1>2, <1>3
  DEF Inv, MergedExactly, Established, EstablishedBefore, In, Required, Separated
<1>11. Bounds'
  BY <1>2, <1>3 DEF Inv, Bounds, Inside, Required
<1> QED
  BY <1>1, <1>2, <1>3, <1>9, <1>10, <1>11 DEF Inv, Assessing, Merging, Decided

LEMMA DecideStep == Inv /\ Decide => Inv'
<1> SUFFICES ASSUME Inv, Decide PROVE Inv'
  OBVIOUS
<1>1. TypeOK'
  BY TypeStep DEF Inv, Next
<1>2. UNCHANGED <<corpus, requirement, knownAt, next, assessments, pending,
                  covered, position, cursor>>
  BY DEF Decide, inputs
<1>3. /\ pc = "gaps" /\ pc' = "decided" /\ position > Len(covered)
      /\ uncovered' = Gap(Required.until)
      /\ outcome' = IF uncovered' = <<>> THEN "Complete" ELSE "Incomplete"
  BY DEF Decide, Required
<1>4. /\ Required.until \in Time /\ Required.from \in Int /\ Required.until \in Int
      /\ cursor \in Int /\ cursor <= Required.until /\ Required.from <= cursor
  BY <1>3, StateIntegers, CursorSeparates DEF Inv, Interval
<1>5. ASSUME NEW t \in Time, cursor <= t PROVE ~In(t, covered)
  <2> SUFFICES ASSUME NEW k \in DOMAIN covered, Within(t, covered[k]) PROVE FALSE
    BY DEF In
  <2>1. k < position
    BY <1>3, StateIntegers DEF Inv, TypeOK
  <2>2. covered[k].until <= cursor
    BY <1>3, <2>1, CursorSeparates
  <2>3. t \in Int /\ covered[k].until \in Int
    BY StateIntegers, TimesAreIntegers DEF Inv
  <2> QED
    BY <1>4, <1>5, <2>2, <2>3 DEF Within
<1>6. /\ \A t \in Time : In(t, uncovered')
             <=> In(t, uncovered) \/ (cursor <= t /\ t < Required.until)
      /\ Separated(uncovered')
      /\ \A k \in DOMAIN uncovered' :
            Required.from <= uncovered'[k].from /\ uncovered'[k].until <= Required.until
  BY <1>3, <1>4, GapExact
<1>7. \A k \in DOMAIN uncovered' : Inside(uncovered'[k])
  BY <1>6 DEF Inside, Separated
<1>8. ASSUME NEW t \in Time, Within(t, Required)
      PROVE  In(t, covered) <=> ~In(t, uncovered')
  <2>1. t \in Int
    BY TimesAreIntegers
  <2>2. /\ t < cursor => (In(t, covered) <=> ~In(t, uncovered))
        /\ cursor <= t => ~In(t, uncovered)
    BY <1>3, <1>8 DEF Inv, Walking, Within
  <2> QED
    BY <1>4, <1>5, <1>6, <1>8, <2>1, <2>2 DEF Within
<1>9. Decided'
  BY <1>2, <1>3, <1>6, <1>7, <1>8 DEF Decided, In, Inside, Required, Separated
<1>10. MergedExactly'
  BY <1>2, <1>3
  DEF Inv, MergedExactly, Established, EstablishedBefore, In, Required, Separated
<1>11. Bounds'
  BY <1>2, <1>3 DEF Inv, Bounds, Inside, Required
<1> QED
  BY <1>1, <1>2, <1>3, <1>9, <1>10, <1>11 DEF Inv, Assessing, Merging, Walking

LEMMA StutterStep == Inv /\ UNCHANGED vars => Inv'
<1> SUFFICES ASSUME Inv, UNCHANGED vars PROVE Inv'
  OBVIOUS
<1>1. TypeOK'
  BY TypeStep DEF Inv
<1> QED
  BY <1>1 DEF vars, Inv, Bounds, Assessing, Merging, MergedExactly, Walking, Decided,
     Established, EstablishedBefore, Pending, In, Inside, Required, Separated

-----------------------------------------------------------------------------
\* The inductive invariant holds of every assessment.
THEOREM Invariant == Spec => []Inv
<1>1. Inv /\ [Next]_vars => Inv'
  BY StartStep, SkipRunStep, AssessRunStep, RejectRunStep, RunsAssessedStep,
     ExtendStep, PushStep, MergedStep, PassCoveredStep, DecideStep, StutterStep
  DEF Next, Ended
<1> QED
  BY InitInv, <1>1, PTL DEF Spec

\* An instant of the required interval is reported uncovered exactly when no
\* run known by the cutoff establishes it, for every corpus and requirement.
THEOREM Exact == Spec => []DecisionExact
<1>1. Inv => DecisionExact
  BY DEF Inv, MergedExactly, Decided, DecisionExact, Required
<1> QED
  BY Invariant, <1>1, PTL

\* "Complete" is decided exactly when every required instant is established.
THEOREM Complete == Spec => []CompleteMeansEstablished
<1>1. Inv => CompleteMeansEstablished
  <2> SUFFICES ASSUME Inv, pc = "decided"
               PROVE  outcome = "Complete" <=>
                        \A t \in Time : Within(t, Required) => Established(t)
    BY DEF CompleteMeansEstablished, Required
  <2>1. \A t \in Time : Within(t, Required) => (Established(t) <=> ~In(t, uncovered))
    BY DEF Inv, MergedExactly, Decided
  <2>2. outcome = "Complete" <=> uncovered = <<>>
    BY DEF Inv, Decided
  <2>3. ASSUME uncovered = <<>> PROVE \A t \in Time : ~In(t, uncovered)
    BY <2>3 DEF In
  <2>4. ASSUME uncovered # <<>>
        PROVE  \E t \in Time : Within(t, Required) /\ In(t, uncovered)
    <3> DEFINE g == uncovered[1]
    <3>1. 1 \in DOMAIN uncovered /\ g \in Interval
      BY <2>4 DEF Inv, TypeOK
    <3>2. Inside(g) /\ g.from \in Time
      BY <3>1 DEF Inv, Decided, Interval
    <3>3. g.from \in Int /\ g.until \in Int /\ Required.until \in Int
      BY <3>1, StateIntegers, TimesAreIntegers DEF Inv
    <3>4. Within(g.from, Required) /\ Within(g.from, g)
      BY <3>2, <3>3 DEF Inside, Within
    <3> QED
      BY <3>1, <3>2, <3>4 DEF In
  <2> QED
    BY <2>1, <2>2, <2>3, <2>4
<1> QED
  BY Invariant, <1>1, PTL

\* Covered intervals and gaps are non-empty, ordered and never adjacent.
LEMMA Canonical == Spec => []CanonicalIntervals
<1>1. Inv => CanonicalIntervals
  <2> SUFFICES ASSUME Inv PROVE CanonicalIntervals
    OBVIOUS
  <2>1. pc \in {"gaps", "decided"} => Separated(covered)
    BY DEF Inv, MergedExactly
  <2>2. uncovered = <<>> => Separated(uncovered)
    BY DEF Separated
  <2>3. Separated(uncovered)
    BY <2>2 DEF Inv, TypeOK, Bounds, Walking, Decided
  <2> QED
    BY <2>1, <2>3 DEF CanonicalIntervals
<1> QED
  BY Invariant, <1>1, PTL

\* Covered and uncovered intervals partition the required interval into
\* maximal stretches.
THEOREM Partition == Spec => []Tiled
<1>1. Inv => Partitioned
  <2> SUFFICES ASSUME Inv, pc = "decided", NEW t \in Time
               PROVE  /\ Within(t, Required) <=> In(t, covered) \/ In(t, uncovered)
                      /\ ~(In(t, covered) /\ In(t, uncovered))
    BY DEF Partitioned, Required
  <2>1. t \in Int /\ Required.from \in Int /\ Required.until \in Int
    BY StateIntegers, TimesAreIntegers DEF Inv
  <2>2. In(t, covered) => Within(t, Required)
    <3> SUFFICES ASSUME NEW k \in DOMAIN covered, Within(t, covered[k])
                 PROVE  Within(t, Required)
      BY DEF In
    <3>1. /\ Inside(covered[k])
          /\ covered[k].from \in Int /\ covered[k].until \in Int
      BY StateIntegers, TimesAreIntegers DEF Inv, Bounds
    <3> QED
      BY <2>1, <3>1 DEF Inside, Within
  <2>3. In(t, uncovered) => Within(t, Required)
    <3> SUFFICES ASSUME NEW k \in DOMAIN uncovered, Within(t, uncovered[k])
                 PROVE  Within(t, Required)
      BY DEF In
    <3>1. /\ Inside(uncovered[k])
          /\ uncovered[k].from \in Int /\ uncovered[k].until \in Int
      BY StateIntegers, TimesAreIntegers DEF Inv, Decided
    <3> QED
      BY <2>1, <3>1 DEF Inside, Within
  <2>4. Within(t, Required) => (In(t, covered) <=> ~In(t, uncovered))
    BY DEF Inv, Decided
  <2> QED
    BY <2>2, <2>3, <2>4
<1> QED
  BY Invariant, Canonical, <1>1, PTL DEF Tiled

-----------------------------------------------------------------------------
(***************************************************************************)
(* Answers, for every corpus, requirement, answer, reading and set of      *)
(* declared propositions.  What an accepted supported answer rests on      *)
(* follows from the decision being exact; that the packs' answers are      *)
(* accepted, and that failures decide nothing, from the packs' and core's  *)
(* definitions alone.                                                      *)
(***************************************************************************)

\* A requirement is determined by its fields.
LEMMA RequirementFields ==
    ASSUME NEW r \in Requirement, r.malformed = FALSE
    PROVE  r = [proposition |-> r.proposition, subject |-> r.subject,
                branch |-> r.branch, interval |-> r.interval,
                malformed |-> FALSE]
BY DEF Requirement

\* A requirement that core decides is complete is established throughout,
\* be it the one the machine was given or another one.
LEMMA DecisionEstablished ==
    ASSUME NEW req, pc = "decided", CompleteMeansEstablished,
           CoreDecision(req).outcome = "Complete",
           NEW t \in Time, Within(t, req.interval)
    PROVE  \E i \in DOMAIN corpus :
                corpus[i].completedAt <= knownAt /\ Establishes(corpus[i], req, t)
<1>1. CASE req = requirement
  <2>1. outcome = "Complete"
    BY <1>1 DEF CoreDecision
  <2>2. Established(t)
    BY <1>1, <2>1 DEF CompleteMeansEstablished
  <2> QED
    BY <1>1, <2>2 DEF Established, EstablishedBefore
<1>2. CASE req # requirement
  BY <1>2 DEF CoreDecision
<1> QED
  BY <1>1, <1>2

\* Invariant SupportedCovered (validate_assertions): what passes as supported is
\* supported by what was collected, for every declared proposition.
THEOREM AcceptedSupport == Spec => []SupportedCovered
<1>1. CompleteMeansEstablished => SupportedCovered
  <2> SUFFICES ASSUME CompleteMeansEstablished, pc = "decided",
                      NEW answer \in Answers, NEW declared \in Declarations,
                      NEW mirror \in Mirrors, answer.outcome = "Supported",
                      Accepted(answer, declared, mirror), NEW p \in declared
               PROVE  \/ RestsOnCompleteRun(answer, p)
                      \/ /\ answer.interval # NoInterval
                         /\ EstablishedThroughout(answer, p)
    BY DEF SupportedCovered
  <2>1. SupportCovered(answer, declared) /\ CoverageAgrees(answer, declared)
    BY DEF Accepted
  <2>2. CASE /\ answer.pointInTime
             /\ \E o \in answer.support : FromCompleteRun(o, p)
    BY <2>2 DEF RestsOnCompleteRun, FromCompleteRun, Evidence
  <2>3. CASE CoveredOver(answer, declared)
    <3>1. PICK i \in DOMAIN answer.coverage :
              /\ AboutSubject(answer, answer.coverage[i], p)
              /\ answer.coverage[i].outcome = "Complete"
      BY <2>3 DEF CoveredOver
    <3> DEFINE d == answer.coverage[i]
               req == d.requirement
    <3>2. req \in Requirement
      <4>1. answer \in Answer
        BY PackAnswersAssumption
      <4>2. answer.coverage \in Seq(Decision)
        BY <4>1 DEF Answer
      <4>3. d \in Decision
        BY <4>2
      <4> QED
        BY <4>3 DEF Decision
    <3>3. Assessable(req) /\ d = CoreDecision(req)
      BY <2>1 DEF CoverageAgrees
    <3>4. req = [proposition |-> p, subject |-> answer.subject,
                 branch |-> answer.branch, interval |-> answer.interval,
                 malformed |-> FALSE]
      <4>1. req.malformed = FALSE
        BY <3>2, <3>3 DEF Assessable, Requirement
      <4>2. req = [proposition |-> req.proposition, subject |-> req.subject,
                   branch |-> req.branch, interval |-> req.interval,
                   malformed |-> FALSE]
        BY <3>2, <4>1, RequirementFields
      <4> QED
        BY <3>1, <4>2 DEF AboutSubject
    <3>5. answer.interval = req.interval /\ answer.interval # NoInterval
      BY <3>1 DEF AboutSubject
    <3>6. CoreDecision(req).outcome = "Complete"
      BY <3>1, <3>3
    <3>7. EstablishedThroughout(answer, p)
      <4> SUFFICES ASSUME NEW t \in Time, Within(t, answer.interval)
                   PROVE  \E k \in DOMAIN corpus :
                              /\ corpus[k].completedAt <= knownAt
                              /\ Establishes(corpus[k], req, t)
        BY <3>4 DEF EstablishedThroughout
      <4> HIDE DEF req
      <4> QED
        BY <3>5, <3>6, DecisionEstablished
    <3> QED
      BY <3>5, <3>7
  <2> QED
    BY <2>1, <2>2, <2>3 DEF SupportCovered
<1> QED
  BY <1>1, Complete, PTL

-----------------------------------------------------------------------------
\* The pack's reading of an observation is core's.
LEMMA SameReading ==
    ASSUME NEW o, NEW mirror
    PROVE  EstablishedForPack(o, mirror) <=> ~Unestablished(o, mirror)
BY DEF EstablishedForPack, Unestablished

\* An answer at the cutoff that cites no coverage is accepted if what it uses is
\* established and, for support, from complete runs with its proposition.
LEMMA Acceptable ==
    ASSUME NEW answer, NEW p, NEW mirror,
           answer.at = knownAt, answer.coverage = <<>>, answer.pointInTime,
           answer.support \cup answer.contradictions \subseteq Evidence,
           \A o \in answer.support \cup answer.contradictions :
                ~Unestablished(o, mirror),
           answer.outcome = "Supported" =>
                \E o \in answer.support : FromCompleteRun(o, p)
    PROVE  Accepted(answer, {p}, mirror)
BY DEF Accepted, CoverageAgrees, SupportCovered

LEMMA UndecidedAccepted ==
    ASSUME NEW p, NEW mirror  PROVE  Accepted(Undecided, {p}, mirror)
<1>1. /\ Undecided.at = knownAt /\ Undecided.coverage = <<>>
      /\ Undecided.pointInTime /\ Undecided.support = {}
      /\ Undecided.contradictions = {} /\ Undecided.outcome # "Supported"
  BY DEF Undecided, Answering
<1> QED
  BY <1>1, Acceptable

\* Observations that passed `complete`, each of a run of the proposition, come
\* from complete runs with authority for it.
LEMMA CompleteSupports ==
    ASSUME NEW p, NEW propositions, CapturedByCore,
           NEW os \in SUBSET AboutTarget(Evidence, p),
           CompleteFor(os, propositions), NEW o \in os
    PROVE  FromCompleteRun(o, p)
<1>1. o \in Evidence /\ o # Imported /\ corpus[o].proposition = p
  BY DEF CompleteFor, AboutTarget
<1>2. o \in DOMAIN corpus
  BY <1>1 DEF Evidence
<1>3. p \in corpus[o].authority /\ corpus[o].outcome = "Complete"
  BY <1>1, <1>2 DEF CapturedByCore, CompleteFor
<1> QED
  BY <1>1, <1>3 DEF FromCompleteRun

\* On a declared mirror there are none.
LEMMA CompleteIsEstablished ==
    ASSUME NEW p, NEW propositions, CapturedByCore, NEW mirror \in Mirrors,
           NEW os \in SUBSET AboutTarget(Evidence, p),
           CompleteFor(os, propositions), NEW o \in os
    PROVE  ~Unestablished(o, mirror)
<1>1. FromCompleteRun(o, p) /\ o \in AboutTarget(Evidence, p)
  BY CompleteSupports
<1>2. /\ o # Imported /\ o \in DOMAIN corpus
      /\ corpus[o].proposition = p /\ corpus[o].subject = requirement.subject
      /\ p \in corpus[o].authority /\ corpus[o].outcome = "Complete"
  BY <1>1 DEF FromCompleteRun, Evidence, AboutTarget
<1>3. mirror = FALSE
  BY <1>2 DEF Mirrors, MirrorPossible
<1> QED
  BY <1>2, <1>3 DEF Unestablished, NotOfRecord, EstablishedNothing

\* The GitHub pack's answer about required checks.
LEMMA RequiredChecksAccepted ==
    ASSUME CapturedByCore, NEW setting, NEW mirror,
           NEW answer \in RequiredStatusChecks(setting, Evidence, mirror)
    PROVE  Accepted(answer, {BranchConfiguration}, mirror)
<1> DEFINE found == Latest({o \in AboutTarget(Evidence, BranchConfiguration) :
                                EstablishedForPack(o, mirror)})
<1>1. CASE answer = Undecided
  BY <1>1, UndecidedAccepted
<1>2. CASE answer # Undecided
  <2>1. PICK o \in found :
            \/ answer = Contradicting({o})
            \/ answer = Supporting({o}) /\ CompleteFor(found, GitHubPropositions)
            \/ answer = Answering("InsufficientEvidence", {o}, {})
    BY <1>2 DEF RequiredStatusChecks
  <2>2. /\ found \subseteq AboutTarget(Evidence, BranchConfiguration)
        /\ o \in Evidence /\ ~Unestablished(o, mirror)
    BY SameReading DEF Latest, AboutTarget
  <2>3. /\ answer.at = knownAt /\ answer.coverage = <<>> /\ answer.pointInTime
        /\ answer.support \cup answer.contradictions = {o}
    BY <2>1 DEF Contradicting, Supporting, Answering
  <2>4. ASSUME answer.outcome = "Supported"
        PROVE  \E k \in answer.support : FromCompleteRun(k, BranchConfiguration)
    <3>1. answer.support = {o} /\ CompleteFor(found, GitHubPropositions)
      BY <2>1, <2>4 DEF Contradicting, Supporting, Answering
    <3> HIDE DEF found
    <3> QED
      BY <2>2, <3>1, CompleteSupports
  <2> QED
    BY <2>2, <2>3, <2>4, Acceptable
<1> QED
  BY <1>1, <1>2

\* An answer that supports or contradicts with observations that passed
\* `complete` is accepted, whatever interval it names.
LEMMA CompleteAnswerAccepted ==
    ASSUME NEW p, NEW propositions, CapturedByCore, NEW mirror \in Mirrors,
           NEW os \in SUBSET AboutTarget(Evidence, p),
           CompleteFor(os, propositions), NEW answer,
           answer.at = knownAt, answer.coverage = <<>>, answer.pointInTime,
           \/ answer.support = os /\ answer.contradictions = {}
           \/ /\ answer.outcome # "Supported"
              /\ answer.support = {} /\ answer.contradictions = os
    PROVE  Accepted(answer, {p}, mirror)
<1>1. answer.support \cup answer.contradictions = os
  OBVIOUS
<1>2. os \subseteq Evidence /\ \A o \in os : ~Unestablished(o, mirror)
  BY CompleteIsEstablished DEF AboutTarget
<1>3. ASSUME answer.outcome = "Supported"
      PROVE  \E o \in answer.support : FromCompleteRun(o, p)
  <2>1. PICK o : o \in os
    BY DEF CompleteFor
  <2> QED
    BY <1>3, <2>1, CompleteSupports
<1> QED
  BY <1>1, <1>2, <1>3, Acceptable

\* The Azure DevOps pack's answers, with and without an interval.
LEMMA PoliciesAccepted ==
    ASSUME CapturedByCore, NEW setting, NEW mirror \in Mirrors,
           NEW answer \in BranchPolicies(setting, Evidence)
    PROVE  /\ Accepted(answer, {BranchConfiguration}, mirror)
           /\ Accepted(AboutNoInterval(answer), {BranchConfiguration}, mirror)
<1> DEFINE found == Latest(AboutTarget(Evidence, BranchConfiguration))
           Fits(a) ==
            /\ a.at = knownAt /\ a.coverage = <<>> /\ a.pointInTime
            /\ \/ /\ a.outcome = "InsufficientEvidence"
                  /\ a.support = {} /\ a.contradictions = {}
               \/ /\ CompleteFor(found, {BranchConfiguration})
                  /\ \/ a.support = found /\ a.contradictions = {}
                     \/ /\ a.outcome # "Supported"
                        /\ a.support = {} /\ a.contradictions = found
<1>1. found \subseteq AboutTarget(Evidence, BranchConfiguration)
  BY DEF Latest
<1>2. Fits(answer) /\ Fits(AboutNoInterval(answer))
  BY DEF AboutNoInterval, BranchPolicies, Undecided, Supporting, Contradicting,
         Answering
<1>3. ASSUME NEW a, Fits(a)  PROVE  Accepted(a, {BranchConfiguration}, mirror)
  <2> HIDE DEF found
  <2>1. CASE a.outcome # "Supported" /\ a.support = {} /\ a.contradictions = {}
    BY <1>3, <2>1, Acceptable
  <2>2. CASE CompleteFor(found, {BranchConfiguration})
    <3>1. /\ a.at = knownAt /\ a.coverage = <<>> /\ a.pointInTime
          /\ \/ a.support = found /\ a.contradictions = {}
             \/ /\ a.outcome # "Supported"
                /\ a.support = {} /\ a.contradictions = found
             \/ /\ a.outcome # "Supported"
                /\ a.support = {} /\ a.contradictions = {}
      BY <1>3
    <3> QED
      BY <1>1, <2>1, <2>2, <3>1, CompleteAnswerAccepted
  <2> QED
    BY <1>3, <2>1, <2>2
<1> QED
  <2> HIDE DEF Fits
  <2> QED
    BY <1>2, <1>3

\* The GitHub pack's answer about the checks of the current revision.
LEMMA CurrentChecksAccepted ==
    ASSUME CapturedByCore, NEW report, NEW mirror \in Mirrors,
           NEW answer \in CurrentRevisionChecks(report, Evidence, mirror)
    PROVE  Accepted(answer, {RevisionChecks}, mirror)
<1> DEFINE Found(kind) == Latest({o \in AboutTarget(Evidence, RevisionChecks) :
                report[o].kind = kind /\ EstablishedForPack(o, mirror)})
           uses == Found("checks") \cup Found("statuses")
<1>1. uses \subseteq Evidence /\ \A o \in uses : ~Unestablished(o, mirror)
  BY SameReading DEF Latest, AboutTarget
<1>2. \/ answer = Undecided
      \/ answer = Contradicting(uses)
      \/ /\ answer = Supporting(uses)
         /\ CompleteFor(Found("checks"), GitHubPropositions)
  BY DEF CurrentRevisionChecks, ChecksOf
<1>3. Found("checks") \subseteq AboutTarget(Evidence, RevisionChecks)
  BY DEF Latest
<1> HIDE DEF Found
<1>4. CASE answer = Contradicting(uses)
  <2>1. /\ answer.at = knownAt /\ answer.coverage = <<>> /\ answer.pointInTime
        /\ answer.support \cup answer.contradictions = uses
        /\ answer.outcome # "Supported"
    BY <1>4 DEF Contradicting, Answering
  <2> QED
    BY <1>1, <2>1, Acceptable
<1>5. CASE /\ answer = Supporting(uses)
           /\ CompleteFor(Found("checks"), GitHubPropositions)
  <2>1. /\ answer.at = knownAt /\ answer.coverage = <<>> /\ answer.pointInTime
        /\ answer.support = uses /\ answer.contradictions = {}
    BY <1>5 DEF Supporting, Answering
  <2>2. PICK o : o \in Found("checks")
    BY <1>5 DEF CompleteFor
  <2>3. FromCompleteRun(o, RevisionChecks)
    BY <1>3, <1>5, <2>2, CompleteSupports
  <2> QED
    BY <1>1, <2>1, <2>2, <2>3, Acceptable
<1> QED
  BY <1>2, <1>4, <1>5, UndecidedAccepted

\* Invariant PackAnswersAccepted (validate_assertions against the packs' own
\* rules): no answer of a pack's evaluator is refused by core.
THEOREM AnswersAccepted == Spec => []PackAnswersAccepted
<1>1. PackAnswersAccepted
  <2> SUFFICES ASSUME CapturedByCore, NEW mirror \in Mirrors
               PROVE  /\ \A setting \in Settings :
                          \A answer \in PolicyAnswers(setting, Evidence, mirror) :
                              Accepted(answer, {BranchConfiguration}, mirror)
                      /\ \A report \in Reports :
                          \A answer \in CurrentRevisionChecks(report, Evidence,
                                                              mirror) :
                              Accepted(answer, {RevisionChecks}, mirror)
    BY DEF PackAnswersAccepted
  <2>1. ASSUME NEW setting \in Settings,
               NEW answer \in PolicyAnswers(setting, Evidence, mirror)
        PROVE  Accepted(answer, {BranchConfiguration}, mirror)
    BY RequiredChecksAccepted, PoliciesAccepted DEF PolicyAnswers, ApprovingReview
  <2> QED
    BY <2>1, CurrentChecksAccepted
<1> QED
  BY <1>1, PTL

-----------------------------------------------------------------------------
\* The evidence that is left when failures and mirrors are taken away.
Sound(mirror) == {o \in Evidence : ~Unestablished(o, mirror)}

LEMMA SoundIsSubset == ASSUME NEW mirror  PROVE  Sound(mirror) \subseteq Evidence
BY DEF Sound

\* What the GitHub pack lets pass of all evidence it lets pass of the sound part.
LEMMA PackSeesSound ==
    ASSUME NEW mirror, NEW p
    PROVE  {o \in AboutTarget(Evidence, p) : EstablishedForPack(o, mirror)}
               = {o \in AboutTarget(Sound(mirror), p) :
                    EstablishedForPack(o, mirror)}
BY SameReading DEF AboutTarget, Sound

LEMMA GitHubSound ==
    ASSUME NEW mirror, NEW setting, NEW report
    PROVE  /\ RequiredStatusChecks(setting, Evidence, mirror)
               = RequiredStatusChecks(setting, Sound(mirror), mirror)
           /\ CurrentRevisionChecks(report, Evidence, mirror)
               = CurrentRevisionChecks(report, Sound(mirror), mirror)
<1>1. RequiredStatusChecks(setting, Evidence, mirror)
          = RequiredStatusChecks(setting, Sound(mirror), mirror)
  BY PackSeesSound DEF RequiredStatusChecks
<1>2. ASSUME NEW kind
      PROVE  {o \in AboutTarget(Evidence, RevisionChecks) :
                  report[o].kind = kind /\ EstablishedForPack(o, mirror)}
                 = {o \in AboutTarget(Sound(mirror), RevisionChecks) :
                        report[o].kind = kind /\ EstablishedForPack(o, mirror)}
  BY SameReading DEF AboutTarget, Sound
<1>3. CurrentRevisionChecks(report, Evidence, mirror)
          = CurrentRevisionChecks(report, Sound(mirror), mirror)
  <2> DEFINE Found(e, kind) == Latest({o \in AboutTarget(e, RevisionChecks) :
                report[o].kind = kind /\ EstablishedForPack(o, mirror)})
  <2>1. /\ Found(Evidence, "checks") = Found(Sound(mirror), "checks")
        /\ Found(Evidence, "statuses") = Found(Sound(mirror), "statuses")
    BY <1>2
  <2>2. ASSUME NEW e
        PROVE  CurrentRevisionChecks(report, e, mirror)
                   = ChecksOf(report, Found(e, "checks"), Found(e, "statuses"))
    BY DEF CurrentRevisionChecks
  <2> HIDE DEF Found
  <2> QED
    BY <2>1, <2>2
<1> QED
  BY <1>1, <1>3

\* What core takes for authoritative is sound.
LEMMA CoreSound ==
    ASSUME CapturedByCore, NEW mirror \in Mirrors, NEW setting
    PROVE  ConfiguredReview(setting, Evidence, mirror)
               = ConfiguredReview(setting, Sound(mirror), mirror)
<1>1. ASSUME NEW o \in AboutTarget(Evidence, BranchConfiguration),
             Authoritative(o, mirror)
      PROVE  ~Unestablished(o, mirror)
  <2>1. CASE o = Imported
    BY <1>1, <2>1 DEF Authoritative, Unestablished
  <2>2. CASE o # Imported
    <3>1. /\ o \in DOMAIN corpus /\ corpus[o].proposition = BranchConfiguration
          /\ corpus[o].subject = requirement.subject
          /\ BranchConfiguration \in corpus[o].authority
      BY <1>1, <2>2 DEF AboutTarget, Evidence, Authoritative
    <3>2. corpus[o].outcome \notin EstablishedNothing
      BY <3>1 DEF CapturedByCore
    <3>3. mirror = FALSE
      BY <3>1 DEF Mirrors, MirrorPossible
    <3> QED
      BY <2>2, <3>2, <3>3 DEF Unestablished, NotOfRecord
  <2> QED
    BY <2>1, <2>2
<1>2. {o \in AboutTarget(Evidence, BranchConfiguration) : Authoritative(o, mirror)}
          = {o \in AboutTarget(Sound(mirror), BranchConfiguration) :
                Authoritative(o, mirror)}
  BY <1>1 DEF AboutTarget, Sound
<1> QED
  BY <1>2 DEF ConfiguredReview

\* Times of observations are integers, so latest ones are comparable.
LEMMA ObservedAtType ==
    ASSUME TypeOK, NEW o \in Evidence  PROVE  ObservedAt(o) \in Int
<1>1. CASE o = Imported
  BY <1>1, PackAnswersAssumption, TimeAssumption DEF ObservedAt
<1>2. CASE o # Imported
  <2>1. corpus \in Seq(Run) /\ o \in DOMAIN corpus
    BY <1>2 DEF TypeOK, Evidence
  <2>2. corpus[o] \in Run
    BY <2>1
  <2>3. corpus[o].completedAt \in Time
    BY <2>2 DEF Run
  <2> QED
    BY <1>2, <2>3, TimeAssumption DEF ObservedAt
<1> QED
  BY <1>1, <1>2

LEMMA LatestKept ==
    ASSUME NEW os, NEW part \in SUBSET os, \A o \in os : ObservedAt(o) \in Int,
           Latest(os) \subseteq part, Latest(os) # {}
    PROVE  Latest(part) = Latest(os)
BY DEF Latest

\* The Azure DevOps pack does not leave failures out, but decides nothing unless
\* everything it takes for latest is complete.
LEMMA AzureSound ==
    ASSUME TypeOK, CapturedByCore, NEW mirror \in Mirrors, NEW setting,
           NEW answer \in BranchPolicies(setting, Evidence),
           answer.outcome # "InsufficientEvidence"
    PROVE  answer \in BranchPolicies(setting, Sound(mirror))
<1> DEFINE about == AboutTarget(Evidence, BranchConfiguration)
           part == AboutTarget(Sound(mirror), BranchConfiguration)
<1>1. CompleteFor(Latest(about), {BranchConfiguration})
  BY DEF BranchPolicies, Undecided, Answering
<1>2. part \subseteq about
  BY DEF AboutTarget, Sound
<1>3. Latest(about) \subseteq part
  <2>1. Latest(about) \in SUBSET about
    BY DEF Latest
  <2>2. \A o \in Latest(about) : ~Unestablished(o, mirror)
    BY <1>1, <2>1, CompleteIsEstablished
  <2> QED
    BY <2>1, <2>2 DEF AboutTarget, Sound
<1>4. \A o \in about : ObservedAt(o) \in Int
  BY ObservedAtType DEF AboutTarget
<1>5. Latest(about) # {}
  BY <1>1 DEF CompleteFor
<1>6. Latest(part) = Latest(about)
  <2> HIDE DEF about, part
  <2> QED
    BY <1>2, <1>3, <1>4, <1>5, LatestKept
<1> QED
  BY <1>6 DEF BranchPolicies

\* Invariant FailuresDecideNothing (established, complete, observation_authoritative):
\* runs that established nothing and declared mirrors only ever withhold an answer.
THEOREM FailuresWithhold == Spec => []FailuresDecideNothing
<1>1. TypeOK => FailuresDecideNothing
  <2> SUFFICES ASSUME TypeOK, CapturedByCore, NEW mirror \in Mirrors
               PROVE  /\ \A setting \in Settings :
                          /\ DecidedBy(PolicyAnswers(setting, Evidence, mirror),
                                       PolicyAnswers(setting, Sound(mirror), mirror))
                          /\ DecidedBy(ConfiguredReview(setting, Evidence, mirror),
                                ConfiguredReview(setting, Sound(mirror), mirror))
                      /\ \A report \in Reports :
                          DecidedBy(CurrentRevisionChecks(report, Evidence, mirror),
                            CurrentRevisionChecks(report, Sound(mirror), mirror))
    BY DEF FailuresDecideNothing, Sound
  <2>1. ASSUME NEW setting \in Settings,
               NEW answer \in PolicyAnswers(setting, Evidence, mirror),
               answer.outcome # "InsufficientEvidence"
        PROVE  answer \in PolicyAnswers(setting, Sound(mirror), mirror)
    <3>1. CASE answer \in RequiredStatusChecks(setting, Evidence, mirror)
      BY <3>1, GitHubSound DEF PolicyAnswers
    <3>2. CASE answer \in BranchPolicies(setting, Evidence)
      BY <2>1, <3>2, AzureSound DEF PolicyAnswers
    <3>3. CASE answer \in ApprovingReview(setting, Evidence)
      <4>1. PICK a \in BranchPolicies(setting, Evidence) :
                answer = AboutNoInterval(a)
        BY <3>3 DEF ApprovingReview
      <4>2. answer.outcome = a.outcome
        BY <4>1 DEF AboutNoInterval, BranchPolicies, Undecided, Supporting,
                    Contradicting, Answering
      <4>3. a \in BranchPolicies(setting, Sound(mirror))
        BY <2>1, <4>2, AzureSound
      <4> QED
        BY <4>1, <4>3 DEF ApprovingReview, PolicyAnswers
    <3> QED
      BY <2>1, <3>1, <3>2, <3>3 DEF PolicyAnswers
  <2>2. ASSUME NEW setting \in Settings
        PROVE  DecidedBy(ConfiguredReview(setting, Evidence, mirror),
                         ConfiguredReview(setting, Sound(mirror), mirror))
    BY CoreSound DEF DecidedBy
  <2>3. ASSUME NEW report \in Reports
        PROVE  DecidedBy(CurrentRevisionChecks(report, Evidence, mirror),
                         CurrentRevisionChecks(report, Sound(mirror), mirror))
    BY GitHubSound DEF DecidedBy
  <2> QED
    BY <2>1, <2>2, <2>3 DEF DecidedBy
<1> QED
  BY <1>1, TypeCorrect, PTL

=============================================================================
