--------------------------- MODULE ReviewHistoryProofs ---------------------------
(***************************************************************************)
(* Proofs about the reviewed-integrations claim end to end, for every      *)
(* interleaving of a provider and its collectors, of whatever size.        *)
(*                                                                         *)
(* What a capture says was so when it was read; the invariant says in what *)
(* sense it still is: an integration stays where it is, reviews are added  *)
(* at the end and at best lose their state (`Preserved`).                       *)
(***************************************************************************)
EXTENDS ReviewHistory, SequenceTheorems, WellFoundedInduction, TLAPS

Stages == {"activity", "associations", "reviews", "exhausted", "truncated", "failed"}
Active ==
    [pc : Stages, resource : Resources, limit : Nat, capturedAt : Time,
     interval : Requests, pages : Nat, seen : SUBSET Nat, associated : BOOLEAN,
     pull : Changes \cup {NoPull}, fetched : [Changes -> SUBSET ReviewRecord],
     finished : SUBSET Changes]

Typed ==
    /\ now \in Time
    /\ branch \in Seq(Integration)
    /\ reviews \in [Changes -> Seq(ReviewRecord)]
    /\ capture \in {Idle} \cup Active
    /\ corpus \in Seq(Capture)

-----------------------------------------------------------------------------
Happened(c) == \E i \in DOMAIN branch : branch[i].change = c

\* An integration was reviewed only if somebody else had approved it by then,
\* and certainly if before.
Remembered(i) ==
    LET others == {k \in DOMAIN reviews[branch[i].change] :
                      reviews[branch[i].change][k].actor # Author}
    IN  /\ branch[i].reviewed =>
              /\ branch[i].how = "pr_merge"
              /\ \E k \in others : reviews[branch[i].change][k].at <= branch[i].at
        /\ branch[i].how = "pr_merge" =>
              \A k \in others :
                  reviews[branch[i].change][k].at < branch[i].at => branch[i].reviewed

Provided ==
    /\ \A i \in DOMAIN branch : branch[i].at <= now /\ Remembered(i)
    /\ \A i, j \in DOMAIN branch :
        /\ i <= j => branch[i].at <= branch[j].at
        /\ branch[i].change = branch[j].change => i = j
    /\ \A c \in Changes : \A k \in DOMAIN reviews[c] : reviews[c][k].at <= now

\* A record is of the review at k, which may have lost its state since.
Tells(r, c, k) ==
    /\ reviews[c][k].actor = r.actor /\ reviews[c][k].at = r.at
    /\ reviews[c][k].state = "approved" => r.state = "approved"

Stands(r, c) == \E k \in DOMAIN reviews[c] : Tells(r, c, k)

\* Of a reviewed integration the records have an approval that may be why.
Answered(records, c) ==
    \A i \in DOMAIN branch :
        branch[i].change = c /\ branch[i].reviewed =>
            \E r \in records : r.actor # Author /\ r.at <= branch[i].at

\* The reviews of the pages read so far are fetched.
Reading(k, c) ==
    /\ Happened(c)
    /\ k.pages <= Len(reviews[c])
    /\ \A n \in 1..k.pages : \E r \in k.fetched[c] : Tells(r, c, n)

\* The capture in progress: the activity it has seen has no holes, and once it
\* has read on to the end it has all there is of its interval.
Collecting(k) ==
    /\ k.capturedAt <= now /\ k.interval.until <= k.capturedAt
    /\ k.seen \subseteq DOMAIN branch
    /\ \A i \in k.seen : \A j \in DOMAIN branch :
        i <= j /\ branch[j].at < k.interval.until => j \in k.seen
    /\ k.pc \in {"associations", "reviews", "exhausted"} =>
        \A j \in DOMAIN branch :
            branch[j].at < k.interval.until /\ branch[j].at >= now - Retention
                => j \in k.seen
    /\ k.pc \in {"activity", "associations"} => k.pull = NoPull
    /\ k.pc \in {"reviews", "exhausted"} => k.associated
    /\ \A c \in Changes : \A r \in k.fetched[c] : Stands(r, c)
    /\ \A c \in k.finished : Happened(c) /\ Answered(k.fetched[c], c)
    /\ k.pc = "reviews" /\ k.pull # NoPull => Reading(k, k.pull)
    /\ k.pc = "exhausted" /\ k.resource = Reviews =>
        \A i \in k.seen :
            Within(branch[i].at, k.interval) /\ branch[i].how = "pr_merge"
                => branch[i].change \in k.finished

-----------------------------------------------------------------------------
EventTrue(e) ==
    \E j \in DOMAIN branch :
        /\ e.id = branch[j].change /\ e.at = branch[j].at
        /\ e.kind = RecordedKind(branch[j].how)
        /\ e.pull = NoPull \/ (e.kind = "pull_request_merge" /\ e.pull = e.id)

PullTrue(p) ==
    \E j \in DOMAIN branch :
        /\ p.number = branch[j].change /\ branch[j].how = "pr_merge"
        /\ p.mergedAt = branch[j].at /\ p.author = Author
        /\ \A r \in p.approvals : Stands(r, p.number)
        /\ p.complete => Answered(p.approvals, p.number)

\* A capture that was read to its end has a record of everything in the interval
\* it observed that the provider still has.
Exhaustive(x) ==
    x.run.terminalPageReached /\ x.run.observed # NoScope =>
        \A j \in DOMAIN branch :
            /\ Within(branch[j].at, x.run.observed.interval)
            /\ branch[j].at >= now - Retention
            =>  /\ x.run.proposition = Mutations =>
                    \E e \in x.events : e.id = branch[j].change
                /\ x.run.proposition = Reviews /\ branch[j].how = "pr_merge" =>
                    \E p \in x.pulls : p.number = branch[j].change /\ p.complete

Truthful(x) ==
    /\ x.run.observed # NoScope => x.run.observed.interval.until <= now
    /\ \A e \in x.events :
        /\ EventTrue(e) /\ x.run.proposition = Mutations
        /\ e.kind = "pull_request_merge" /\ x.run.outcome # "Partial" => e.pull = e.id
    /\ \A p \in x.pulls : PullTrue(p)
    /\ Exhaustive(x)

Retained == {corpus[i] : i \in DOMAIN corpus}

IInv ==
    /\ Typed /\ Provided /\ (capture # Idle => Collecting(capture))
    /\ \A x \in Retained : Truthful(x)

-----------------------------------------------------------------------------
(***************************************************************************)
(* What the provider does not take back.                                   *)
(***************************************************************************)
BranchKept ==
    /\ DOMAIN branch \subseteq DOMAIN branch'
    /\ \A i \in DOMAIN branch : branch'[i] = branch[i]
    /\ \A i \in DOMAIN branch' : i \notin DOMAIN branch =>
        /\ branch'[i].at = now /\ ~Happened(branch'[i].change)
        /\ \A j \in DOMAIN branch : j < i

ReviewsKept ==
    \A c \in Changes :
        /\ Len(reviews[c]) <= Len(reviews'[c])
        /\ \A k \in DOMAIN reviews[c] :
            /\ reviews'[c][k].actor = reviews[c][k].actor
            /\ reviews'[c][k].at = reviews[c][k].at
            /\ reviews'[c][k].state = "approved" => reviews[c][k].state = "approved"

Preserved ==
    /\ now <= now' /\ BranchKept /\ ReviewsKept
    /\ now' \in Time /\ branch' \in Seq(Integration)
    /\ reviews' \in [Changes -> Seq(ReviewRecord)]

LEMMA TimeFacts ==
    /\ Time \subseteq Nat /\ Retention \in Nat
    /\ \A i \in Interval : i.from \in Nat /\ i.until \in Nat
    /\ Requests \subseteq Interval /\ \A i \in Requests : i.from < i.until
<1>1. Time \subseteq Nat /\ Retention \in Nat
  BY ReviewHistoryAssumption
<1>2. Requests \subseteq Interval /\ \A i \in Requests : i.from < i.until
  BY ReviewHistoryAssumption
<1>3. QED
  BY <1>1, <1>2 DEF Interval

LEMMA BranchFacts ==
    ASSUME Typed
    PROVE  /\ Len(branch) \in Nat /\ DOMAIN branch = 1..Len(branch)
           /\ \A i \in DOMAIN branch :
                /\ i \in Nat /\ branch[i] \in Integration /\ branch[i].change \in Changes
                /\ branch[i].at \in Time /\ branch[i].at \in Nat
                /\ branch[i].how \in {"push", "pr_merge"} /\ branch[i].reviewed \in BOOLEAN
           /\ now \in Nat
<1>1. /\ Len(branch) \in Nat /\ DOMAIN branch = 1..Len(branch)
      /\ \A i \in DOMAIN branch : branch[i] \in Integration
      /\ now \in Nat
  BY TimeFacts DEF Typed
<1>2. \A e \in Integration :
        /\ e.change \in Changes /\ e.at \in Time /\ e.at \in Nat
        /\ e.how \in {"push", "pr_merge"} /\ e.reviewed \in BOOLEAN
  BY TimeFacts DEF Integration
<1>3. QED
  BY <1>1, <1>2

LEMMA ReviewFacts ==
    ASSUME Typed, NEW c \in Changes
    PROVE  /\ Len(reviews[c]) \in Nat /\ DOMAIN reviews[c] = 1..Len(reviews[c])
           /\ \A k \in DOMAIN reviews[c] :
                /\ k \in Nat /\ reviews[c][k] \in ReviewRecord
                /\ reviews[c][k].at \in Time /\ reviews[c][k].at \in Nat
                /\ reviews[c][k].actor \in Actors /\ reviews[c][k].state \in ReviewStates
<1>1. reviews[c] \in Seq(ReviewRecord)
  BY DEF Typed
<1>2. /\ Len(reviews[c]) \in Nat /\ DOMAIN reviews[c] = 1..Len(reviews[c])
      /\ \A k \in DOMAIN reviews[c] : reviews[c][k] \in ReviewRecord
  BY <1>1
<1>3. \A r \in ReviewRecord :
        r.at \in Time /\ r.at \in Nat /\ r.state \in ReviewStates /\ r.actor \in Actors
  BY TimeFacts DEF ReviewRecord
<1>4. QED
  BY <1>2, <1>3

LEMMA TellsKept ==
    ASSUME Typed, Preserved, NEW c \in Changes, NEW r,
           NEW k \in DOMAIN reviews[c], Tells(r, c, k)
    PROVE  k \in DOMAIN reviews'[c] /\ Tells(r, c, k)'
<1>1. /\ Len(reviews[c]) \in Nat /\ DOMAIN reviews[c] = 1..Len(reviews[c])
  BY ReviewFacts
<1>2. reviews'[c] \in Seq(ReviewRecord) /\ Len(reviews[c]) <= Len(reviews'[c])
  BY DEF Preserved, ReviewsKept
<1>3. k \in DOMAIN reviews'[c]
  BY <1>1, <1>2
<1>4. QED
  BY <1>3 DEF Preserved, ReviewsKept, Tells

LEMMA StandsKept ==
    ASSUME Typed, Preserved, NEW c \in Changes, NEW r, Stands(r, c)
    PROVE  Stands(r, c)'
<1>1. PICK k \in DOMAIN reviews[c] : Tells(r, c, k)
  BY DEF Stands
<1>2. k \in DOMAIN reviews'[c] /\ Tells(r, c, k)'
  BY <1>1, TellsKept
<1>3. QED
  BY <1>2 DEF Stands

LEMMA HappenedKept ==
    ASSUME Preserved, NEW c, Happened(c)
    PROVE  Happened(c)'
BY DEF Preserved, BranchKept, Happened

\* Nothing new is of a change that has happened.
LEMMA AnsweredKept ==
    ASSUME Preserved, NEW c, Happened(c), NEW records, Answered(records, c)
    PROVE  Answered(records, c)'
<1> SUFFICES ASSUME NEW i \in DOMAIN branch', branch'[i].change = c, branch'[i].reviewed
             PROVE  \E r \in records : r.actor # Author /\ r.at <= branch'[i].at
  BY DEF Answered
<1>1. i \in DOMAIN branch /\ branch'[i] = branch[i]
  BY DEF Preserved, BranchKept
<1>2. QED
  BY <1>1 DEF Answered

LEMMA TruthfulKept ==
    ASSUME Typed, Provided, Preserved, NEW x \in Capture, Truthful(x)
    PROVE  Truthful(x)'
<1>1. /\ DOMAIN branch \subseteq DOMAIN branch'
      /\ \A i \in DOMAIN branch : branch'[i] = branch[i]
      /\ \A i \in DOMAIN branch' : i \notin DOMAIN branch => branch'[i].at = now
      /\ now <= now' /\ now \in Nat /\ now' \in Nat /\ Retention \in Nat
  BY TimeFacts, BranchFacts DEF Preserved, BranchKept
<1>2. x.run.observed # NoScope =>
        /\ x.run.observed.interval.until \in Nat
        /\ x.run.observed.interval.until <= now
  BY TimeFacts DEF Capture, Run, Scope, Truthful
<1>3. x.run.observed # NoScope => x.run.observed.interval.until <= now'
  BY <1>1, <1>2
<1>4. ASSUME NEW e, EventTrue(e) PROVE EventTrue(e)'
  BY <1>1, <1>4 DEF EventTrue
<1>5. ASSUME NEW p, PullTrue(p) PROVE PullTrue(p)'
  <2>1. PICK j \in DOMAIN branch :
            /\ p.number = branch[j].change /\ branch[j].how = "pr_merge"
            /\ p.mergedAt = branch[j].at /\ p.author = Author
            /\ \A r \in p.approvals : Stands(r, p.number)
            /\ p.complete => Answered(p.approvals, p.number)
    BY <1>5 DEF PullTrue
  <2>2. p.number \in Changes /\ Happened(p.number)
    BY <2>1, BranchFacts DEF Happened
  <2>3. \A r \in p.approvals : Stands(r, p.number)'
    BY <2>1, <2>2, StandsKept
  <2>4. p.complete => Answered(p.approvals, p.number)'
    BY <2>1, <2>2, AnsweredKept
  <2>5. QED
    BY <1>1, <2>1, <2>3, <2>4 DEF PullTrue
<1>6. Exhaustive(x)'
  <2> SUFFICES ASSUME x.run.terminalPageReached, x.run.observed # NoScope,
                      NEW j \in DOMAIN branch',
                      Within(branch'[j].at, x.run.observed.interval),
                      branch'[j].at >= now' - Retention
               PROVE  /\ x.run.proposition = Mutations =>
                            \E e \in x.events : e.id = branch'[j].change
                      /\ x.run.proposition = Reviews /\ branch'[j].how = "pr_merge" =>
                            \E p \in x.pulls : p.number = branch'[j].change /\ p.complete
    BY DEF Exhaustive
  <2>1. j \in DOMAIN branch
    BY <1>1, <1>2 DEF Within
  <2>2. branch'[j] = branch[j] /\ branch[j].at \in Nat
    BY <1>1, <2>1, BranchFacts
  <2>3. branch[j].at >= now - Retention
    BY <1>1, <2>2
  <2>4. QED
    BY <2>1, <2>2, <2>3 DEF Truthful, Exhaustive
<1>7. QED
  BY <1>3, <1>4, <1>5, <1>6 DEF Truthful

-----------------------------------------------------------------------------
(***************************************************************************)
(* The steps of the provider.                                              *)
(***************************************************************************)
LEMMA ActiveFacts ==
    ASSUME NEW k \in Active
    PROVE  /\ k.interval \in Interval /\ k.interval \in Requests
           /\ k.interval.until \in Nat /\ k.interval.from \in Nat
           /\ k.interval.from < k.interval.until
           /\ k.capturedAt \in Time /\ k.capturedAt \in Nat
           /\ k.seen \subseteq Nat /\ k.pages \in Nat /\ k.limit \in Nat
           /\ k.resource \in Resources /\ k.associated \in BOOLEAN
           /\ k.pull \in Changes \cup {NoPull} /\ k.finished \subseteq Changes
           /\ \A c \in Changes : k.fetched[c] \subseteq ReviewRecord
<1>1. k.interval \in Requests /\ k.capturedAt \in Time
  BY DEF Active
<1>2. /\ k.seen \subseteq Nat /\ k.pages \in Nat /\ k.limit \in Nat
      /\ k.resource \in Resources /\ k.associated \in BOOLEAN
      /\ k.pull \in Changes \cup {NoPull} /\ k.finished \subseteq Changes
      /\ \A c \in Changes : k.fetched[c] \subseteq ReviewRecord
  BY DEF Active
<1>3. QED
  BY <1>1, <1>2, TimeFacts

LEMMA ReadingKept ==
    ASSUME Typed, Preserved, NEW k \in Active, NEW c \in Changes, Reading(k, c)
    PROVE  Reading(k, c)'
<1>1. /\ Len(reviews[c]) \in Nat /\ DOMAIN reviews[c] = 1..Len(reviews[c])
      /\ k.pages \in Nat /\ Happened(c) /\ k.pages <= Len(reviews[c])
  BY ReviewFacts, ActiveFacts DEF Reading
<1>2. Len(reviews[c]) <= Len(reviews'[c]) /\ Len(reviews'[c]) \in Nat
  BY DEF Preserved, ReviewsKept
<1>3. \A n \in 1..k.pages : n \in DOMAIN reviews[c]
  BY <1>1
<1>4. \A n \in 1..k.pages : \E r \in k.fetched[c] : Tells(r, c, n)'
  BY <1>3, TellsKept DEF Reading
<1>5. k.pages <= Len(reviews'[c])
  BY <1>1, <1>2
<1>6. QED
  BY <1>1, <1>4, <1>5, HappenedKept DEF Reading

\* What is true of a capture in progress stays true while the provider goes on.
LEMMA CollectingKept ==
    ASSUME Typed, Provided, Preserved, NEW k \in Active, Collecting(k)
    PROVE  Collecting(k)'
<1>1. /\ k.interval.until \in Nat /\ k.capturedAt \in Nat /\ k.finished \subseteq Changes
      /\ k.pull \in Changes \cup {NoPull}
  BY ActiveFacts
<1>2. /\ DOMAIN branch \subseteq DOMAIN branch'
      /\ \A i \in DOMAIN branch : branch'[i] = branch[i]
      /\ \A i \in DOMAIN branch' : i \notin DOMAIN branch => branch'[i].at = now
      /\ now <= now' /\ now \in Nat /\ now' \in Nat /\ Retention \in Nat
  BY TimeFacts, BranchFacts DEF Preserved, BranchKept
<1>3. k.capturedAt <= now' /\ k.interval.until <= k.capturedAt
  BY <1>1, <1>2 DEF Collecting
<1>4. \A j \in DOMAIN branch' :
        branch'[j].at < k.interval.until =>
            j \in DOMAIN branch /\ branch'[j] = branch[j]
  <2>1. k.interval.until <= now
    BY <1>1, <1>2 DEF Collecting
  <2>2. QED
    BY <1>1, <1>2, <2>1
<1>5. \A j \in DOMAIN branch : branch[j].at \in Nat
  BY BranchFacts
<1>6. k.seen \subseteq DOMAIN branch'
  BY <1>2 DEF Collecting
<1>7. \A i \in k.seen : \A j \in DOMAIN branch' :
        i <= j /\ branch'[j].at < k.interval.until => j \in k.seen
  BY <1>4 DEF Collecting
<1>8. ASSUME k.pc \in {"associations", "reviews", "exhausted"},
             NEW j \in DOMAIN branch',
             branch'[j].at < k.interval.until, branch'[j].at >= now' - Retention
      PROVE  j \in k.seen
  <2>1. j \in DOMAIN branch /\ branch'[j] = branch[j] /\ branch[j].at \in Nat
    BY <1>4, <1>5, <1>8
  <2>2. branch[j].at >= now - Retention
    BY <1>2, <1>8, <2>1
  <2>3. QED
    BY <1>8, <2>1, <2>2 DEF Collecting
<1>9. \A c \in Changes : \A r \in k.fetched[c] : Stands(r, c)'
  BY StandsKept DEF Collecting
<1>10. \A c \in k.finished : Happened(c)' /\ Answered(k.fetched[c], c)'
  BY HappenedKept, AnsweredKept DEF Collecting
<1>11. k.pc = "reviews" /\ k.pull # NoPull => Reading(k, k.pull)'
  BY <1>1, ReadingKept DEF Collecting
<1>12. k.pc = "exhausted" /\ k.resource = Reviews =>
        \A i \in k.seen :
            Within(branch'[i].at, k.interval) /\ branch'[i].how = "pr_merge"
                => branch'[i].change \in k.finished
  <2>1. \A i \in k.seen : branch'[i] = branch[i]
    BY <1>2 DEF Collecting
  <2>2. QED
    BY <2>1 DEF Collecting
<1>13. /\ k.pc \in {"activity", "associations"} => k.pull = NoPull
       /\ k.pc \in {"reviews", "exhausted"} => k.associated
  BY DEF Collecting
<1>14. QED
  BY <1>3, <1>6, <1>7, <1>8, <1>9, <1>10, <1>11, <1>12, <1>13 DEF Collecting

LEMMA ProviderStep ==
    ASSUME IInv, Preserved, Provided', UNCHANGED <<capture, corpus>>
    PROVE  IInv'
<1>1. Typed'
  BY DEF IInv, Typed, Preserved
<1>2. ASSUME capture' # Idle PROVE Collecting(capture)'
  <2>1. PICK k : k = capture
    OBVIOUS
  <2>2. k \in Active /\ Collecting(k) /\ k = capture'
    BY <1>2, <2>1 DEF IInv, Typed, Idle
  <2>3. Collecting(k)'
    BY <2>2, CollectingKept DEF IInv
  <2>4. QED
    BY <2>2, <2>3
<1>3. Retained' = Retained /\ \A x \in Retained : x \in Capture /\ Truthful(x)
  BY DEF IInv, Typed, Retained
<1>4. \A x \in Retained' : Truthful(x)'
  BY <1>3, TruthfulKept DEF IInv
<1>5. QED
  BY <1>1, <1>2, <1>4 DEF IInv

LEMMA TickInv ==
    ASSUME IInv, Tick
    PROVE  IInv'
<1>1. now' = now + 1 /\ now < MaxTime /\ UNCHANGED <<branch, reviews, capture, corpus>>
  BY DEF Tick
<1>2. Typed /\ Provided
  BY DEF IInv
<1>3. now' \in Time /\ now \in Nat /\ now <= now'
  BY <1>1, <1>2, BranchFacts, ReviewHistoryAssumption DEF Typed
<1>4. Preserved
  <2>1. BranchKept
    BY <1>1 DEF BranchKept
  <2>2. ReviewsKept
    BY <1>1, <1>2, ReviewFacts DEF ReviewsKept
  <2>3. QED
    BY <1>1, <1>2, <1>3, <2>1, <2>2 DEF Preserved, Typed
<1>5. Provided'
  <2>1. \A i \in DOMAIN branch : branch[i].at <= now'
    BY <1>2, <1>3, <1>1, BranchFacts DEF Provided
  <2>2. \A c \in Changes : \A k \in DOMAIN reviews[c] : reviews[c][k].at <= now'
    BY <1>2, <1>3, <1>1, ReviewFacts DEF Provided
  <2>3. \A i \in DOMAIN branch : Remembered(i)'
    BY <1>1, <1>2 DEF Provided, Remembered
  <2>4. QED
    BY <1>1, <1>2, <2>1, <2>2, <2>3 DEF Provided
<1>6. QED
  BY <1>1, <1>4, <1>5, ProviderStep
LEMMA IntegrateInv ==
    ASSUME IInv, NEW c \in Changes, NEW how \in {"push", "pr_merge"}, Integrate(c, how)
    PROVE  IInv'
<1> DEFINE others == {k \in DOMAIN reviews[c] : reviews[c][k].actor # Author}
           e == [change |-> c, how |-> how, at |-> now,
                 reviewed |-> how = "pr_merge" /\ others # {}]
<1>0. PICK n : n = Len(branch) + 1
  OBVIOUS
<1>1. Typed /\ Provided /\ now \in Nat /\ now \in Time
  BY BranchFacts DEF IInv, Typed
<1>2. /\ \A i \in DOMAIN branch : branch[i].change # c
      /\ branch' = Append(branch, e) /\ UNCHANGED <<now, reviews, capture, corpus>>
  BY DEF Integrate
<1>3. /\ e \in Integration /\ e.change = c /\ e.how = how /\ e.at = now
      /\ e.reviewed = (how = "pr_merge" /\ others # {})
  BY <1>1 DEF Integration
<1> HIDE DEF e
<1>4. /\ branch' \in Seq(Integration) /\ DOMAIN branch' = 1..n
      /\ DOMAIN branch = 1..Len(branch) /\ Len(branch) \in Nat
      /\ \A i \in DOMAIN branch : branch'[i] = branch[i]
      /\ branch'[n] = e
  BY <1>0, <1>1, <1>2, <1>3 DEF Typed
<1>5. \A i \in DOMAIN branch' : i \in DOMAIN branch \/ i = n
  BY <1>0, <1>4
<1>6. \A i \in DOMAIN branch : i < n /\ i \in DOMAIN branch' /\ i \in Nat
  BY <1>0, <1>4
<1>7. Preserved
  <2>1. BranchKept
    BY <1>2, <1>3, <1>4, <1>5, <1>6 DEF BranchKept, Happened
  <2>2. ReviewsKept
    BY <1>1, <1>2, ReviewFacts DEF ReviewsKept
  <2>3. QED
    BY <1>1, <1>2, <1>4, <2>1, <2>2 DEF Preserved, Typed
<1>8. Provided'
  <2>1. \A i \in DOMAIN branch : branch[i].at <= now /\ branch[i].at \in Nat
    BY <1>1, BranchFacts DEF Provided
  <2>2. \A i \in DOMAIN branch' : branch'[i].at <= now
    BY <1>1, <1>3, <1>4, <1>5, <2>1
  <2>3. \A i \in DOMAIN branch : Remembered(i)'
    BY <1>1, <1>2, <1>4 DEF Provided, Remembered
  <2>4. Remembered(n)'
    <3>1. \A k \in others : reviews[c][k].at <= now
      BY <1>1 DEF Provided
    <3>2. /\ branch'[n].change = c /\ branch'[n].how = how /\ branch'[n].at = now
          /\ branch'[n].reviewed <=> (how = "pr_merge" /\ others # {})
          /\ reviews' = reviews
      BY <1>2, <1>3, <1>4
    <3>3. branch'[n].reviewed => \E k \in others : reviews[c][k].at <= now
      BY <3>1, <3>2
    <3>4. QED
      BY <3>2, <3>3 DEF Remembered
  <2>5. ASSUME NEW i \in DOMAIN branch', NEW j \in DOMAIN branch'
        PROVE  /\ i <= j => branch'[i].at <= branch'[j].at
               /\ branch'[i].change = branch'[j].change => i = j
    <3>1. CASE i \in DOMAIN branch /\ j \in DOMAIN branch
      BY <1>1, <1>4, <3>1 DEF Provided
    <3>2. CASE i \in DOMAIN branch /\ j = n
      BY <1>2, <1>3, <1>4, <2>1, <3>2
    <3>3. CASE i = n /\ j \in DOMAIN branch
      <4>1. ~(i <= j)
        BY <1>0, <1>4, <1>6, <3>3
      <4>2. QED
        BY <1>2, <1>3, <1>4, <3>3, <4>1
    <3>4. CASE i = n /\ j = n
      BY <1>1, <1>3, <1>4, <3>4
    <3>5. QED
      BY <1>5, <3>1, <3>2, <3>3, <3>4
  <2>6. QED
    BY <1>1, <1>2, <1>5, <2>2, <2>3, <2>4, <2>5 DEF Provided
<1>9. QED
  BY <1>2, <1>7, <1>8, ProviderStep

\* A step that adds or changes reviews of one change.
LEMMA ReviewStep ==
    ASSUME IInv, NEW c \in Changes, NEW s \in Seq(ReviewRecord),
           reviews' = [reviews EXCEPT ![c] = s],
           UNCHANGED <<now, branch, capture, corpus>>,
           Len(reviews[c]) <= Len(s),
           \A k \in DOMAIN reviews[c] :
               /\ s[k].actor = reviews[c][k].actor /\ s[k].at = reviews[c][k].at
               /\ s[k].state = "approved" => reviews[c][k].state = "approved",
           \A k \in DOMAIN s : k \notin DOMAIN reviews[c] => s[k].at = now
    PROVE  IInv'
<1>1. Typed /\ Provided /\ now \in Nat
  BY BranchFacts DEF IInv
<1>2. /\ reviews' \in [Changes -> Seq(ReviewRecord)] /\ reviews'[c] = s
      /\ \A d \in Changes : d # c => reviews'[d] = reviews[d]
  BY <1>1 DEF Typed
<1>3. ReviewsKept
  BY <1>1, <1>2, ReviewFacts DEF ReviewsKept
<1>4. Preserved
  BY <1>1, <1>2, <1>3, TimeFacts DEF Preserved, BranchKept, Typed
<1>5. \A d \in Changes : \A k \in DOMAIN reviews'[d] :
        \/ /\ k \in DOMAIN reviews[d]
           /\ reviews'[d][k].actor = reviews[d][k].actor
           /\ reviews'[d][k].at = reviews[d][k].at
        \/ k \notin DOMAIN reviews[d] /\ reviews'[d][k].at = now
  BY <1>2
<1>6. \A d \in Changes : DOMAIN reviews[d] \subseteq DOMAIN reviews'[d]
  <2> TAKE d \in Changes
  <2>1. /\ Len(reviews[d]) \in Nat /\ DOMAIN reviews[d] = 1..Len(reviews[d])
        /\ reviews'[d] \in Seq(ReviewRecord) /\ Len(reviews[d]) <= Len(reviews'[d])
    BY <1>1, <1>2, ReviewFacts
  <2>2. QED
    BY <2>1
<1>7. Provided'
  <2>1. \A d \in Changes : \A k \in DOMAIN reviews'[d] : reviews'[d][k].at <= now
    BY <1>1, <1>5 DEF Provided
  <2>2. ASSUME NEW i \in DOMAIN branch PROVE Remembered(i)'
    <3> DEFINE d == branch[i].change
    <3>1. d \in Changes /\ branch[i].at <= now /\ Remembered(i) /\ branch[i].at \in Nat
      BY <1>1, BranchFacts DEF Provided
    <3> HIDE DEF d
    <3>2. \A k \in DOMAIN reviews[d] : k \in DOMAIN reviews'[d]
            /\ reviews'[d][k].actor = reviews[d][k].actor
            /\ reviews'[d][k].at = reviews[d][k].at
      BY <1>5, <1>6, <3>1
    <3>3. \A k \in DOMAIN reviews'[d] :
            k \in DOMAIN reviews[d] \/ ~(reviews'[d][k].at < branch[i].at)
      BY <1>1, <1>5, <3>1
    <3>4. QED
      BY <1>1, <3>1, <3>2, <3>3 DEF Remembered, d
  <2>3. QED
    BY <1>1, <2>1, <2>2 DEF Provided
<1>8. QED
  BY <1>4, <1>7, ProviderStep

LEMMA ApproveInv ==
    ASSUME IInv, NEW c \in Changes, NEW actor \in Actors, Approve(c, actor)
    PROVE  IInv'
<1> DEFINE r == [actor |-> actor, state |-> "approved", at |-> now]
           s == Append(reviews[c], r)
<1>1. reviews[c] \in Seq(ReviewRecord) /\ now \in Time
  BY DEF IInv, Typed
<1>2. r \in ReviewRecord /\ r.at = now
  BY <1>1 DEF ReviewRecord, ReviewStates
<1>3. reviews' = [reviews EXCEPT ![c] = s] /\ UNCHANGED <<now, branch, capture, corpus>>
  BY DEF Approve
<1> HIDE DEF r
<1>4. /\ s \in Seq(ReviewRecord) /\ Len(reviews[c]) <= Len(s)
      /\ \A k \in DOMAIN reviews[c] : s[k] = reviews[c][k]
      /\ \A k \in DOMAIN s : k \notin DOMAIN reviews[c] => s[k] = r
  BY <1>1, <1>2
<1> HIDE DEF s
<1>5. QED
  BY <1>2, <1>3, <1>4, ReviewStep

LEMMA DismissInv ==
    ASSUME IInv, NEW c \in Changes, Dismiss(c)
    PROVE  IInv'
<1>1. PICK i \in DOMAIN reviews[c] :
          /\ reviews[c][i].state = "approved"
          /\ reviews' = [reviews EXCEPT ![c][i].state = "dismissed"]
  BY DEF Dismiss
<1> DEFINE r == [reviews[c][i] EXCEPT !.state = "dismissed"]
           s == [reviews[c] EXCEPT ![i] = r]
<1>2. reviews[c] \in Seq(ReviewRecord) /\ reviews[c][i] \in ReviewRecord
  BY DEF IInv, Typed
<1>3. /\ r \in ReviewRecord /\ r.state = "dismissed"
      /\ r.actor = reviews[c][i].actor /\ r.at = reviews[c][i].at
  BY <1>2 DEF ReviewRecord, ReviewStates
<1>4. reviews' = [reviews EXCEPT ![c] = s] /\ UNCHANGED <<now, branch, capture, corpus>>
  BY <1>1 DEF Dismiss
<1> HIDE DEF r
<1>5. /\ s \in Seq(ReviewRecord) /\ Len(reviews[c]) <= Len(s)
      /\ DOMAIN s = DOMAIN reviews[c] /\ s[i] = r
      /\ \A k \in DOMAIN reviews[c] : k # i => s[k] = reviews[c][k]
  BY <1>2, <1>3
<1> HIDE DEF s
<1>6. QED
  BY <1>3, <1>4, <1>5, ReviewStep

-----------------------------------------------------------------------------
(***************************************************************************)
(* The steps of the collector.                                             *)
(***************************************************************************)
LEMMA ProviderStays ==
    ASSUME Typed, UNCHANGED provider
    PROVE  Preserved
<1>1. BranchKept /\ ReviewsKept
  BY ReviewFacts DEF provider, BranchKept, ReviewsKept
<1>2. QED
  BY <1>1, BranchFacts DEF Typed, Preserved, provider

LEMMA ProvidedStays ==
    ASSUME Provided, UNCHANGED provider
    PROVE  Provided'
BY DEF Provided, Remembered, provider

LEMMA CollectorStep ==
    ASSUME IInv, NEW k \in Active, Collecting(k), capture' = k, UNCHANGED <<provider, corpus>>
    PROVE  IInv'
<1>1. Typed /\ Provided /\ Preserved /\ Provided'
  BY ProviderStays, ProvidedStays DEF IInv
<1>2. Typed'
  BY <1>1 DEF Typed, provider
<1>3. Collecting(k)'
  BY <1>1, CollectingKept
<1>4. Retained' = Retained /\ \A x \in Retained : x \in Capture /\ Truthful(x)
  BY DEF IInv, Typed, Retained
<1>5. \A x \in Retained' : Truthful(x)'
  BY <1>1, <1>4, TruthfulKept
<1>6. QED
  BY <1>1, <1>2, <1>3, <1>5 DEF IInv

\* A capture that is at a request.
LEMMA AtRequest ==
    ASSUME IInv, capture.pc # "idle"
    PROVE  /\ capture \in Active /\ Collecting(capture) /\ Typed /\ Provided
           /\ capture # Idle
BY DEF IInv, Typed, Idle

LEMMA BeginInv ==
    ASSUME IInv, NEW resource \in Resources, NEW limit \in PageLimits,
           NEW capturedAt \in Time, NEW interval \in Requests,
           Begin(resource, limit, capturedAt, interval)
    PROVE  IInv'
<1>1. PICK k : k = capture'
  OBVIOUS
<1>2. /\ k = [pc |-> "activity", resource |-> resource, limit |-> limit,
              capturedAt |-> capturedAt, interval |-> interval,
              pages |-> 0, seen |-> {}, associated |-> FALSE, pull |-> NoPull,
              fetched |-> [c \in Changes |-> {}], finished |-> {}]
      /\ capturedAt <= now /\ interval.until <= capturedAt
      /\ UNCHANGED <<provider, corpus>>
  BY <1>1 DEF Begin
<1>3. limit \in Nat
  BY ReviewHistoryAssumption
<1>4. k \in Active
  BY <1>2, <1>3 DEF Active, Stages
<1>5. Collecting(k)
  BY <1>2 DEF Collecting
<1>6. QED
  BY <1>1, <1>2, <1>4, <1>5, CollectorStep

LEMMA FetchActivityInv ==
    ASSUME IInv, FetchActivity
    PROVE  IInv'
<1> DEFINE page == Newest(OlderEntries)
           next == Beyond(OlderEntries \ page = {}, capture.limit, capture.pages + 1)
<1>1. PICK k : k = capture'
  OBVIOUS
<1>2. capture \in Active /\ Collecting(capture) /\ Typed /\ Provided
  BY AtRequest DEF FetchActivity
<1>3. /\ k = [capture EXCEPT !.seen = @ \cup page, !.pages = @ + 1,
                  !.pc = CASE next = "end" -> "associations"
                           [] next = "truncated" -> "truncated"
                           [] OTHER -> "activity"]
      /\ capture.pc = "activity" /\ UNCHANGED <<provider, corpus>>
  BY <1>1 DEF FetchActivity
<1>4. page \subseteq OlderEntries /\ OlderEntries \subseteq DOMAIN branch
  BY DEF Newest, OlderEntries
<1>5. OlderEntries \subseteq Nat
  BY <1>2, <1>4, BranchFacts
<1>6. next = "end" => OlderEntries \subseteq page
  BY DEF Beyond
<1> HIDE DEF page, next
<1>7. /\ k \in Active /\ k.seen = capture.seen \cup page
      /\ k.pc \in {"associations", "truncated", "activity"}
      /\ k.pc = "associations" => next = "end"
      /\ k.interval = capture.interval /\ k.capturedAt = capture.capturedAt
      /\ k.fetched = capture.fetched /\ k.finished = capture.finished
      /\ k.pull = capture.pull
  <2>1. page \subseteq Nat /\ capture.seen \cup page \subseteq Nat /\ capture.pages + 1 \in Nat
    BY <1>2, <1>4, <1>5, ActiveFacts
  <2>2. QED
    BY <1>2, <1>3, <2>1 DEF Active, Stages
<1>8. \A i \in page : \A j \in OlderEntries : j <= i
  BY DEF page, Newest
<1>9. \A i, j \in DOMAIN branch : /\ i <= j => branch[i].at <= branch[j].at
                                  /\ branch[i].at \in Nat /\ i \in Nat
  BY <1>2, BranchFacts DEF Provided
<1>10. now \in Nat /\ Retention \in Nat
  BY <1>2, BranchFacts, TimeFacts
<1>11. ASSUME NEW i \in k.seen, NEW j \in DOMAIN branch,
              i <= j, branch[j].at < k.interval.until
       PROVE  j \in k.seen
  <2>1. CASE i \in capture.seen
    BY <1>2, <1>7, <1>11, <2>1 DEF Collecting
  <2>2. CASE i \in page /\ \A s \in capture.seen : j < s
    <3>1. branch[i].at >= now - Retention /\ i \in DOMAIN branch
      BY <1>4, <2>2 DEF OlderEntries
    <3>2. branch[j].at >= now - Retention
      BY <1>9, <1>10, <1>11, <3>1
    <3>3. j \in OlderEntries
      BY <2>2, <3>2 DEF OlderEntries
    <3>4. j <= i
      BY <1>8, <2>2, <3>3
    <3>5. j = i
      BY <1>9, <1>11, <3>1, <3>4
    <3>6. QED
      BY <1>7, <2>2, <3>5
  <2>3. CASE \E s \in capture.seen : ~(j < s)
    <3>1. PICK s \in capture.seen : ~(j < s)
      BY <2>3
    <3>2. s <= j
      BY <1>2, <1>9, <3>1, ActiveFacts
    <3>3. QED
      BY <1>2, <1>7, <1>11, <3>1, <3>2 DEF Collecting
  <2>4. QED
    BY <1>7, <2>1, <2>2, <2>3
<1>12. ASSUME k.pc = "associations", NEW j \in DOMAIN branch,
              branch[j].at < k.interval.until, branch[j].at >= now - Retention
       PROVE  j \in k.seen
  <2>1. CASE j \in OlderEntries
    BY <1>6, <1>7, <1>12, <2>1
  <2>2. CASE j \notin OlderEntries
    <3>1. PICK s \in capture.seen : ~(j < s)
      BY <1>12, <2>2 DEF OlderEntries
    <3>2. s <= j
      BY <1>2, <1>9, <3>1, ActiveFacts
    <3>3. QED
      BY <1>2, <1>7, <1>12, <3>1, <3>2 DEF Collecting
  <2>3. QED
    BY <2>1, <2>2
<1>13. k.seen \subseteq DOMAIN branch
  BY <1>2, <1>4, <1>7 DEF Collecting
<1>14. Collecting(k)
  BY <1>2, <1>3, <1>7, <1>11, <1>12, <1>13 DEF Collecting
<1>15. QED
  BY <1>1, <1>3, <1>7, <1>14, CollectorStep

LEMMA FetchAssociationsInv ==
    ASSUME IInv, FetchAssociations
    PROVE  IInv'
<1>1. PICK k : k = capture'
  OBVIOUS
<1>2. capture \in Active /\ Collecting(capture)
  BY AtRequest DEF FetchAssociations
<1>3. /\ k = [capture EXCEPT !.associated = TRUE,
                  !.pc = IF capture.resource = Reviews THEN "reviews" ELSE "exhausted"]
      /\ capture.pc = "associations" /\ UNCHANGED <<provider, corpus>>
  BY <1>1 DEF FetchAssociations
<1>4. /\ k \in Active /\ k.associated /\ k.seen = capture.seen
      /\ k.resource = capture.resource
      /\ k.pc = IF capture.resource = Reviews THEN "reviews" ELSE "exhausted"
      /\ k.interval = capture.interval /\ k.capturedAt = capture.capturedAt
      /\ k.fetched = capture.fetched /\ k.finished = capture.finished
      /\ k.pull = capture.pull
  BY <1>2, <1>3 DEF Active, Stages
<1>5. Collecting(k)
  BY <1>2, <1>3, <1>4 DEF Collecting
<1>6. QED
  BY <1>1, <1>3, <1>4, <1>5, CollectorStep

LEMMA NextPullInv ==
    ASSUME IInv, NEW c \in Changes, NextPull(c)
    PROVE  IInv'
<1>1. PICK k : k = capture'
  OBVIOUS
<1>2. capture \in Active /\ Collecting(capture) /\ Typed
  BY AtRequest DEF NextPull
<1>3. /\ k = [capture EXCEPT !.pull = c, !.pages = 0]
      /\ capture.pc = "reviews" /\ c \in Associated /\ UNCHANGED <<provider, corpus>>
  BY <1>1 DEF NextPull
<1>4. /\ k \in Active /\ k.pull = c /\ k.pages = 0 /\ k.pc = "reviews"
      /\ k.associated = capture.associated /\ k.seen = capture.seen
      /\ k.resource = capture.resource
      /\ k.interval = capture.interval /\ k.capturedAt = capture.capturedAt
      /\ k.fetched = capture.fetched /\ k.finished = capture.finished
  BY <1>2, <1>3 DEF Active, Stages
<1>5. Happened(c)
  BY <1>2, <1>3 DEF Associated, Heads, Collecting, Happened
<1>6. Reading(k, c)
  BY <1>2, <1>4, <1>5, ReviewFacts DEF Reading
<1>7. Collecting(k)
  BY <1>2, <1>3, <1>4, <1>6 DEF Collecting
<1>8. QED
  BY <1>1, <1>3, <1>4, <1>7, CollectorStep

\* All reviews of a pull request that was integrated tell why it was.
LEMMA AllReadAnswers ==
    ASSUME Typed, Provided, NEW c \in Changes, NEW records,
           \A n \in DOMAIN reviews[c] : \E r \in records : Tells(r, c, n)
    PROVE  Answered(records, c)
<1> SUFFICES ASSUME NEW i \in DOMAIN branch, branch[i].change = c, branch[i].reviewed
             PROVE  \E r \in records : r.actor # Author /\ r.at <= branch[i].at
  BY DEF Answered
<1>1. PICK n \in DOMAIN reviews[c] :
          reviews[c][n].actor # Author /\ reviews[c][n].at <= branch[i].at
  BY DEF Provided, Remembered
<1>2. PICK r \in records : Tells(r, c, n)
  OBVIOUS
<1>3. QED
  BY <1>1, <1>2 DEF Tells

LEMMA FetchReviewsInv ==
    ASSUME IInv, FetchReviews
    PROVE  IInv'
<1>1. PICK k : k = capture'
  OBVIOUS
<1>2. PICK c, n, next :
        /\ c = capture.pull /\ n = capture.pages + 1
        /\ next = Beyond(n >= Len(reviews[c]), capture.limit, n)
  OBVIOUS
<1>3. capture \in Active /\ Collecting(capture) /\ Typed /\ Provided
  BY AtRequest DEF FetchReviews
<1> DEFINE page == {reviews[c][i] : i \in {n} \cap DOMAIN reviews[c]}
<1>4. /\ k = [capture EXCEPT !.fetched[c] = @ \cup page, !.pages = n,
                  !.finished = IF next = "end" THEN @ \cup {c} ELSE @,
                  !.pull = IF next = "end" THEN NoPull ELSE @,
                  !.pc = IF next = "truncated" THEN "truncated" ELSE @]
      /\ capture.pc = "reviews" /\ c # NoPull /\ UNCHANGED <<provider, corpus>>
  BY <1>1, <1>2 DEF FetchReviews
<1>5. /\ c \in Changes /\ n \in Nat /\ n >= 1 /\ capture.pages \in Nat
      /\ capture.fetched[c] \subseteq ReviewRecord
  BY <1>2, <1>3, <1>4, ActiveFacts
<1>6. /\ Len(reviews[c]) \in Nat /\ DOMAIN reviews[c] = 1..Len(reviews[c])
      /\ \A i \in DOMAIN reviews[c] : reviews[c][i] \in ReviewRecord
  BY <1>3, <1>5, ReviewFacts
<1>7. page \subseteq ReviewRecord /\ \A i \in {n} \cap DOMAIN reviews[c] : reviews[c][i] \in page
  BY <1>6
<1>8. \A r \in page : n \in DOMAIN reviews[c] /\ r = reviews[c][n]
  OBVIOUS
<1> HIDE DEF page
<1>9. /\ k \in Active
      /\ k.fetched[c] = capture.fetched[c] \cup page
      /\ \A d \in Changes : d # c => k.fetched[d] = capture.fetched[d]
      /\ k.pages = n
      /\ k.finished = IF next = "end" THEN capture.finished \cup {c} ELSE capture.finished
      /\ k.pull = IF next = "end" THEN NoPull ELSE c
      /\ k.pc = IF next = "truncated" THEN "truncated" ELSE "reviews"
      /\ k.associated = capture.associated /\ k.seen = capture.seen
      /\ k.interval = capture.interval /\ k.capturedAt = capture.capturedAt
  <2>1. k.fetched = [capture.fetched EXCEPT ![c] = @ \cup page]
    BY <1>3, <1>4 DEF Active
  <2>2. capture.fetched \in [Changes -> SUBSET ReviewRecord]
    BY <1>3 DEF Active
  <2>3. /\ k.fetched \in [Changes -> SUBSET ReviewRecord]
        /\ k.fetched[c] = capture.fetched[c] \cup page
        /\ \A d \in Changes : d # c => k.fetched[d] = capture.fetched[d]
    BY <1>5, <1>7, <2>1, <2>2
  <2>4. /\ k.pages = n
        /\ k.finished = IF next = "end" THEN capture.finished \cup {c} ELSE capture.finished
        /\ k.pull = IF next = "end" THEN NoPull ELSE c
        /\ k.pc = IF next = "truncated" THEN "truncated" ELSE "reviews"
        /\ k.associated = capture.associated /\ k.seen = capture.seen
        /\ k.interval = capture.interval /\ k.capturedAt = capture.capturedAt
        /\ k.resource = capture.resource /\ k.limit = capture.limit
    BY <1>2, <1>3, <1>4 DEF Active
  <2>5. k \in Active
    <3>1. k = [pc |-> k.pc, resource |-> k.resource, limit |-> k.limit,
               capturedAt |-> k.capturedAt, interval |-> k.interval, pages |-> k.pages,
               seen |-> k.seen, associated |-> k.associated, pull |-> k.pull,
               fetched |-> k.fetched, finished |-> k.finished]
      BY <1>3, <1>4 DEF Active
    <3>2. k.finished \subseteq Changes /\ k.pull \in Changes \cup {NoPull} /\ k.pc \in Stages
      BY <1>3, <1>5, <2>4, ActiveFacts DEF Stages
    <3>3. /\ k.resource \in Resources /\ k.limit \in Nat /\ k.capturedAt \in Time
          /\ k.interval \in Requests /\ k.pages \in Nat /\ k.seen \subseteq Nat
          /\ k.associated \in BOOLEAN
      BY <1>3, <1>5, <2>4, ActiveFacts
    <3>4. QED
      BY <2>3, <3>1, <3>2, <3>3 DEF Active
  <2>6. QED
    BY <2>3, <2>4, <2>5
<1>10. /\ Happened(c) /\ capture.pages <= Len(reviews[c])
       /\ \A i \in 1..capture.pages : \E r \in capture.fetched[c] : Tells(r, c, i)
  BY <1>2, <1>3, <1>4 DEF Collecting, Reading
<1>11. \A r \in page : Tells(r, c, n) /\ Stands(r, c)
  BY <1>8 DEF Tells, Stands
<1>12. \A i \in 1..n : i \in DOMAIN reviews[c] => \E r \in k.fetched[c] : Tells(r, c, i)
  <2> TAKE i \in 1..n
  <2>1. i = n \/ i \in 1..capture.pages
    BY <1>2, <1>5
  <2>2. QED
    BY <1>7, <1>9, <1>10, <1>11, <2>1
<1>13. next = "end" => n >= Len(reviews[c])
  BY <1>2 DEF Beyond
<1>14. next = "end" => Answered(k.fetched[c], c)
  <2>1. next = "end" => \A i \in DOMAIN reviews[c] : i \in 1..n
    BY <1>5, <1>6, <1>13
  <2>2. QED
    BY <1>3, <1>5, <1>12, <2>1, AllReadAnswers
<1>15. next = "more" => n <= Len(reviews[c])
  BY <1>2, <1>5, <1>6 DEF Beyond
<1>16. next \in {"end", "truncated", "more"}
  BY <1>2 DEF Beyond
<1>17. next = "more" => Reading(k, c)
  <2>1. next = "more" => \A i \in 1..n : i \in DOMAIN reviews[c]
    BY <1>5, <1>6, <1>15
  <2>2. QED
    BY <1>9, <1>10, <1>12, <1>15, <2>1 DEF Reading
<1>18. \A d \in Changes : \A r \in k.fetched[d] : Stands(r, d)
  BY <1>3, <1>9, <1>11 DEF Collecting
<1>19. \A d \in k.finished : Happened(d) /\ Answered(k.fetched[d], d)
  <2> TAKE d \in k.finished
  <2>1. CASE d # c
    BY <1>3, <1>9, <2>1, ActiveFacts DEF Collecting
  <2>2. CASE d = c /\ next = "end"
    BY <1>10, <1>14, <2>2
  <2>3. CASE d = c /\ c \in capture.finished
    <3>1. Answered(capture.fetched[c], c)
      BY <1>3, <2>3 DEF Collecting
    <3>2. Answered(k.fetched[c], c)
      BY <1>9, <3>1 DEF Answered
    <3>3. QED
      BY <1>10, <2>3, <3>2
  <2>4. QED
    BY <1>9, <2>1, <2>2, <2>3
<1>20. k.pc = "reviews" /\ k.pull # NoPull => Reading(k, k.pull)
  BY <1>9, <1>16, <1>17
<1>21. Collecting(k)
  BY <1>3, <1>4, <1>9, <1>18, <1>19, <1>20 DEF Collecting
<1>22. QED
  BY <1>1, <1>4, <1>9, <1>21, CollectorStep

LEMMA ReviewsReadInv ==
    ASSUME IInv, ReviewsRead
    PROVE  IInv'
<1>1. PICK k : k = capture'
  OBVIOUS
<1>2. capture \in Active /\ Collecting(capture)
  BY AtRequest DEF ReviewsRead
<1>3. /\ k = [capture EXCEPT !.pc = "exhausted"] /\ capture.pc = "reviews"
      /\ Associated \subseteq capture.finished /\ UNCHANGED <<provider, corpus>>
  BY <1>1 DEF ReviewsRead
<1>4. /\ k \in Active /\ k.pc = "exhausted" /\ k.associated = capture.associated
      /\ k.seen = capture.seen /\ k.interval = capture.interval
      /\ k.capturedAt = capture.capturedAt
      /\ k.fetched = capture.fetched /\ k.finished = capture.finished
  BY <1>2, <1>3 DEF Active, Stages
<1>5. \A i \in k.seen : Within(branch[i].at, k.interval) /\ branch[i].how = "pr_merge"
        => branch[i].change \in k.finished
  BY <1>3, <1>4 DEF Associated, Heads
<1>6. Collecting(k)
  BY <1>2, <1>3, <1>4, <1>5 DEF Collecting
<1>7. QED
  BY <1>1, <1>3, <1>4, <1>6, CollectorStep

LEMMA RequestFailsInv ==
    ASSUME IInv, RequestFails
    PROVE  IInv'
<1>1. PICK k : k = capture'
  OBVIOUS
<1>2. capture \in Active /\ Collecting(capture)
  BY AtRequest DEF RequestFails
<1>3. k = [capture EXCEPT !.pc = "failed"] /\ UNCHANGED <<provider, corpus>>
  BY <1>1 DEF RequestFails
<1>4. /\ k \in Active /\ k.pc = "failed"
      /\ k.seen = capture.seen /\ k.interval = capture.interval
      /\ k.capturedAt = capture.capturedAt
      /\ k.fetched = capture.fetched /\ k.finished = capture.finished
  BY <1>2, <1>3 DEF Active, Stages
<1>5. Collecting(k)
  BY <1>2, <1>4 DEF Collecting
<1>6. QED
  BY <1>1, <1>3, <1>4, <1>5, CollectorStep

-----------------------------------------------------------------------------
(***************************************************************************)
(* A capture is retained.                                                  *)
(***************************************************************************)
\* A capture is put among those retained.
LEMMA InsertedFacts ==
    ASSUME NEW S, NEW s \in Seq(S), NEW x \in S, NEW i \in 1..(Len(s) + 1)
    PROVE  /\ InsertedAt(s, i, x) \in Seq(S)
           /\ \A j \in DOMAIN InsertedAt(s, i, x) :
                InsertedAt(s, i, x)[j] = x
                \/ \E l \in DOMAIN s : InsertedAt(s, i, x)[j] = s[l]
<1> DEFINE l == SubSeq(s, 1, i - 1)
           r == SubSeq(s, i, Len(s))
           lx == l \o <<x>>
           Old(y) == y = x \/ \E n \in DOMAIN s : y = s[n]
<1>1. Len(s) \in Nat /\ DOMAIN s = 1..Len(s) /\ i \in Nat /\ i - 1 \in Int
  OBVIOUS
<1>2. \A n \in 1..(i - 1) : n \in DOMAIN s
  BY <1>1
<1>3. \A n \in i..Len(s) : n \in DOMAIN s
  BY <1>1
<1>4. \A n \in DOMAIN s : s[n] \in S
  OBVIOUS
<1>5. /\ l \in Seq(S) /\ Len(l) = IF 1 <= i - 1 THEN i - 1 - 1 + 1 ELSE 0
      /\ \A n \in 1..(i - 1 - 1 + 1) : l[n] = s[1 + n - 1]
  BY <1>1, <1>2, <1>4, SubSeqProperties
<1>6. /\ r \in Seq(S) /\ Len(r) = IF i <= Len(s) THEN Len(s) - i + 1 ELSE 0
      /\ \A n \in 1..(Len(s) - i + 1) : r[n] = s[i + n - 1]
  BY <1>1, <1>3, <1>4, SubSeqProperties
<1>7. \A n \in 1..Len(l) : Old(l[n])
  BY <1>1, <1>5
<1>8. \A n \in 1..Len(r) : Old(r[n])
  BY <1>1, <1>6
<1>9. <<x>> \in Seq(S) /\ Len(<<x>>) = 1 /\ <<x>>[1] = x
  OBVIOUS
<1> HIDE DEF l, r
<1>10. /\ lx \in Seq(S) /\ Len(lx) = Len(l) + Len(<<x>>)
       /\ \A n \in 1..(Len(l) + Len(<<x>>)) :
            lx[n] = IF n <= Len(l) THEN l[n] ELSE <<x>>[n - Len(l)]
  BY <1>5, <1>9, ConcatProperties
<1>11. Len(l) \in Nat /\ Len(r) \in Nat
  BY <1>5, <1>6
<1>12. Len(lx) = Len(l) + 1 /\ \A n \in 1..Len(lx) : Old(lx[n])
  <2>1. Len(lx) = Len(l) + 1
    BY <1>9, <1>10
  <2>2. ASSUME NEW n \in 1..Len(lx) PROVE Old(lx[n])
    <3>1. CASE n <= Len(l)
      <4>1. n \in 1..Len(l) /\ lx[n] = l[n]
        BY <1>9, <1>10, <1>11, <2>1, <3>1
      <4>2. QED
        BY <1>7, <4>1
    <3>2. CASE ~(n <= Len(l))
      <4>1. n = Len(l) + 1
        BY <1>11, <2>1, <3>2
      <4>2. lx[n] = x
        BY <1>9, <1>10, <1>11, <4>1
      <4>3. QED
        BY <4>2
    <3>3. QED
      BY <3>1, <3>2
  <2>3. QED
    BY <2>1, <2>2
<1> HIDE DEF lx
<1>13. /\ lx \o r \in Seq(S) /\ Len(lx \o r) = Len(lx) + Len(r)
       /\ \A n \in 1..(Len(lx) + Len(r)) :
            (lx \o r)[n] = IF n <= Len(lx) THEN lx[n] ELSE r[n - Len(lx)]
  <2>1. lx \in Seq(S) /\ r \in Seq(S)
    BY <1>6, <1>10
  <2>2. QED
    BY <2>1, ConcatProperties
<1>14. \A n \in DOMAIN (lx \o r) : Old((lx \o r)[n])
  <2> TAKE n \in DOMAIN (lx \o r)
  <2>1. n \in 1..(Len(lx) + Len(r)) /\ Len(lx) \in Nat
    BY <1>11, <1>12, <1>13
  <2>2. CASE n <= Len(lx)
    <3>1. n \in 1..Len(lx) /\ (lx \o r)[n] = lx[n]
      BY <1>13, <2>1, <2>2
    <3>2. QED
      BY <1>12, <3>1
  <2>3. CASE ~(n <= Len(lx))
    <3>1. n - Len(lx) \in 1..Len(r) /\ (lx \o r)[n] = r[n - Len(lx)]
      BY <1>11, <1>13, <2>1, <2>3
    <3>2. QED
      BY <1>8, <3>1
  <2>4. QED
    BY <2>2, <2>3
<1>15. InsertedAt(s, i, x) = lx \o r
  BY DEF InsertedAt, lx, l, r
<1>16. QED
  BY <1>13, <1>14, <1>15

-----------------------------------------------------------------------------
LEMMA HeadFacts ==
    ASSUME Typed, capture \in Active, Collecting(capture), NEW i \in Heads
    PROVE  /\ i \in DOMAIN branch /\ Within(branch[i].at, capture.interval)
           /\ i \in capture.seen
           /\ branch[i].change \in Changes /\ branch[i].at \in Time
           /\ branch[i].how \in {"push", "pr_merge"}
BY BranchFacts DEF Heads, Collecting

\* The interval a capture observed begins where its interval or retention does.
LEMMA ObservedFacts ==
    ASSUME Typed, capture \in Active, Collecting(capture)
    PROVE  /\ ObservedScope \in Scope \cup {NoScope}
           /\ ObservedScope # NoScope =>
                /\ ObservedScope.interval.until = capture.interval.until
                /\ ObservedScope.interval.from >= capture.interval.from
                /\ ObservedScope.interval.from \in Nat
<1>1. /\ capture.interval \in Interval /\ capture.interval.from \in Nat
      /\ capture.interval.until \in Nat /\ capture.capturedAt \in Time
      /\ capture.interval.from \in Time /\ capture.interval.until \in Time
      /\ capture.resource \in Propositions /\ Branch \in Branches
      /\ Retention \in Nat /\ MaxTime \in Nat /\ Time = 0..MaxTime
  BY ActiveFacts, TimeFacts, ReviewClaimAssumption, ReviewHistoryAssumption
     DEF Resources, Interval
<1> DEFINE from == Larger(capture.interval.from, RetainedFrom)
<1>2. from \in Time /\ from >= capture.interval.from /\ from \in Nat
  BY <1>1 DEF Larger, RetainedFrom
<1> DEFINE scope == [proposition |-> capture.resource, branch |-> Branch,
                     interval |-> [from |-> from, until |-> capture.interval.until]]
<1>3. ObservedScope = NoScope \/ ObservedScope = scope
  BY DEF ObservedScope, ScopeOf
<1> HIDE DEF from
<1>4. /\ scope \in Scope /\ scope.interval.from = from
      /\ scope.interval.until = capture.interval.until
  BY <1>1, <1>2 DEF Scope, Interval
<1> HIDE DEF scope
<1>5. QED
  BY <1>2, <1>3, <1>4

LEMMA RunTyped ==
    ASSUME Typed, capture \in Active, Collecting(capture)
    PROVE  RunOf(capture.pc) \in Run
<1>1. capture.resource \in Propositions /\ capture.capturedAt \in Time
  BY ActiveFacts, ReviewClaimAssumption DEF Resources
<1>2. CaptureOutcome \in Outcomes
  BY DEF CaptureOutcome, Outcomes, Unavailable
<1>3. ObservedScope \in Scope \cup {NoScope}
  BY ObservedFacts
<1> DEFINE terminal == capture.pc = "exhausted"
           more == capture.pc = "truncated"
           authority == IF capture.pc = "failed" THEN {} ELSE {capture.resource}
<1>4. terminal \in BOOLEAN /\ more \in BOOLEAN /\ authority \in SUBSET Propositions
  BY <1>1
<1>5. RunOf(capture.pc) =
        [subject |-> Repository, proposition |-> capture.resource,
         branch |-> Branch, authority |-> authority, outcome |-> CaptureOutcome,
         terminalPageReached |-> terminal, nextTokenPresent |-> more,
         observed |-> ObservedScope,
         startedAt |-> capture.capturedAt, completedAt |-> capture.capturedAt,
         malformed |-> {}]
  BY DEF RunOf
<1> HIDE DEF terminal, more, authority
<1>6. QED
  BY <1>1, <1>2, <1>3, <1>4, <1>5, ReviewClaimAssumption DEF Run

LEMMA EventsTrue ==
    ASSUME Typed, capture \in Active, Collecting(capture), NEW e \in NormalizedMutations
    PROVE  /\ e \in MutationEvent /\ EventTrue(e)
           /\ e.kind = "pull_request_merge" /\ capture.associated => e.pull = e.id
<1>1. PICK i \in Heads :
        e = [id |-> branch[i].change, kind |-> RecordedKind(branch[i].how),
             at |-> branch[i].at,
             pull |-> IF branch[i].how = "pr_merge" /\ capture.associated
                      THEN branch[i].change ELSE NoPull]
  BY DEF NormalizedMutations
<1>2. /\ i \in DOMAIN branch /\ branch[i].change \in Changes /\ branch[i].at \in Time
      /\ branch[i].how \in {"push", "pr_merge"}
  BY HeadFacts
<1>3. RecordedKind(branch[i].how) \in IntegrationKinds
  BY DEF RecordedKind, IntegrationKinds
<1>4. /\ e.id = branch[i].change /\ e.kind = RecordedKind(branch[i].how)
      /\ e.at = branch[i].at
      /\ e.pull = IF branch[i].how = "pr_merge" /\ capture.associated
                  THEN branch[i].change ELSE NoPull
      /\ e \in MutationEvent
  BY <1>1, <1>2, <1>3 DEF MutationEvent
<1>5. e.kind = "pull_request_merge" <=> branch[i].how = "pr_merge"
  BY <1>2, <1>4 DEF RecordedKind
<1>6. e.kind = "pull_request_merge" /\ capture.associated => e.pull = e.id
  BY <1>4, <1>5
<1>7. e.pull = NoPull \/ (e.kind = "pull_request_merge" /\ e.pull = e.id)
  BY <1>4, <1>5
<1>8. EventTrue(e)
  BY <1>2, <1>4, <1>7 DEF EventTrue
<1>9. QED
  BY <1>4, <1>6, <1>8

LEMMA PullsTrue ==
    ASSUME Typed, capture \in Active, Collecting(capture), NEW p \in NormalizedReviews
    PROVE  p \in PullRequest /\ PullTrue(p)
<1>1. PICK i \in Heads :
        /\ branch[i].how = "pr_merge"
        /\ p = [number |-> branch[i].change, author |-> Author,
                mergedAt |-> branch[i].at,
                approvals |-> capture.fetched[branch[i].change],
                complete |-> ReviewsComplete(branch[i].change)]
  BY DEF NormalizedReviews
<1>2. i \in DOMAIN branch /\ branch[i].change \in Changes /\ branch[i].at \in Time
  BY HeadFacts
<1>3. capture.fetched[branch[i].change] \subseteq ReviewRecord
  BY <1>2, ActiveFacts
<1>4. /\ p.number = branch[i].change /\ p.author = Author /\ p.mergedAt = branch[i].at
      /\ p.approvals = capture.fetched[branch[i].change]
      /\ p.complete = (branch[i].change \in capture.finished)
      /\ p \in PullRequest
  BY <1>1, <1>2, <1>3, ReviewHistoryAssumption DEF PullRequest, ReviewsComplete
<1>5. \A r \in p.approvals : Stands(r, p.number)
  BY <1>2, <1>4 DEF Collecting
<1>6. p.complete => Answered(p.approvals, p.number)
  BY <1>2, <1>4 DEF Collecting
<1>7. QED
  BY <1>1, <1>2, <1>4, <1>5, <1>6 DEF PullTrue

LEMMA CapturedFacts ==
    ASSUME Typed, capture \in Active, Collecting(capture),
           capture.pc \in {"exhausted", "truncated", "failed"}
    PROVE  Captured \in Capture /\ Truthful(Captured)
<1> DEFINE kept(records) == IF capture.pc = "failed" THEN {} ELSE records
           events == IF capture.resource = Mutations
                     THEN kept(NormalizedMutations) ELSE {}
           pulls == IF capture.resource = Reviews
                    THEN kept(NormalizedReviews) ELSE {}
           run == RunOf(capture.pc)
<1>1. PICK x : x = Captured
  OBVIOUS
<1>2. x = [run |-> run, events |-> events, pulls |-> pulls]
  BY <1>1 DEF Captured
<1>3. /\ run.proposition = capture.resource /\ run.outcome = CaptureOutcome
      /\ run.terminalPageReached = (capture.pc = "exhausted")
      /\ run.observed = ObservedScope /\ run \in Run
  BY RunTyped DEF RunOf
<1>4. events \subseteq NormalizedMutations /\ pulls \subseteq NormalizedReviews
  OBVIOUS
<1>5. events # {} => capture.resource = Mutations /\ capture.pc # "failed"
  OBVIOUS
<1>6. capture.pc = "exhausted" =>
        /\ capture.resource = Mutations => events = NormalizedMutations
        /\ capture.resource = Reviews => pulls = NormalizedReviews
  OBVIOUS
<1> HIDE DEF events, pulls, run
<1>7. x.run = run /\ x.events = events /\ x.pulls = pulls
  BY <1>2
<1>8. x \in Capture
  <2>1. events \in SUBSET MutationEvent
    BY <1>4, EventsTrue
  <2>2. pulls \in SUBSET PullRequest
    BY <1>4, PullsTrue
  <2>3. QED
    BY <1>2, <1>3, <2>1, <2>2 DEF Capture
<1>9. x.run.observed # NoScope => x.run.observed.interval.until <= now
  <2>1. /\ capture.interval.until <= capture.capturedAt /\ capture.capturedAt <= now
        /\ capture.interval.until \in Nat /\ capture.capturedAt \in Nat /\ now \in Nat
    BY ActiveFacts, BranchFacts DEF Collecting
  <2>2. QED
    BY <1>3, <1>7, <2>1, ObservedFacts
<1>10. ASSUME NEW e \in x.events
       PROVE  /\ EventTrue(e) /\ x.run.proposition = Mutations
              /\ e.kind = "pull_request_merge" /\ x.run.outcome # "Partial" => e.pull = e.id
  <2>1. e \in NormalizedMutations /\ capture.resource = Mutations /\ capture.pc # "failed"
    BY <1>4, <1>5, <1>7, <1>10
  <2>2. x.run.outcome # "Partial" => capture.associated
    BY <1>3, <1>7, <2>1 DEF CaptureOutcome, Collecting
  <2>3. QED
    BY <1>3, <1>7, <2>1, <2>2, EventsTrue
<1>11. \A p \in x.pulls : PullTrue(p)
  BY <1>4, <1>7, PullsTrue
<1>12. Exhaustive(x)
  <2> SUFFICES ASSUME x.run.terminalPageReached, x.run.observed # NoScope,
                      NEW j \in DOMAIN branch,
                      Within(branch[j].at, x.run.observed.interval),
                      branch[j].at >= now - Retention
               PROVE  /\ x.run.proposition = Mutations =>
                            \E e \in x.events : e.id = branch[j].change
                      /\ x.run.proposition = Reviews /\ branch[j].how = "pr_merge" =>
                            \E p \in x.pulls : p.number = branch[j].change /\ p.complete
    BY DEF Exhaustive
  <2>1. capture.pc = "exhausted" /\ capture.associated
    BY <1>3, <1>7 DEF Collecting
  <2>2. Within(branch[j].at, capture.interval)
    <3>1. branch[j].at \in Nat /\ capture.interval.from \in Nat
      BY BranchFacts, ActiveFacts
    <3>2. QED
      BY <1>3, <1>7, <3>1, ObservedFacts DEF Within
  <2>3. j \in capture.seen
    BY <2>1, <2>2 DEF Collecting, Within
  <2>4. j \in Heads
    BY <2>2, <2>3 DEF Heads
  <2>5. ASSUME capture.resource = Mutations
        PROVE  \E e \in x.events : e.id = branch[j].change
    <3> DEFINE e == [id |-> branch[j].change, kind |-> RecordedKind(branch[j].how),
                     at |-> branch[j].at,
                     pull |-> IF branch[j].how = "pr_merge" /\ capture.associated
                              THEN branch[j].change ELSE NoPull]
    <3>1. e \in NormalizedMutations
      BY <2>4 DEF NormalizedMutations
    <3>2. e \in x.events /\ e.id = branch[j].change
      BY <1>6, <1>7, <2>1, <2>5, <3>1
    <3> HIDE DEF e
    <3>3. QED
      BY <3>2
  <2>6. ASSUME capture.resource = Reviews, branch[j].how = "pr_merge"
        PROVE  \E p \in x.pulls : p.number = branch[j].change /\ p.complete
    <3> DEFINE p == [number |-> branch[j].change, author |-> Author,
                     mergedAt |-> branch[j].at,
                     approvals |-> capture.fetched[branch[j].change],
                     complete |-> ReviewsComplete(branch[j].change)]
    <3>1. p \in NormalizedReviews
      BY <2>1, <2>4, <2>6 DEF NormalizedReviews
    <3>2. branch[j].change \in capture.finished
      BY <2>1, <2>2, <2>3, <2>6 DEF Collecting
    <3>3. p \in x.pulls /\ p.number = branch[j].change /\ p.complete
      BY <1>6, <1>7, <2>1, <2>6, <3>1, <3>2 DEF ReviewsComplete
    <3> HIDE DEF p
    <3>4. QED
      BY <3>3
  <2>7. QED
    BY <1>3, <1>7, <2>5, <2>6
<1>13. Truthful(x)
  BY <1>9, <1>10, <1>11, <1>12 DEF Truthful
<1>14. QED
  BY <1>1, <1>8, <1>13

LEMMA RetainInv ==
    ASSUME IInv, Retain
    PROVE  IInv'
<1>1. capture \in Active /\ Collecting(capture) /\ Typed /\ Provided
  BY AtRequest DEF Retain
<1>2. PICK x : x = Captured
  OBVIOUS
<1>3. x \in Capture /\ Truthful(x)
  BY <1>1, <1>2, CapturedFacts DEF Retain
<1>4. PICK i \in 1..(Len(corpus) + 1) : corpus' = InsertedAt(corpus, i, x)
  BY <1>2 DEF Retain
<1>5. capture' = Idle /\ UNCHANGED provider
  BY DEF Retain
<1>6. corpus \in Seq(Capture)
  BY <1>1 DEF Typed
<1>7. /\ corpus' \in Seq(Capture)
      /\ \A j \in DOMAIN corpus' : corpus'[j] = x \/ \E l \in DOMAIN corpus : corpus'[j] = corpus[l]
  BY <1>3, <1>4, <1>6, InsertedFacts
<1>8. Preserved /\ Provided'
  BY <1>1, <1>5, ProviderStays, ProvidedStays
<1>9. Typed'
  BY <1>5, <1>7, <1>8 DEF Typed, Preserved
<1>10. \A y \in Retained : y \in Capture /\ Truthful(y)
  BY <1>6 DEF IInv, Retained
<1>11. \A y \in Retained' : y = x \/ y \in Retained
  BY <1>7 DEF Retained
<1>12. \A y \in Retained' : Truthful(y)'
  BY <1>1, <1>3, <1>8, <1>10, <1>11, TruthfulKept
<1>13. QED
  BY <1>5, <1>8, <1>9, <1>12 DEF IInv

LEMMA InitInv == Init => IInv
<1> SUFFICES ASSUME Init PROVE IInv
  OBVIOUS
<1>1. /\ now = 0 /\ branch = <<>> /\ reviews = [c \in Changes |-> <<>>]
      /\ capture = Idle /\ corpus = <<>>
  BY DEF Init
<1>2. Typed
  BY <1>1, ReviewHistoryAssumption DEF Typed
<1>3. Provided /\ Retained = {}
  BY <1>1 DEF Provided, Retained
<1>4. QED
  BY <1>1, <1>2, <1>3 DEF IInv

LEMMA StepInv ==
    ASSUME IInv, [Next]_vars
    PROVE  IInv'
<1>1. CASE UNCHANGED vars
  <2>1. Typed /\ Provided /\ UNCHANGED provider
    BY <1>1 DEF IInv, vars, provider
  <2>2. Preserved /\ Provided' /\ UNCHANGED <<capture, corpus>>
    BY <1>1, <2>1, ProviderStays, ProvidedStays DEF vars
  <2>3. QED
    BY <2>2, ProviderStep
<1>2. CASE Next
  BY <1>2, TickInv, ApproveInv, DismissInv, IntegrateInv, NextPullInv, BeginInv,
     FetchActivityInv, FetchAssociationsInv, FetchReviewsInv, ReviewsReadInv,
     RequestFailsInv, RetainInv DEF Next
<1>3. QED
  BY <1>1, <1>2

THEOREM Invariant == Spec => []IInv
BY InitInv, StepInv, PTL DEF Spec

-----------------------------------------------------------------------------
(***************************************************************************)
(* What the records of a true corpus say.                                  *)
(***************************************************************************)
LEMMA CorpusFacts ==
    ASSUME IInv, NEW i \in DOMAIN corpus
    PROVE  /\ corpus[i] \in Capture /\ Truthful(corpus[i]) /\ i \in Nat
           /\ corpus[i].events \subseteq MutationEvent
           /\ corpus[i].pulls \subseteq PullRequest
           /\ corpus[i].run \in Run
<1>1. corpus \in Seq(Capture)
  BY DEF IInv, Typed
<1>2. corpus[i] \in Capture /\ i \in Nat
  BY <1>1
<1>3. Truthful(corpus[i])
  BY DEF IInv, Retained
<1>4. QED
  BY <1>2, <1>3 DEF Capture

LEMMA TargetFacts ==
    ASSUME Typed, NEW target \in Targets
    PROVE  /\ target.from \in Nat /\ target.until \in Nat /\ target.from < target.until
           /\ target.until <= now
BY BranchFacts DEF Targets

-----------------------------------------------------------------------------
\* A record of an integration or of a pull request is of the one it names.
LEMMA EventOf ==
    ASSUME IInv, NEW e, EventTrue(e), NEW j \in DOMAIN branch, e.id = branch[j].change
    PROVE  e.at = branch[j].at /\ e.kind = RecordedKind(branch[j].how)
BY DEF IInv, Provided, EventTrue

LEMMA PullOf ==
    ASSUME IInv, NEW p, PullTrue(p), NEW j \in DOMAIN branch, p.number = branch[j].change
    PROVE  /\ branch[j].how = "pr_merge" /\ p.mergedAt = branch[j].at /\ p.author = Author
           /\ \A r \in p.approvals : Stands(r, p.number)
           /\ p.complete => Answered(p.approvals, p.number)
BY DEF IInv, Provided, PullTrue

LEMMA KindFacts ==
    ASSUME Typed, NEW j \in DOMAIN branch
    PROVE  /\ RecordedKind(branch[j].how) = "direct_push" <=> branch[j].how = "push"
           /\ RecordedKind(branch[j].how) = "pull_request_merge"
                <=> branch[j].how = "pr_merge"
BY BranchFacts DEF RecordedKind

\* `judge_review` on a true record: an approval it counts was one, and a complete
\* record without any means that there was none.
LEMMA JudgedTrue ==
    ASSUME IInv, NEW target, NEW j \in DOMAIN branch,
           NEW e, EventTrue(e), e.id = branch[j].change,
           NEW p, PullTrue(p), p.number = branch[j].change
    PROVE  /\ Judge(target, e, p) = "Reviewed" => branch[j].reviewed
           /\ Judge(target, e, p) = "Unreviewed" => ~branch[j].reviewed
<1> DEFINE c == branch[j].change
<1>1. /\ e.at = branch[j].at /\ branch[j].how = "pr_merge" /\ p.author = Author
      /\ \A r \in p.approvals : Stands(r, c)
      /\ p.complete => Answered(p.approvals, c)
  BY EventOf, PullOf
<1>2. Typed /\ Provided
  BY DEF IInv
<1>3. c \in Changes /\ branch[j].at \in Nat
  BY <1>2, BranchFacts
<1>4. ASSUME Judge(target, e, p) = "Reviewed" PROVE branch[j].reviewed
  <2>1. PICK a \in p.approvals : a.actor # Author /\ a.at < branch[j].at
    BY <1>1, <1>4 DEF Judge, ApprovedBefore
  <2>2. PICK k \in DOMAIN reviews[c] : Tells(a, c, k)
    BY <1>1, <2>1 DEF Stands
  <2>3. reviews[c][k].actor # Author /\ reviews[c][k].at < branch[j].at
    BY <2>1, <2>2 DEF Tells
  <2>4. QED
    BY <1>1, <1>2, <2>3 DEF Provided, Remembered
<1>5. ASSUME Judge(target, e, p) = "Unreviewed" PROVE ~branch[j].reviewed
  <2>1. p.complete /\ ~ApprovedBefore(e, p) /\ ~Unsettled(e, p)
    BY <1>5 DEF Judge
  <2>2. SUFFICES ASSUME branch[j].reviewed PROVE FALSE
    OBVIOUS
  <2>3. PICK a \in p.approvals : a.actor # Author /\ a.at <= branch[j].at
    BY <1>1, <2>1, <2>2 DEF Answered
  <2>4. a.state = "approved" /\ a.at # branch[j].at
    BY <1>1, <2>1, <2>3 DEF Unsettled
  <2>5. PICK k \in DOMAIN reviews[c] : Tells(a, c, k)
    BY <1>1, <2>3 DEF Stands
  <2>6. a.at \in Nat
    BY <1>2, <1>3, <2>5, ReviewFacts DEF Tells
  <2>7. a.at < branch[j].at
    BY <1>3, <2>3, <2>4, <2>6
  <2>8. QED
    BY <1>1, <2>1, <2>3, <2>4, <2>7 DEF ApprovedBefore
<1>6. QED
  BY <1>4, <1>5

\* `agreed_review` decides only what some record says.
LEMMA VerdictsSaid ==
    ASSUME NEW target, NEW e, NEW records, NEW v \in {"Reviewed", "Unreviewed"},
           v \in Verdicts(target, e, records)
    PROVE  \E p \in records : Judge(target, e, p) = v
<1> DEFINE judged == {Judge(target, e, p) : p \in records}
<1>1. v \in judged
  <2>1. CASE \E p \in records : p.complete
    BY <2>1 DEF Verdicts
  <2>2. CASE ~\E p \in records : p.complete
    <3>1. v \in {IF w = "Undecided" THEN "Inconclusive" ELSE w : w \in judged}
      BY <2>2 DEF Verdicts
    <3> HIDE DEF judged
    <3>2. PICK w \in judged : v = IF w = "Undecided" THEN "Inconclusive" ELSE w
      BY <3>1
    <3>3. QED
      BY <3>2
  <2>3. QED
    BY <2>1, <2>2
<1>2. QED
  BY <1>1

-----------------------------------------------------------------------------
\* The records of a target, and that one of each integration is kept.
LEMMA RecordFacts ==
    ASSUME IInv, NEW target, NEW at, NEW r \in MutationRecords(corpus, target, at)
    PROVE  /\ r = <<r[1], r[2]>>
           /\ r[1] \in Authoritative(corpus, Mutations, target, at)
           /\ r[1] \in DOMAIN corpus /\ r[1] \in Nat
           /\ r[2] \in corpus[r[1]].events /\ r[2] \in MutationEvent
           /\ Within(r[2].at, target) /\ EventTrue(r[2])
<1>1. PICK i \in Authoritative(corpus, Mutations, target, at) :
        \E e \in corpus[i].events : Within(e.at, target) /\ r = <<i, e>>
  BY DEF MutationRecords
<1>2. PICK e \in corpus[i].events : Within(e.at, target) /\ r = <<i, e>>
  BY <1>1
<1>3. r[1] = i /\ r[2] = e /\ i \in DOMAIN corpus
  BY <1>1, <1>2 DEF Authoritative
<1>4. Truthful(corpus[i]) /\ i \in Nat /\ corpus[i].events \subseteq MutationEvent
  BY <1>3, CorpusFacts
<1>5. EventTrue(e)
  BY <1>2, <1>4 DEF Truthful
<1>6. QED
  BY <1>1, <1>2, <1>3, <1>4, <1>5

LEMMA Recorded ==
    ASSUME NEW target, NEW at, NEW i \in Authoritative(corpus, Mutations, target, at),
           NEW e \in corpus[i].events, Within(e.at, target)
    PROVE  <<i, e>> \in MutationRecords(corpus, target, at)
BY DEF MutationRecords

LEMMA Smallest ==
    ASSUME NEW S, S \subseteq Nat, S # {}
    PROVE  \E j \in S : \A i \in S : j <= i
<1>1. PICK j \in S : \A i \in S : <<i, j>> \notin OpToRel(<, Nat)
  BY NatLessThanWellFounded, WFMin
<1>2. \A i \in S : ~(i < j)
  BY <1>1 DEF OpToRel
<1>3. QED
  BY <1>2

LEMMA OneKept ==
    ASSUME IInv, NEW target, NEW at, NEW r \in MutationRecords(corpus, target, at)
    PROVE  \E s \in MutationRecords(corpus, target, at) :
                s[2] \in Kept(MutationRecords(corpus, target, at)) /\ s[2].id = r[2].id
<1> DEFINE records == MutationRecords(corpus, target, at)
           places == {s[1] : s \in {o \in records : o[2].id = r[2].id}}
<1>1. places \subseteq Nat /\ places # {}
  BY RecordFacts
<1>2. PICK n \in places : \A i \in places : n <= i
  BY <1>1, Smallest
<1>3. PICK s \in records : s[2].id = r[2].id /\ s[1] = n
  BY <1>2
<1>4. \A other \in records : other[2].id = s[2].id => s[1] <= other[1]
  BY <1>2, <1>3
<1>5. s[2] \in Kept(records)
  BY <1>3, <1>4 DEF Kept
<1>6. QED
  BY <1>3, <1>5

LEMMA KeptFacts ==
    ASSUME IInv, NEW target, NEW at, NEW e \in Kept(MutationRecords(corpus, target, at))
    PROVE  \E r \in MutationRecords(corpus, target, at) : r[2] = e
BY DEF Kept

LEMMA PullRecordFacts ==
    ASSUME IInv, NEW number, NEW target, NEW at,
           NEW p \in PullRecords(corpus, number, target, at)
    PROVE  p.number = number /\ PullTrue(p)
<1>1. PICK i \in Authoritative(corpus, Reviews, target, at) :
        p \in corpus[i].pulls /\ p.number = number
  BY DEF PullRecords
<1>2. Truthful(corpus[i])
  BY <1>1, CorpusFacts DEF Authoritative
<1>3. QED
  BY <1>1, <1>2 DEF Truthful

-----------------------------------------------------------------------------
\* A run that establishes an instant is authoritative, and read to its end.
LEMMA EstablishedFacts ==
    ASSUME IInv, NEW target \in Targets, NEW at, NEW prop \in Resources,
           NEW t \in Nat, Within(t, target), NEW i \in DOMAIN corpus,
           corpus[i].run.completedAt <= at,
           Establishes(corpus[i].run, Needs(prop, target), t)
    PROVE  /\ i \in Authoritative(corpus, prop, target, at)
           /\ corpus[i].run.terminalPageReached /\ corpus[i].run.observed # NoScope
           /\ corpus[i].run.proposition = prop
           /\ Within(t, corpus[i].run.observed.interval)
<1> DEFINE run == corpus[i].run
           req == Needs(prop, target)
<1>1. PICK r, q : r = run /\ q = req
  OBVIOUS
<1>2. /\ Concerns(r, q) /\ q.proposition \in r.authority
      /\ r.outcome \in {"Complete", "RetentionLimited"}
      /\ r.terminalPageReached /\ ~r.nextTokenPresent
      /\ ObservedMatches(r, q) /\ Within(t, r.observed.interval)
  BY <1>1 DEF Establishes
<1>3. q.proposition = prop /\ q.interval = target
  BY <1>1 DEF Needs
<1>4. r.observed # NoScope /\ r.proposition = prop
  BY <1>2, <1>3 DEF ObservedMatches, Concerns
<1>5. r.observed.interval.from \in Nat /\ r.observed.interval.until \in Nat
  BY <1>1, <1>4, CorpusFacts, TimeFacts DEF Run, Scope
<1>6. target.from \in Nat /\ target.until \in Nat
  BY TargetFacts DEF IInv
<1>7. Overlap(r, q) # {}
  <2> DEFINE common == [from |-> Larger(target.from, r.observed.interval.from),
                        until |-> Smaller(target.until, r.observed.interval.until)]
  <2>1. common.from < common.until
    BY <1>2, <1>5, <1>6 DEF Within, Larger, Smaller
  <2>2. common \in Intersection(target, r.observed.interval)
    BY <2>1 DEF Intersection
  <2> HIDE DEF common
  <2>3. QED
    BY <1>2, <1>3, <2>2 DEF Overlap
<1>8. Disposition(r, q) \in {"Used", "RetentionLimited"}
  <2>1. r.outcome \notin Unavailable /\ r.outcome # "Partial"
    BY <1>2 DEF Unavailable
  <2>2. QED
    BY <1>2, <1>7, <2>1 DEF Disposition
<1>9. i \in Authoritative(corpus, prop, target, at)
  BY <1>1, <1>2, <1>8 DEF Authoritative
<1>10. QED
  BY <1>1, <1>2, <1>4, <1>9

\* What a covered target has records of: every integration that the provider still
\* has and, of each merge, the reviews as they were once.
LEMMA EventCovered ==
    ASSUME IInv, NEW target \in Targets, NEW at, Covers(corpus, Mutations, target, at),
           NEW j \in DOMAIN branch, Within(branch[j].at, target),
           branch[j].at >= now - Retention
    PROVE  \E r \in MutationRecords(corpus, target, at) : r[2].id = branch[j].change
<1>1. branch[j].at \in Time /\ branch[j].at \in Nat
  BY BranchFacts DEF IInv
<1>2. PICK i \in DOMAIN corpus :
        /\ corpus[i].run.completedAt <= at
        /\ Establishes(corpus[i].run, Needs(Mutations, target), branch[j].at)
  BY <1>1 DEF Covers
<1>3. /\ i \in Authoritative(corpus, Mutations, target, at)
      /\ corpus[i].run.terminalPageReached /\ corpus[i].run.observed # NoScope
      /\ corpus[i].run.proposition = Mutations
      /\ Within(branch[j].at, corpus[i].run.observed.interval)
  BY <1>1, <1>2, EstablishedFacts DEF Resources
<1>4. Truthful(corpus[i])
  BY CorpusFacts
<1>5. PICK e \in corpus[i].events : e.id = branch[j].change
  BY <1>3, <1>4 DEF Truthful, Exhaustive
<1>6. e.at = branch[j].at
  BY <1>4, <1>5, EventOf DEF Truthful
<1>7. <<i, e>> \in MutationRecords(corpus, target, at)
  BY <1>3, <1>6, Recorded
<1>8. QED
  BY <1>5, <1>7

LEMMA PullCovered ==
    ASSUME IInv, NEW target \in Targets, NEW at, Covers(corpus, Reviews, target, at),
           NEW j \in DOMAIN branch, Within(branch[j].at, target),
           branch[j].at >= now - Retention, branch[j].how = "pr_merge"
    PROVE  \E p \in PullRecords(corpus, branch[j].change, target, at) : p.complete
<1>1. branch[j].at \in Time /\ branch[j].at \in Nat
  BY BranchFacts DEF IInv
<1>2. PICK i \in DOMAIN corpus :
        /\ corpus[i].run.completedAt <= at
        /\ Establishes(corpus[i].run, Needs(Reviews, target), branch[j].at)
  BY <1>1 DEF Covers
<1>3. /\ i \in Authoritative(corpus, Reviews, target, at)
      /\ corpus[i].run.terminalPageReached /\ corpus[i].run.observed # NoScope
      /\ corpus[i].run.proposition = Reviews
      /\ Within(branch[j].at, corpus[i].run.observed.interval)
  BY <1>1, <1>2, EstablishedFacts DEF Resources
<1>4. PICK p \in corpus[i].pulls : p.number = branch[j].change /\ p.complete
  BY <1>3, CorpusFacts DEF Truthful, Exhaustive
<1>5. QED
  BY <1>3, <1>4 DEF PullRecords

-----------------------------------------------------------------------------
(***************************************************************************)
(* The claim.                                                              *)
(***************************************************************************)
\* What a contradiction names was integrated into the target without a review.
LEMMA ContradictionTrue ==
    ASSUME IInv, NEW target, NEW at, NEW e \in Contradictions(corpus, target, at)
    PROVE  \E j \in DOMAIN branch : Within(branch[j].at, target) /\ ~branch[j].reviewed
<1>1. e \in Kept(MutationRecords(corpus, target, at))
  BY DEF Contradictions, DirectPushes, Merges
<1>2. PICK r \in MutationRecords(corpus, target, at) : r[2] = e
  BY <1>1, KeptFacts
<1>3. Within(e.at, target) /\ EventTrue(e) /\ e \in MutationEvent
  BY <1>2, RecordFacts
<1>4. PICK j \in DOMAIN branch :
        /\ e.id = branch[j].change /\ e.at = branch[j].at
        /\ e.kind = RecordedKind(branch[j].how)
        /\ e.pull = NoPull \/ (e.kind = "pull_request_merge" /\ e.pull = e.id)
  BY <1>3 DEF EventTrue
<1>5. CASE e.kind = "direct_push"
  <2>1. branch[j].how = "push"
    BY <1>4, <1>5, KindFacts DEF IInv
  <2>2. ~branch[j].reviewed
    BY <2>1 DEF IInv, Provided, Remembered
  <2>3. QED
    BY <1>3, <1>4, <2>2
<1>6. CASE MergeVerdicts(corpus, e, target, at) = {"Unreviewed"}
  <2>1. e.pull = e.id /\ "Unreviewed" \in
            Verdicts(target, e, PullRecords(corpus, e.pull, target, at))
    BY <1>4, <1>6 DEF MergeVerdicts
  <2>2. PICK p \in PullRecords(corpus, e.pull, target, at) :
            Judge(target, e, p) = "Unreviewed"
    BY <2>1, VerdictsSaid
  <2>3. p.number = branch[j].change /\ PullTrue(p)
    BY <1>4, <2>1, PullRecordFacts
  <2>4. ~branch[j].reviewed
    BY <1>3, <1>4, <2>2, <2>3, JudgedTrue
  <2>5. QED
    BY <1>3, <1>4, <2>4
<1>7. QED
  BY <1>5, <1>6 DEF Contradictions, DirectPushes

\* Without contradiction and gap, every integration recorded was reviewed.
LEMMA SettledReviewed ==
    ASSUME IInv, NEW target, NEW at,
           Contradictions(corpus, target, at) = {}, ~HasGap(corpus, target, at),
           NEW j \in DOMAIN branch,
           NEW r \in MutationRecords(corpus, target, at), r[2].id = branch[j].change
    PROVE  branch[j].reviewed
<1>1. PICK s \in MutationRecords(corpus, target, at) :
        s[2] \in Kept(MutationRecords(corpus, target, at)) /\ s[2].id = branch[j].change
  BY OneKept
<1>2. PICK e : e = s[2]
  OBVIOUS
<1>3. /\ e \in Kept(MutationRecords(corpus, target, at)) /\ e.id = branch[j].change
      /\ EventTrue(e) /\ e \in MutationEvent
  BY <1>1, <1>2, RecordFacts
<1>4. e.kind \in {"direct_push", "pull_request_merge"}
  BY <1>3 DEF MutationEvent, IntegrationKinds
<1>5. e.kind # "direct_push"
  BY <1>3 DEF Contradictions, DirectPushes
<1>6. e \in Merges(corpus, target, at)
  BY <1>3, <1>4, <1>5 DEF Merges
<1>7. MergeVerdicts(corpus, e, target, at) = {"Reviewed"}
  <2>1. MergeVerdicts(corpus, e, target, at) # {"Unreviewed"}
    BY <1>6 DEF Contradictions
  <2>2. QED
    BY <1>6, <2>1 DEF HasGap
<1>8. e.pull = e.id /\ "Reviewed" \in
        Verdicts(target, e, PullRecords(corpus, e.pull, target, at))
  BY <1>3, <1>7 DEF MergeVerdicts, EventTrue
<1>9. PICK p \in PullRecords(corpus, e.pull, target, at) : Judge(target, e, p) = "Reviewed"
  BY <1>8, VerdictsSaid
<1>10. p.number = branch[j].change /\ PullTrue(p)
  BY <1>3, <1>8, <1>9, PullRecordFacts
<1>11. QED
  BY <1>3, <1>9, <1>10, JudgedTrue

\* Invariant AnswersSound (evaluate_every_main_change_reviewed, and all that
\* brought about what it read): an answer is true of the branch.
THEOREM Sound == Spec => []AnswersSound
<1>1. IInv => AnswersSound
  <2> SUFFICES ASSUME IInv, NEW target \in Targets, NEW at \in 0..now
               PROVE  /\ Verdict(corpus, target, at) = "Supported"
                           /\ target.from >= now - Retention =>
                            \A e \in IntegratedIn(target) : e.reviewed
                      /\ Verdict(corpus, target, at) = "Contradicted" =>
                            ~\A e \in IntegratedIn(target) : e.reviewed
    BY DEF AnswersSound
  <2>1. ASSUME Verdict(corpus, target, at) = "Supported", target.from >= now - Retention,
               NEW j \in DOMAIN branch, Within(branch[j].at, target)
        PROVE  branch[j].reviewed
    <3>1. /\ Contradictions(corpus, target, at) = {} /\ ~HasGap(corpus, target, at)
          /\ Covers(corpus, Mutations, target, at)
      BY <2>1 DEF Verdict
    <3>2. branch[j].at >= now - Retention
      <4>1. branch[j].at \in Nat /\ target.from \in Nat /\ now \in Nat /\ Retention \in Nat
        BY BranchFacts, TargetFacts, TimeFacts DEF IInv
      <4>2. QED
        BY <2>1, <4>1 DEF Within
    <3>3. PICK r \in MutationRecords(corpus, target, at) : r[2].id = branch[j].change
      BY <2>1, <3>1, <3>2, EventCovered
    <3>4. QED
      BY <3>1, <3>3, SettledReviewed
  <2>2. ASSUME Verdict(corpus, target, at) = "Contradicted"
        PROVE  \E e \in IntegratedIn(target) : ~e.reviewed
    <3>1. Contradictions(corpus, target, at) # {}
      BY <2>2 DEF Verdict
    <3>2. PICK j \in DOMAIN branch : Within(branch[j].at, target) /\ ~branch[j].reviewed
      BY <3>1, ContradictionTrue
    <3>3. QED
      BY <3>2 DEF IntegratedIn
  <2>3. ASSUME Verdict(corpus, target, at) = "Supported", target.from >= now - Retention
        PROVE  \A e \in IntegratedIn(target) : e.reviewed
    BY <2>1, <2>3 DEF IntegratedIn
  <2>4. QED
    BY <2>2, <2>3
<1>2. QED
  BY <1>1, Invariant, PTL

\* Invariant DirectPushContradicts (collect_mutations): a recorded direct push
\* contradicts the claim, whichever record of it is used.
THEOREM Pushed == Spec => []DirectPushContradicts
<1>1. IInv => DirectPushContradicts
  <2> SUFFICES ASSUME IInv, NEW target \in Targets,
                      NEW i \in Authoritative(corpus, Mutations, target, now),
                      NEW e \in corpus[i].events,
                      e.kind = "direct_push", Within(e.at, target)
               PROVE  Verdict(corpus, target, now) = "Contradicted"
    BY DEF DirectPushContradicts
  <2> DEFINE records == MutationRecords(corpus, target, now)
  <2>1. PICK r : r = <<i, e>>
    OBVIOUS
  <2>2. r \in records /\ r[2] = e
    BY <2>1, Recorded
  <2>3. PICK s \in records : s[2] \in Kept(records) /\ s[2].id = e.id
    BY <2>2, OneKept
  <2>4. EventTrue(s[2]) /\ EventTrue(e)
    BY <2>2, <2>3, RecordFacts
  <2>5. PICK j \in DOMAIN branch : e.id = branch[j].change
    BY <2>4 DEF EventTrue
  <2>6. s[2].kind = e.kind
    BY <2>3, <2>4, <2>5, EventOf
  <2>7. s[2] \in DirectPushes(corpus, target, now)
    BY <2>3, <2>6 DEF DirectPushes
  <2>8. QED
    BY <2>7 DEF Contradictions, Verdict
<1>2. QED
  BY <1>1, Invariant, PTL

-----------------------------------------------------------------------------
\* With plain reviews a complete record decides, and an incomplete one agrees or
\* decides nothing.
LEMMA PlainJudged ==
    ASSUME IInv, NEW target \in Targets, ReviewsPlain(target),
           NEW j \in DOMAIN branch, Within(branch[j].at, target),
           NEW e, EventTrue(e), e.id = branch[j].change,
           NEW p, PullTrue(p), p.number = branch[j].change
    PROVE  /\ p.complete => Judge(target, e, p) =
                    IF branch[j].reviewed THEN "Reviewed" ELSE "Unreviewed"
           /\ ~p.complete => \/ Judge(target, e, p) = "Undecided"
                             \/ Judge(target, e, p) = "Reviewed" /\ branch[j].reviewed
<1> DEFINE c == branch[j].change
<1>1. /\ e.at = branch[j].at /\ p.mergedAt = branch[j].at
      /\ \A r \in p.approvals : Stands(r, c)
  BY EventOf, PullOf
<1>2. ~Unsettled(e, p)
  <2> SUFFICES ASSUME NEW a \in p.approvals
               PROVE  a.state = "approved" /\ a.at # branch[j].at
    BY <1>1 DEF Unsettled
  <2>1. PICK k \in DOMAIN reviews[c] : Tells(a, c, k)
    BY <1>1 DEF Stands
  <2>2. reviews[c][k].state = "approved" /\ reviews[c][k].at # branch[j].at
    BY DEF ReviewsPlain
  <2>3. QED
    BY <2>1, <2>2 DEF Tells
<1>3. Judge(target, e, p) \in {"Reviewed", "Unreviewed", "Undecided"}
  BY <1>1, <1>2 DEF Judge
<1>4. /\ Judge(target, e, p) = "Reviewed" => branch[j].reviewed
      /\ Judge(target, e, p) = "Unreviewed" => ~branch[j].reviewed
  BY JudgedTrue
<1>5. /\ p.complete => Judge(target, e, p) # "Undecided"
      /\ ~p.complete => Judge(target, e, p) # "Unreviewed"
  BY DEF Judge
<1>6. QED
  BY <1>3, <1>4, <1>5

\* Records of one integration are the same when no run of them was cut short.
LEMMA Agreed ==
    ASSUME IInv, ~TruncatedMutations, NEW target, NEW at,
           NEW r \in MutationRecords(corpus, target, at)
    PROVE  \E j \in DOMAIN branch :
                r[2] = [id |-> branch[j].change, kind |-> RecordedKind(branch[j].how),
                        at |-> branch[j].at,
                        pull |-> IF branch[j].how = "pr_merge"
                                 THEN branch[j].change ELSE NoPull]
<1>1. PICK i, e : i = r[1] /\ e = r[2]
  OBVIOUS
<1>2. /\ i \in DOMAIN corpus /\ e \in corpus[i].events /\ e \in MutationEvent
      /\ EventTrue(e)
  BY <1>1, RecordFacts
<1>3. /\ corpus[i].run.proposition = Mutations
      /\ e.kind = "pull_request_merge" /\ corpus[i].run.outcome # "Partial" => e.pull = e.id
  BY <1>2, CorpusFacts DEF Truthful
<1>4. corpus[i].run.outcome # "Partial"
  BY <1>2, <1>3 DEF TruncatedMutations
<1>5. PICK j \in DOMAIN branch :
        /\ e.id = branch[j].change /\ e.at = branch[j].at
        /\ e.kind = RecordedKind(branch[j].how)
        /\ e.pull = NoPull \/ (e.kind = "pull_request_merge" /\ e.pull = e.id)
  BY <1>2 DEF EventTrue
<1>6. e.kind = "pull_request_merge" <=> branch[j].how = "pr_merge"
  BY <1>5, KindFacts DEF IInv
<1>7. e.pull = IF branch[j].how = "pr_merge" THEN branch[j].change ELSE NoPull
  BY <1>3, <1>4, <1>5, <1>6
<1>8. e = [id |-> e.id, kind |-> e.kind, at |-> e.at, pull |-> e.pull]
  BY <1>2 DEF MutationEvent
<1>9. QED
  BY <1>1, <1>5, <1>7, <1>8

\* Invariant ReviewGapHeals (agreed_review): once complete runs cover the target,
\* no truncated review record leaves the claim open.
THEOREM Heals == Spec => []ReviewGapHeals
<1>1. IInv => ReviewGapHeals
  <2> SUFFICES ASSUME IInv, NEW target \in Targets, target.from >= now - Retention,
                      FullyCollected(target), ReviewsPlain(target), ~TruncatedMutations,
                      Contradictions(corpus, target, now) = {}
               PROVE  ~HasGap(corpus, target, now)
    BY DEF ReviewGapHeals, Verdict, FullyCollected
  <2> DEFINE records == MutationRecords(corpus, target, now)
             Of(j) == [id |-> branch[j].change, kind |-> RecordedKind(branch[j].how),
                       at |-> branch[j].at,
                       pull |-> IF branch[j].how = "pr_merge"
                                THEN branch[j].change ELSE NoPull]
  <2>1. ~Disputed(records)
    <3> SUFFICES ASSUME NEW r \in records, NEW s \in records, r[2].id = s[2].id
                 PROVE  r[2] = s[2]
      BY DEF Disputed
    <3>1. PICK j \in DOMAIN branch : r[2] = Of(j)
      BY Agreed
    <3>2. PICK l \in DOMAIN branch : s[2] = Of(l)
      BY Agreed
    <3>3. branch[j].change = branch[l].change
      BY <3>1, <3>2
    <3>4. j = l
      BY <3>3 DEF IInv, Provided
    <3>5. QED
      BY <3>1, <3>2, <3>4
  <2>2. ASSUME NEW e \in Merges(corpus, target, now)
        PROVE  MergeVerdicts(corpus, e, target, now) \in {{"Reviewed"}, {"Unreviewed"}}
    <3>1. e \in Kept(records) /\ e.kind = "pull_request_merge"
      BY DEF Merges
    <3>2. PICK r \in records : r[2] = e
      BY <3>1, KeptFacts
    <3>3. EventTrue(e) /\ Within(e.at, target)
      BY <3>2, RecordFacts
    <3>4. PICK j \in DOMAIN branch : e = Of(j)
      BY <3>2, Agreed
    <3>5. /\ e.id = branch[j].change /\ e.at = branch[j].at
          /\ e.kind = RecordedKind(branch[j].how)
          /\ e.pull = IF branch[j].how = "pr_merge" THEN branch[j].change ELSE NoPull
      BY <3>4
    <3> HIDE DEF Of
    <3>6. branch[j].how = "pr_merge"
      BY <3>1, <3>5, KindFacts DEF IInv
    <3>7. branch[j].at >= now - Retention
      <4>1. branch[j].at \in Nat /\ target.from \in Nat /\ now \in Nat /\ Retention \in Nat
        BY BranchFacts, TargetFacts, TimeFacts DEF IInv
      <4>2. QED
        BY <3>3, <3>5, <4>1 DEF Within
    <3> DEFINE found == PullRecords(corpus, branch[j].change, target, now)
               v == IF branch[j].reviewed THEN "Reviewed" ELSE "Unreviewed"
    <3>8. PICK whole \in found : whole.complete
      BY <3>3, <3>5, <3>6, <3>7, PullCovered DEF FullyCollected
    <3>9. \A p \in found :
            /\ p.complete => Judge(target, e, p) = v
            /\ ~p.complete => Judge(target, e, p) \in {"Undecided", v}
      <4> TAKE p \in found
      <4>1. p.number = branch[j].change /\ PullTrue(p)
        BY PullRecordFacts
      <4>2. QED
        BY <3>3, <3>5, <4>1, PlainJudged
    <3>10. v \in {"Reviewed", "Unreviewed"} /\ v # "Undecided"
      OBVIOUS
    <3> HIDE DEF found, v
    <3>11. {Judge(target, e, p) : p \in found} \ {"Undecided"} = {v}
      BY <3>8, <3>9, <3>10
    <3>12. Verdicts(target, e, found) = {v}
      BY <3>8, <3>11 DEF Verdicts
    <3>13. e.pull = branch[j].change /\ e.pull # NoPull
      <4>1. branch[j].change \in Changes
        BY BranchFacts DEF IInv
      <4>2. QED
        BY <3>5, <3>6, <4>1, ReviewClaimAssumption
    <3>14. MergeVerdicts(corpus, e, target, now) = {v}
      BY <3>12, <3>13 DEF MergeVerdicts, found
    <3>15. QED
      BY <3>10, <3>14
  <2>3. QED
    BY <2>1, <2>2 DEF HasGap
<1>2. QED
  BY <1>1, Invariant, PTL

=============================================================================
