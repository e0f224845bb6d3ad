-------------------------- MODULE ReleaseReviewsProofs --------------------------
(***************************************************************************)
(* Proofs about the answers of `evaluate_release_reviews`, for every set of*)
(* pull requests, finite set of actors, set of counts, time and bounds.    *)
(*                                                                         *)
(* What a merge was is never undone by the provider (`Kept`), so what an   *)
(* export said about it when it was made is still true of it (`Shown`,     *)
(* `Told`, `Listed`).                                                      *)
(***************************************************************************)
EXTENDS ReleaseReviews, FiniteSetTheorems, WellFoundedInduction, TLAPS

-----------------------------------------------------------------------------
Event == [at : Time, required : Counts]
Approval == [actor : Actors, at : Time \cup {Unusable}, state : {"approved", "dismissed"}]
Pull == [mergedAt : Time \cup {Open}, approvals : SUBSET Approval]
Truth == [approvers : SUBSET Actors, required : Nat, changed : BOOLEAN]

Merged(p) == pulls[p].mergedAt # Open

Typed ==
    /\ now \in Time
    /\ policy \in Seq(Event) /\ policy # <<>>
    /\ pulls \in [Pulls -> Pull]
    /\ truth \in [Pulls -> Truth]
    /\ release \in [revision : Nat, members : SUBSET Pulls]
    /\ corpus = [k \in Kinds |-> corpus[k]]

\* Nothing is of a later time than now; the first event is of the beginning.
Timed ==
    /\ policy[1].at = 0
    /\ \A i \in DOMAIN policy : policy[i].at <= now
    /\ \A i, j \in DOMAIN policy : i <= j => policy[i].at <= policy[j].at
    /\ \A p \in Pulls :
        /\ pulls[p].mergedAt <= now
        /\ \A r \in pulls[p].approvals : r.at <= now

\* A record of a merged pull request: no approval in it from before the merge is
\* of one who did not approve then and, unless one was dismissed since, it has an
\* approval of everyone who did.
Shown(p, record) ==
    /\ Merged(p) /\ record.mergedAt = pulls[p].mergedAt
    /\ \A r \in record.approvals :
        r \in Approval /\ \E s \in pulls[p].approvals : s.actor = r.actor /\ s.at = r.at
    /\ \A r \in Approved(record) :
        r.at # Unusable /\ r.at < record.mergedAt => r.actor \in truth[p].approvers
    /\ ~truth[p].changed =>
        \A a \in truth[p].approvers : \E r \in Approved(record) :
            r.actor = a /\ (r.at = Unusable \/ r.at <= record.mergedAt)

\* The event in force at the merge: those after it are not earlier than the merge.
InForce(p) ==
    \E k \in DOMAIN policy :
        /\ truth[p].required = policy[k].required
        /\ \A i \in DOMAIN policy :
            /\ i <= k => policy[i].at <= pulls[p].mergedAt
            /\ k < i => pulls[p].mergedAt <= policy[i].at

\* A history has the events from its beginning on, but for some of its last instant.
Told(h) ==
    /\ h.at <= now /\ h.at \in Time /\ h.through = h.at /\ h.from \in Nat
    /\ DOMAIN h.events \subseteq DOMAIN policy
    /\ \A i \in DOMAIN h.events : h.events[i] = policy[i] /\ h.from <= policy[i].at
    /\ \A i \in DOMAIN policy :
        h.from <= policy[i].at /\ (i = 1 \/ policy[i].at < h.through) => i \in DOMAIN h.events

\* A membership lists merged pull requests, and the present one the release's.
Listed(m) ==
    /\ m.at \in Time /\ m.at <= now
    /\ m.members \subseteq Pulls /\ m.revision \in Nat /\ m.revision <= release.revision
    /\ \A p \in m.members : Merged(p)
    /\ m.revision = release.revision => m.members = release.members

Recorded(e) ==
    /\ e.at \in Time /\ e.at <= now
    /\ DOMAIN e.records \subseteq Pulls
    /\ \A p \in DOMAIN e.records : Shown(p, e.records[p])

IInv ==
    /\ Typed
    /\ Timed
    /\ \A p \in Pulls : Merged(p) => Shown(p, pulls[p]) /\ InForce(p)
    /\ \A p \in release.members : Merged(p)
    /\ \A h \in corpus["policy"] : Told(h)
    /\ \A m \in corpus["membership"] : Listed(m)
    /\ \A e \in corpus["reviews"] : Recorded(e)

-----------------------------------------------------------------------------
(***************************************************************************)
(* What a step keeps.                                                      *)
(***************************************************************************)

\* What is known of the merge of p stays, but for its approvals' states.
MergeKept(p) ==
    /\ pulls'[p].mergedAt = pulls[p].mergedAt
    /\ truth'[p].approvers = truth[p].approvers
    /\ truth'[p].required = truth[p].required
    /\ truth[p].changed => truth'[p].changed
    /\ \A r \in pulls[p].approvals :
        \E s \in pulls'[p].approvals : s.actor = r.actor /\ s.at = r.at

PolicyKept ==
    /\ DOMAIN policy \subseteq DOMAIN policy'
    /\ \A i \in DOMAIN policy : policy'[i] = policy[i]
    /\ \A i \in DOMAIN policy' :
        i \notin DOMAIN policy =>
            policy'[i].at = now /\ \A j \in DOMAIN policy : j < i

ReleaseKept ==
    /\ release.revision <= release'.revision
    /\ release'.revision = release.revision => release'.members = release.members

Kept ==
    /\ now <= now' /\ now' \in Time
    /\ PolicyKept
    /\ \A p \in Pulls : Merged(p) => MergeKept(p)
    /\ ReleaseKept

LEMMA TimeFacts == Time \subseteq Nat /\ Open = -1 /\ Unusable = -1 /\ 0 \in Time
BY ReleaseReviewsAssumption DEF Time, Open, Unusable

\* A policy that has one event more.
LEMMA PolicyGrows ==
    ASSUME NEW S, NEW s \in Seq(S), s # <<>>, NEW e \in S
    PROVE  /\ Append(s, e) \in Seq(S) /\ Append(s, e) # <<>>
           /\ DOMAIN Append(s, e) = 1..(Len(s) + 1) /\ DOMAIN s = 1..Len(s)
           /\ Len(s) \in Nat /\ 1 \in DOMAIN s
           /\ \A i \in DOMAIN s : Append(s, e)[i] = s[i]
           /\ Append(s, e)[Len(s) + 1] = e
OBVIOUS

LEMMA PolicyDomain ==
    ASSUME Typed
    PROVE  /\ Len(policy) \in Nat /\ DOMAIN policy = 1..Len(policy)
           /\ 1 \in DOMAIN policy /\ Len(policy) \in DOMAIN policy
           /\ \A i \in DOMAIN policy : policy[i] \in Event
BY DEF Typed

\* An approval, approved or dismissed.
LEMMA DismissedApproval ==
    ASSUME NEW r \in Approval
    PROVE  LET s == [r EXCEPT !.state = "dismissed"]
           IN  s \in Approval /\ s.actor = r.actor /\ s.at = r.at /\ s.state = "dismissed"
BY DEF Approval

\* The pull requests after one of them was approved, dismissed or merged.
LEMMA NewApprovals ==
    ASSUME Typed, NEW p \in Pulls, NEW A \in SUBSET Approval,
           pulls' = [pulls EXCEPT ![p].approvals = A]
    PROVE  /\ pulls' \in [Pulls -> Pull]
           /\ pulls'[p].approvals = A /\ pulls'[p].mergedAt = pulls[p].mergedAt
           /\ \A q \in Pulls : q # p => pulls'[q] = pulls[q]
BY DEF Typed, Pull

LEMMA NewMerge ==
    ASSUME Typed, NEW p \in Pulls, NEW t \in Time,
           pulls' = [pulls EXCEPT ![p].mergedAt = t]
    PROVE  /\ pulls' \in [Pulls -> Pull]
           /\ pulls'[p].approvals = pulls[p].approvals /\ pulls'[p].mergedAt = t
           /\ \A q \in Pulls : q # p => pulls'[q] = pulls[q]
BY DEF Typed, Pull

LEMMA NewChanged ==
    ASSUME Typed, NEW p \in Pulls, NEW b \in BOOLEAN,
           truth' = [truth EXCEPT ![p].changed = b]
    PROVE  /\ truth' \in [Pulls -> Truth]
           /\ truth'[p].approvers = truth[p].approvers
           /\ truth'[p].required = truth[p].required /\ truth'[p].changed = b
           /\ \A q \in Pulls : q # p => truth'[q] = truth[q]
BY DEF Typed, Truth

LEMMA NewTruth ==
    ASSUME Typed, NEW p \in Pulls, NEW t \in Truth, truth' = [truth EXCEPT ![p] = t]
    PROVE  /\ truth' \in [Pulls -> Truth] /\ truth'[p] = t
           /\ \A q \in Pulls : q # p => truth'[q] = truth[q]
BY DEF Typed

LEMMA NewExport ==
    ASSUME Typed, NEW k \in Kinds, NEW e, Import(k, e)
    PROVE  /\ UNCHANGED provider
           /\ corpus' = [j \in Kinds |-> corpus'[j]]
           /\ corpus'[k] = corpus[k] \cup {e}
           /\ \A j \in Kinds : j # k => corpus'[j] = corpus[j]
BY DEF Typed, Import

\* The kinds of a step.
Provides ==
    \/ Tick
    \/ \E n \in Counts : ChangePolicy(n)
    \/ \E p \in Pulls : \/ Merge(p)
                        \/ \E actor \in Actors, at \in {now, Unusable} : Approve(p, actor, at)
                        \/ \E r \in pulls[p].approvals : Dismiss(p, r)
    \/ Publish

Exports ==
    \/ ExportMembership
    \/ \E some \in SUBSET release.members : ExportReviews(some)
    \/ \E from \in 0..now : ExportPolicy(from)

LEMMA StepKinds ==
    ASSUME [Next]_vars
    PROVE  Provides \/ Exports \/ UNCHANGED <<provider, corpus>>
BY DEF Next, vars, Provides, Exports

\* A merge as it is at that moment, and how it is kept when its approvals change.
LEMMA ApproveKeeps ==
    ASSUME Typed, Timed, NEW p \in Pulls, NEW actor \in Actors, NEW at \in {now, Unusable},
           Approve(p, actor, at)
    PROVE  /\ Typed' /\ Timed' /\ Kept
           /\ \A q \in Pulls \ {p} : pulls'[q] = pulls[q] /\ truth'[q] = truth[q]
           /\ truth' = truth /\ pulls'[p].mergedAt = pulls[p].mergedAt
           /\ pulls'[p].approvals =
                pulls[p].approvals \cup {[actor |-> actor, at |-> at, state |-> "approved"]}
<1> DEFINE r == [actor |-> actor, at |-> at, state |-> "approved"]
           A == pulls[p].approvals \cup {r}
<1>1. r \in Approval /\ r.at = at /\ r.actor = actor
  BY TimeFacts DEF Approval, Typed
<1>2. pulls[p].approvals \subseteq Approval
  BY DEF Typed, Pull
<1>3. pulls' = [pulls EXCEPT ![p].approvals = A]
  BY DEF Approve
<1>4. A \in SUBSET Approval
  BY <1>1, <1>2
<1>5. UNCHANGED <<now, policy, truth, release, corpus>>
  BY DEF Approve
<1> HIDE DEF r, A
<1>6. /\ pulls' \in [Pulls -> Pull]
      /\ pulls'[p].approvals = A /\ pulls'[p].mergedAt = pulls[p].mergedAt
      /\ \A q \in Pulls : q # p => pulls'[q] = pulls[q]
  BY <1>3, <1>4, NewApprovals
<1>7. Typed'
  BY <1>5, <1>6 DEF Typed
<1>8. \A s \in A : s.at <= now
  BY <1>1, TimeFacts DEF A, Timed, Typed
<1>9. Timed'
  BY <1>5, <1>6, <1>8 DEF Timed
<1>10. \A q \in Pulls : MergeKept(q)
  BY <1>5, <1>6 DEF MergeKept, A
<1>11. Kept
  BY <1>5, <1>10, TimeFacts DEF Kept, PolicyKept, ReleaseKept, Typed
<1>12. QED
  BY <1>5, <1>6, <1>7, <1>9, <1>11 DEF A, r

LEMMA DismissKeeps ==
    ASSUME Typed, Timed, NEW p \in Pulls, NEW r \in pulls[p].approvals, Dismiss(p, r)
    PROVE  /\ Typed' /\ Timed' /\ Kept
           /\ \A q \in Pulls \ {p} : pulls'[q] = pulls[q] /\ truth'[q] = truth[q]
           /\ pulls'[p].mergedAt = pulls[p].mergedAt
           /\ truth'[p].changed = Merged(p)
           /\ truth'[p].approvers = truth[p].approvers
           /\ \A s \in pulls'[p].approvals :
                s.state = "approved" => s \in pulls[p].approvals
<1> DEFINE d == [r EXCEPT !.state = "dismissed"]
           A == (pulls[p].approvals \ {r}) \cup {d}
<1>1. pulls[p].approvals \subseteq Approval
  BY DEF Typed, Pull
<1>2. /\ d \in Approval /\ d.at = r.at /\ d.actor = r.actor /\ d.state = "dismissed"
  BY <1>1, DismissedApproval
<1>3. /\ pulls' = [pulls EXCEPT ![p].approvals = A]
      /\ truth' = [truth EXCEPT ![p].changed = Merged(p)]
      /\ UNCHANGED <<now, policy, release, corpus>>
  BY DEF Dismiss, Merged
<1>4. A \in SUBSET Approval
  BY <1>1, <1>2
<1> HIDE DEF d, A
<1>5. /\ pulls' \in [Pulls -> Pull]
      /\ pulls'[p].approvals = A /\ pulls'[p].mergedAt = pulls[p].mergedAt
      /\ \A q \in Pulls : q # p => pulls'[q] = pulls[q]
  BY <1>3, <1>4, NewApprovals
<1>6. Merged(p) \in BOOLEAN
  BY DEF Merged
<1>7. /\ truth' \in [Pulls -> Truth]
      /\ truth'[p].approvers = truth[p].approvers
      /\ truth'[p].required = truth[p].required /\ truth'[p].changed = Merged(p)
      /\ \A q \in Pulls : q # p => truth'[q] = truth[q]
  BY <1>3, <1>6, NewChanged
<1>8. Typed'
  BY <1>3, <1>5, <1>7 DEF Typed
<1>9. \A s \in A : s.at <= now
  BY <1>2 DEF A, Timed
<1>10. Timed'
  BY <1>3, <1>5, <1>9 DEF Timed
<1>11. \A s \in pulls[p].approvals : \E t \in A : t.actor = s.actor /\ t.at = s.at
  BY <1>2 DEF A
<1>12. ASSUME NEW q \in Pulls, Merged(q) PROVE MergeKept(q)
  BY <1>5, <1>7, <1>11, <1>12 DEF MergeKept
<1>13. Kept
  BY <1>3, <1>12, TimeFacts DEF Kept, PolicyKept, ReleaseKept, Typed
<1>14. QED
  BY <1>2, <1>5, <1>7, <1>8, <1>10, <1>13 DEF A

LEMMA MergeKeeps ==
    ASSUME Typed, Timed, NEW p \in Pulls, Merge(p)
    PROVE  /\ Typed' /\ Timed' /\ Kept
           /\ \A q \in Pulls \ {p} : pulls'[q] = pulls[q] /\ truth'[q] = truth[q]
           /\ pulls'[p].mergedAt = now /\ pulls'[p].approvals = pulls[p].approvals
           /\ truth'[p].approvers = Approving(p)
           /\ truth'[p].required = policy[Len(policy)].required
<1> DEFINE t == [approvers |-> Approving(p), required |-> policy[Len(policy)].required,
                 changed |-> FALSE]
<1>1. Approving(p) \subseteq Actors
  BY DEF Approving, Typed, Pull, Approval
<1>2. policy[Len(policy)].required \in Nat
  BY PolicyDomain, ReleaseReviewsAssumption DEF Event
<1>3. t \in Truth
  BY <1>1, <1>2 DEF Truth
<1>4. /\ pulls' = [pulls EXCEPT ![p].mergedAt = now]
      /\ truth' = [truth EXCEPT ![p] = t]
      /\ UNCHANGED <<now, policy, release, corpus>>
      /\ ~Merged(p) /\ now \in Time
  BY DEF Merge, Merged, Typed
<1> HIDE DEF t
<1>5. /\ pulls' \in [Pulls -> Pull]
      /\ pulls'[p].approvals = pulls[p].approvals /\ pulls'[p].mergedAt = now
      /\ \A q \in Pulls : q # p => pulls'[q] = pulls[q]
  BY <1>4, NewMerge
<1>6. /\ truth' \in [Pulls -> Truth] /\ truth'[p] = t
      /\ \A q \in Pulls : q # p => truth'[q] = truth[q]
  BY <1>3, <1>4, NewTruth
<1>7. Typed'
  BY <1>4, <1>5, <1>6 DEF Typed
<1>8. Timed'
  BY <1>4, <1>5, TimeFacts DEF Timed
<1>9. ASSUME NEW q \in Pulls, Merged(q) PROVE MergeKept(q)
  BY <1>4, <1>5, <1>6, <1>9 DEF MergeKept
<1>10. Kept
  BY <1>4, <1>9, TimeFacts DEF Kept, PolicyKept, ReleaseKept, Typed
<1>11. QED
  BY <1>5, <1>6, <1>7, <1>8, <1>10 DEF t

LEMMA ChangePolicyKeeps ==
    ASSUME Typed, Timed, NEW n \in Counts, ChangePolicy(n)
    PROVE  Typed' /\ Timed' /\ Kept /\ UNCHANGED <<now, pulls, truth, release, corpus>>
<1> DEFINE e == [at |-> now, required |-> n]
<1>1. e \in Event /\ e.at = now
  BY DEF Event, Typed
<1>2. policy' = Append(policy, e) /\ UNCHANGED <<now, pulls, truth, release, corpus>>
  BY DEF ChangePolicy
<1> HIDE DEF e
<1>3. /\ policy' \in Seq(Event) /\ policy' # <<>>
      /\ DOMAIN policy' = 1..(Len(policy) + 1) /\ DOMAIN policy = 1..Len(policy)
      /\ Len(policy) \in Nat /\ 1 \in DOMAIN policy
      /\ \A i \in DOMAIN policy : policy'[i] = policy[i]
      /\ policy'[Len(policy) + 1] = e
  BY <1>1, <1>2, PolicyGrows DEF Typed
<1>4. Typed'
  BY <1>2, <1>3 DEF Typed
<1>5. \A i \in DOMAIN policy' : i \notin DOMAIN policy => i = Len(policy) + 1
  BY <1>3
<1>6. PolicyKept
  BY <1>1, <1>3, <1>5 DEF PolicyKept
<1>7. \A p \in Pulls : MergeKept(p)
  BY <1>2 DEF MergeKept
<1>8. Timed'
  <2>1. policy'[1].at = 0
    BY <1>3 DEF Timed
  <2>2. \A i \in DOMAIN policy' : policy'[i].at <= now
    BY <1>1, <1>3, <1>5, TimeFacts DEF Timed, Typed
  <2>3. \A i, j \in DOMAIN policy' : i <= j => policy'[i].at <= policy'[j].at
    BY <1>1, <1>3, <1>5, <2>2, TimeFacts DEF Timed
  <2>4. QED
    BY <1>2, <2>1, <2>2, <2>3 DEF Timed
<1>9. Kept
  BY <1>2, <1>6, <1>7, TimeFacts DEF Kept, ReleaseKept, Typed
<1>10. QED
  BY <1>2, <1>4, <1>8, <1>9

LEMMA TickKeeps ==
    ASSUME Typed, Timed, Tick
    PROVE  Typed' /\ Timed' /\ Kept /\ UNCHANGED <<policy, pulls, truth, release, corpus>>
<1>1. /\ UNCHANGED <<policy, pulls, truth, release, corpus>>
      /\ now' = now + 1 /\ now' \in Time /\ now \in Time
  BY ReleaseReviewsAssumption DEF Tick, Typed, Time
<1>2. Typed'
  BY <1>1 DEF Typed
<1>3. \A i \in DOMAIN policy : policy[i].at \in Nat
  BY PolicyDomain, TimeFacts DEF Event
<1>4. \A p \in Pulls : /\ pulls[p].mergedAt \in Int
                       /\ \A r \in pulls[p].approvals : r.at \in Int
  BY TimeFacts DEF Typed, Pull, Approval
<1>5. Timed'
  <2>1. \A i \in DOMAIN policy : policy[i].at <= now + 1
    BY <1>1, <1>3, TimeFacts DEF Timed
  <2>2. \A p \in Pulls : /\ pulls[p].mergedAt <= now + 1
                         /\ \A r \in pulls[p].approvals : r.at <= now + 1
    BY <1>1, <1>4, TimeFacts DEF Timed
  <2>3. QED
    BY <1>1, <2>1, <2>2 DEF Timed
<1>6. Kept
  BY <1>1, TimeFacts DEF Kept, PolicyKept, MergeKept, ReleaseKept, Typed
<1>7. QED
  BY <1>1, <1>2, <1>5, <1>6

LEMMA PublishKeeps ==
    ASSUME Typed, Timed, Publish
    PROVE  /\ Typed' /\ Timed' /\ Kept /\ UNCHANGED <<now, policy, pulls, truth, corpus>>
           /\ release'.revision = release.revision + 1
           /\ \A p \in release'.members : Merged(p)
<1>1. /\ UNCHANGED <<now, policy, pulls, truth, corpus>>
      /\ release' = [revision |-> release.revision + 1,
                     members |-> {p \in Pulls : Merged(p)}]
      /\ release.revision \in Nat
  BY DEF Publish, Merged, Typed
<1>2. Typed' /\ Timed'
  BY <1>1 DEF Typed, Timed
<1>3. release'.revision = release.revision + 1 /\ \A p \in release'.members : Merged(p)
  BY <1>1
<1>4. Kept
  BY <1>1, <1>3, TimeFacts DEF Kept, PolicyKept, MergeKept, ReleaseKept, Typed
<1>5. QED
  BY <1>1, <1>2, <1>3, <1>4

LEMMA ProvidesKept ==
    ASSUME Typed, Timed, Provides
    PROVE  Typed' /\ Timed' /\ Kept /\ corpus' = corpus
<1>1. CASE Tick
  BY <1>1, TickKeeps
<1>2. ASSUME NEW n \in Counts, ChangePolicy(n)
      PROVE  Typed' /\ Timed' /\ Kept /\ corpus' = corpus
  BY <1>2, ChangePolicyKeeps
<1>3. ASSUME NEW p \in Pulls, Merge(p)
      PROVE  Typed' /\ Timed' /\ Kept /\ corpus' = corpus
  BY <1>3, MergeKeeps DEF Merge
<1>4. ASSUME NEW p \in Pulls, NEW actor \in Actors, NEW at \in {now, Unusable},
             Approve(p, actor, at)
      PROVE  Typed' /\ Timed' /\ Kept /\ corpus' = corpus
  BY <1>4, ApproveKeeps DEF Approve
<1>5. ASSUME NEW p \in Pulls, NEW r \in pulls[p].approvals, Dismiss(p, r)
      PROVE  Typed' /\ Timed' /\ Kept /\ corpus' = corpus
  BY <1>5, DismissKeeps DEF Dismiss
<1>6. CASE Publish
  BY <1>6, PublishKeeps
<1>7. QED
  BY <1>1, <1>2, <1>3, <1>4, <1>5, <1>6 DEF Provides

LEMMA ExportsKept ==
    ASSUME Typed, Timed, Exports
    PROVE  Typed' /\ Timed' /\ Kept /\ UNCHANGED provider
<1>1. ASSUME NEW k \in Kinds, NEW e, Import(k, e)
      PROVE  Typed' /\ Timed' /\ Kept /\ UNCHANGED provider
  <2>1. UNCHANGED provider /\ corpus' = [j \in Kinds |-> corpus'[j]]
    BY <1>1, NewExport
  <2>2. Typed' /\ Timed'
    BY <2>1 DEF provider, Typed, Timed
  <2>3. Kept
    BY <2>1, TimeFacts DEF provider, Kept, PolicyKept, MergeKept, ReleaseKept, Typed
  <2>4. QED
    BY <2>1, <2>2, <2>3
<1>2. \E k \in Kinds : \E e : Import(k, e)
  BY DEF Exports, ExportMembership, ExportReviews, ExportPolicy, Kinds
<1>3. QED
  BY <1>1, <1>2

-----------------------------------------------------------------------------
(***************************************************************************)
(* What was said stays true of what is kept.                               *)
(***************************************************************************)
LEMMA ShownStays ==
    ASSUME Typed, Kept, NEW p \in Pulls, NEW record, Shown(p, record)
    PROVE  Shown(p, record)'
<1>1. /\ Merged(p) /\ record.mergedAt = pulls[p].mergedAt
      /\ \A r \in record.approvals :
            r \in Approval /\ \E s \in pulls[p].approvals : s.actor = r.actor /\ s.at = r.at
  BY DEF Shown
<1>2. MergeKept(p)
  BY <1>1 DEF Kept
<1>3. \A r \in record.approvals :
            r \in Approval /\ \E s \in pulls'[p].approvals : s.actor = r.actor /\ s.at = r.at
  BY <1>1, <1>2 DEF MergeKept
<1>4. pulls'[p].mergedAt # Open /\ record.mergedAt = pulls'[p].mergedAt
  BY <1>1, <1>2 DEF MergeKept, Merged
<1>5. \A r \in Approved(record) :
        r.at # Unusable /\ r.at < record.mergedAt => r.actor \in truth'[p].approvers
  BY <1>2 DEF MergeKept, Shown
<1>6. ~truth'[p].changed =>
        \A a \in truth'[p].approvers : \E r \in Approved(record) :
            r.actor = a /\ (r.at = Unusable \/ r.at <= record.mergedAt)
  BY <1>2 DEF MergeKept, Shown
<1>7. QED
  BY <1>3, <1>4, <1>5, <1>6 DEF Shown, Merged

LEMMA ToldStays ==
    ASSUME Typed, Timed, Kept, NEW h, Told(h)
    PROVE  Told(h)'
<1>1. /\ h.at <= now /\ h.at \in Nat /\ h.through = h.at
      /\ now \in Nat /\ now' \in Nat /\ now <= now'
  BY TimeFacts DEF Told, Typed, Kept
<1>2. h.at <= now'
  BY <1>1
<1>3. \A i \in DOMAIN h.events : h.events[i] = policy'[i] /\ h.from <= policy'[i].at
  BY DEF Told, Kept, PolicyKept
<1>4. ASSUME NEW i \in DOMAIN policy', h.from <= policy'[i].at,
             i = 1 \/ policy'[i].at < h.through
      PROVE  i \in DOMAIN h.events
  <2>1. CASE i \in DOMAIN policy
    BY <1>4, <2>1 DEF Told, Kept, PolicyKept
  <2>2. CASE i \notin DOMAIN policy
    <3>1. policy'[i].at = now /\ 1 \in DOMAIN policy /\ 1 < i
      BY <2>2, PolicyDomain DEF Kept, PolicyKept
    <3>2. h.through <= now /\ ~(now < h.through)
      BY <1>1
    <3>3. QED
      BY <1>4, <3>1, <3>2
  <2>3. QED
    BY <2>1, <2>2
<1>5. DOMAIN h.events \subseteq DOMAIN policy'
  BY DEF Told, Kept, PolicyKept
<1>6. h.through = h.at /\ h.from \in Nat /\ h.at \in Time
  BY DEF Told
<1>7. QED
  BY <1>1, <1>2, <1>3, <1>4, <1>5, <1>6 DEF Told

LEMMA ListedStays ==
    ASSUME Typed, Kept, Typed', NEW m, Listed(m)
    PROVE  Listed(m)'
<1>1. /\ now \in Nat /\ now' \in Nat /\ release.revision \in Nat /\ release'.revision \in Nat
      /\ m.at \in Nat /\ m.revision \in Nat
  BY TimeFacts DEF Typed, Listed
<1>2. m.at <= now' /\ m.revision <= release'.revision
  BY <1>1 DEF Listed, Kept, ReleaseKept
<1>3. m.revision = release'.revision => m.members = release'.members
  BY <1>1 DEF Listed, Kept, ReleaseKept
<1>4. \A p \in m.members : pulls'[p].mergedAt # Open
  BY DEF Listed, Kept, MergeKept, Merged
<1>5. QED
  BY <1>2, <1>3, <1>4 DEF Listed, Merged

LEMMA RecordedStays ==
    ASSUME Typed, Kept, NEW e, Recorded(e)
    PROVE  Recorded(e)'
<1>1. e.at <= now'
  BY TimeFacts DEF Recorded, Typed, Kept
<1>2. \A p \in DOMAIN e.records : p \in Pulls /\ Shown(p, e.records[p])'
  BY ShownStays DEF Recorded
<1>3. QED
  BY <1>1, <1>2 DEF Recorded

LEMMA InForceStays ==
    ASSUME Typed, Timed, Kept, Typed', NEW p \in Pulls, Merged(p), InForce(p)
    PROVE  InForce(p)'
<1>1. PICK k \in DOMAIN policy :
        /\ truth[p].required = policy[k].required
        /\ \A i \in DOMAIN policy :
            /\ i <= k => policy[i].at <= pulls[p].mergedAt
            /\ k < i => pulls[p].mergedAt <= policy[i].at
  BY DEF InForce
<1>2. MergeKept(p) /\ PolicyKept
  BY DEF Kept
<1>3. k \in DOMAIN policy' /\ truth'[p].required = policy'[k].required
  BY <1>1, <1>2 DEF MergeKept, PolicyKept
<1>4. ASSUME NEW i \in DOMAIN policy'
      PROVE  /\ i <= k => policy'[i].at <= pulls'[p].mergedAt
             /\ k < i => pulls'[p].mergedAt <= policy'[i].at
  <2>1. CASE i \in DOMAIN policy
    BY <1>1, <1>2, <2>1 DEF MergeKept, PolicyKept
  <2>2. CASE i \notin DOMAIN policy
    <3>1. policy'[i].at = now /\ k < i
      BY <1>2, <2>2 DEF PolicyKept
    <3>2. pulls[p].mergedAt <= now
      BY DEF Timed
    <3>3. ~(i <= k)
      <4>1. k \in Nat
        BY PolicyDomain
      <4>2. i \in Nat
        <5>1. policy' \in Seq(Event)
          BY DEF Typed
        <5>2. QED
          BY <1>4, <5>1
      <4>3. QED
        BY <3>1, <4>1, <4>2
    <3>4. QED
      BY <1>2, <3>1, <3>2, <3>3 DEF MergeKept
  <2>3. QED
    BY <2>1, <2>2
<1>5. QED
  BY <1>3, <1>4 DEF InForce

-----------------------------------------------------------------------------
(***************************************************************************)
(* What the provider shows of a merged pull request is true of its merge.  *)
(***************************************************************************)
LEMMA MergeShown ==
    ASSUME Typed, Timed, NEW p \in Pulls, Merge(p)
    PROVE  Shown(p, pulls[p])' /\ InForce(p)'
<1>1. /\ Typed' /\ pulls'[p].mergedAt = now /\ pulls'[p].approvals = pulls[p].approvals
      /\ truth'[p].approvers = Approving(p)
      /\ truth'[p].required = policy[Len(policy)].required
  BY MergeKeeps
<1>2. Approving(p) = {r.actor : r \in Approved(pulls'[p])}
  BY <1>1 DEF Approving, Approved
<1>3. now \in Nat /\ now # Open
  BY TimeFacts DEF Typed
<1>4. \A r \in pulls'[p].approvals : r \in Approval
  BY <1>1 DEF Typed, Pull
<1>5. \A r \in Approved(pulls'[p]) : r.actor \in Approving(p) /\ r.at <= now
  BY <1>1, <1>2 DEF Approved, Timed
<1>6. \A a \in Approving(p) : \E r \in Approved(pulls'[p]) : r.actor = a
  BY <1>2
<1>7. Shown(p, pulls[p])'
  BY <1>1, <1>3, <1>4, <1>5, <1>6 DEF Shown, Merged, Approved
<1>8. InForce(p)'
  <2>1. policy' = policy
    BY DEF Merge
  <2>2. /\ Len(policy) \in DOMAIN policy /\ Len(policy) \in Nat
        /\ \A i \in DOMAIN policy : i \in Nat /\ i <= Len(policy)
    BY PolicyDomain
  <2>3. \A i \in DOMAIN policy : policy[i].at <= now /\ ~(Len(policy) < i)
    BY <2>2 DEF Timed
  <2>4. QED
    BY <1>1, <2>1, <2>2, <2>3 DEF InForce
<1>9. QED
  BY <1>7, <1>8

LEMMA ApproveShown ==
    ASSUME Typed, Timed, NEW p \in Pulls, NEW actor \in Actors, NEW at \in {now, Unusable},
           Approve(p, actor, at), Shown(p, pulls[p])
    PROVE  Shown(p, pulls[p])'
<1> DEFINE r == [actor |-> actor, at |-> at, state |-> "approved"]
<1>1. /\ Typed' /\ truth' = truth /\ pulls'[p].mergedAt = pulls[p].mergedAt
      /\ pulls'[p].approvals = pulls[p].approvals \cup {r}
  BY ApproveKeeps
<1>2. \A s \in pulls'[p].approvals : s \in Approval
  BY <1>1 DEF Typed, Pull
<1>3. r.at = Unusable \/ ~(r.at < pulls[p].mergedAt)
  <2>1. now \in Int /\ pulls[p].mergedAt \in Int /\ pulls[p].mergedAt <= now
    BY TimeFacts DEF Typed, Timed, Pull
  <2>2. QED
    BY <2>1
<1> HIDE DEF r
<1>4. /\ Approved(pulls[p]) \subseteq Approved(pulls'[p])
      /\ \A s \in Approved(pulls'[p]) : s \in Approved(pulls[p]) \/ s = r
  BY <1>1 DEF Approved
<1>5. \A s \in Approved(pulls'[p]) :
        s.at # Unusable /\ s.at < pulls'[p].mergedAt => s.actor \in truth'[p].approvers
  BY <1>1, <1>3, <1>4 DEF Shown
<1>6. ~truth'[p].changed =>
        \A a \in truth'[p].approvers : \E s \in Approved(pulls'[p]) :
            s.actor = a /\ (s.at = Unusable \/ s.at <= pulls'[p].mergedAt)
  BY <1>1, <1>4 DEF Shown
<1>7. pulls'[p].mergedAt # Open
  BY <1>1 DEF Shown, Merged
<1>8. QED
  BY <1>2, <1>5, <1>6, <1>7 DEF Shown, Merged

LEMMA DismissShown ==
    ASSUME Typed, Timed, NEW p \in Pulls, NEW r \in pulls[p].approvals, Dismiss(p, r),
           Shown(p, pulls[p])
    PROVE  Shown(p, pulls[p])'
<1>1. /\ Typed' /\ pulls'[p].mergedAt = pulls[p].mergedAt
      /\ truth'[p].changed = Merged(p)
      /\ truth'[p].approvers = truth[p].approvers
      /\ \A s \in pulls'[p].approvals : s.state = "approved" => s \in pulls[p].approvals
  BY DismissKeeps
<1>2. \A s \in pulls'[p].approvals : s \in Approval
  BY <1>1 DEF Typed, Pull
<1>3. Merged(p) /\ truth'[p].changed
  BY <1>1 DEF Shown
<1>4. \A s \in Approved(pulls'[p]) : s \in Approved(pulls[p])
  BY <1>1 DEF Approved
<1>5. \A s \in Approved(pulls'[p]) :
        s.at # Unusable /\ s.at < pulls'[p].mergedAt => s.actor \in truth'[p].approvers
  BY <1>1, <1>4 DEF Shown
<1>6. QED
  BY <1>1, <1>2, <1>3, <1>5 DEF Shown, Merged

\* A pull request that is shown as it was.
LEMMA SameShown ==
    ASSUME NEW p \in Pulls, pulls'[p] = pulls[p], truth'[p] = truth[p], Shown(p, pulls[p])
    PROVE  Shown(p, pulls[p])'
BY DEF Shown, Merged, Approved

\* Whatever the provider does, to that pull request or to another.
LEMMA ProviderShown ==
    ASSUME Typed, Timed, Provides,
           \A p \in Pulls : Merged(p) => Shown(p, pulls[p]) /\ InForce(p),
           NEW q \in Pulls, Merged(q)'
    PROVE  Shown(q, pulls[q])' /\ InForce(q)'
<1>1. Typed' /\ Kept
  BY ProvidesKept
<1>2. Merged(q) => Shown(q, pulls[q]) /\ InForce(q)'
  BY <1>1, InForceStays
<1>3. ASSUME pulls'[q] = pulls[q], truth'[q] = truth[q]
      PROVE  Shown(q, pulls[q])' /\ InForce(q)'
  <2>1. Merged(q)
    BY <1>3 DEF Merged
  <2>2. QED
    BY <1>2, <1>3, <2>1, SameShown
<1>4. CASE Tick \/ Publish \/ \E n \in Counts : ChangePolicy(n)
  <2>1. pulls' = pulls /\ truth' = truth
    BY <1>4 DEF Tick, Publish, ChangePolicy
  <2>2. QED
    BY <1>3, <2>1
<1>5. ASSUME NEW p \in Pulls, Merge(p)
      PROVE  Shown(q, pulls[q])' /\ InForce(q)'
  <2>1. CASE p = q
    BY <1>5, <2>1, MergeShown
  <2>2. CASE p # q
    BY <1>3, <1>5, <2>2, MergeKeeps
  <2>3. QED
    BY <2>1, <2>2
<1>6. ASSUME NEW p \in Pulls, NEW actor \in Actors, NEW at \in {now, Unusable},
             Approve(p, actor, at)
      PROVE  Shown(q, pulls[q])' /\ InForce(q)'
  <2>1. CASE p = q
    <3>1. pulls'[q].mergedAt = pulls[q].mergedAt
      BY <1>6, <2>1, ApproveKeeps
    <3>2. Merged(q)
      BY <3>1 DEF Merged
    <3>3. QED
      BY <1>2, <1>6, <2>1, <3>2, ApproveShown
  <2>2. CASE p # q
    BY <1>3, <1>6, <2>2, ApproveKeeps
  <2>3. QED
    BY <2>1, <2>2
<1>7. ASSUME NEW p \in Pulls, NEW r \in pulls[p].approvals, Dismiss(p, r)
      PROVE  Shown(q, pulls[q])' /\ InForce(q)'
  <2>1. CASE p = q
    <3>1. pulls'[q].mergedAt = pulls[q].mergedAt
      BY <1>7, <2>1, DismissKeeps
    <3>2. Merged(q)
      BY <3>1 DEF Merged
    <3>3. QED
      BY <1>2, <1>7, <2>1, <3>2, DismissShown
  <2>2. CASE p # q
    BY <1>3, <1>7, <2>2, DismissKeeps
  <2>3. QED
    BY <2>1, <2>2
<1>8. QED
  BY <1>4, <1>5, <1>6, <1>7 DEF Provides

-----------------------------------------------------------------------------
(***************************************************************************)
(* What an export says is true when it is made.                            *)
(***************************************************************************)
LEMMA PolicyTold ==
    ASSUME Typed, Timed, NEW from \in 0..now, ExportPolicy(from)
    PROVE  \E h : Import("policy", h) /\ Told(h)
<1> DEFINE since == {i \in DOMAIN policy : from <= policy[i].at}
           h == [at |-> now, from |-> from, through |-> now,
                 events |-> [i \in since |-> policy[i]]]
<1>1. Import("policy", h)
  BY DEF ExportPolicy
<1>2. /\ h.at = now /\ h.from = from /\ h.through = now
      /\ h.events = [i \in since |-> policy[i]]
  OBVIOUS
<1> HIDE DEF h
<1>3. now \in Time /\ from \in Nat /\ now <= now
  BY TimeFacts DEF Typed
<1>4. Told(h)
  BY <1>2, <1>3 DEF Told
<1>5. QED
  BY <1>1, <1>4

LEMMA MembershipListed ==
    ASSUME Typed, \A p \in release.members : Merged(p), ExportMembership
    PROVE  \E m : Import("membership", m) /\ Listed(m)
<1> DEFINE m == [at |-> now, revision |-> release.revision, members |-> release.members]
<1>1. Import("membership", m)
  BY DEF ExportMembership
<1>2. m.at = now /\ m.revision = release.revision /\ m.members = release.members
  OBVIOUS
<1> HIDE DEF m
<1>3. /\ now \in Time /\ now <= now
      /\ release.revision \in Nat /\ release.revision <= release.revision
      /\ release.members \subseteq Pulls
  BY TimeFacts DEF Typed
<1>4. Listed(m)
  BY <1>2, <1>3 DEF Listed
<1>5. QED
  BY <1>1, <1>4

LEMMA ReviewsRecorded ==
    ASSUME Typed, \A p \in release.members : Merged(p),
           \A p \in Pulls : Merged(p) => Shown(p, pulls[p]),
           NEW some \in SUBSET release.members, ExportReviews(some)
    PROVE  \E e : Import("reviews", e) /\ Recorded(e)
<1> DEFINE e == [at |-> now, revision |-> release.revision,
                 records |-> [p \in some |-> pulls[p]]]
<1>1. Import("reviews", e)
  BY DEF ExportReviews
<1>2. e.at = now /\ e.records = [p \in some |-> pulls[p]]
  OBVIOUS
<1> HIDE DEF e
<1>3. now \in Time /\ now <= now /\ release.members \subseteq Pulls
  BY TimeFacts DEF Typed
<1>4. \A p \in some : p \in Pulls /\ Shown(p, pulls[p])
  BY <1>3
<1>5. DOMAIN e.records = some /\ \A p \in some : e.records[p] = pulls[p]
  BY <1>2
<1>6. Recorded(e)
  BY <1>2, <1>3, <1>4, <1>5 DEF Recorded
<1>7. QED
  BY <1>1, <1>6

\* One export more: what it says, and what those before it say, is true.
Says(k, e) ==
    /\ k = "policy" => Told(e)
    /\ k = "membership" => Listed(e)
    /\ k = "reviews" => Recorded(e)

LEMMA KindFacts ==
    /\ Kinds = {"membership", "reviews", "policy"}
    /\ "membership" # "reviews" /\ "membership" # "policy" /\ "reviews" # "policy"
BY DEF Kinds

LEMMA ExportsSay ==
    ASSUME IInv, Exports
    PROVE  \E k \in Kinds : \E e : Import(k, e) /\ Says(k, e)
<1>1. /\ Typed /\ Timed /\ \A p \in release.members : Merged(p)
      /\ \A p \in Pulls : Merged(p) => Shown(p, pulls[p])
  BY DEF IInv
<1>2. CASE ExportMembership
  BY <1>1, <1>2, MembershipListed, KindFacts DEF Says
<1>3. ASSUME NEW some \in SUBSET release.members, ExportReviews(some)
      PROVE  \E k \in Kinds : \E e : Import(k, e) /\ Says(k, e)
  BY <1>1, <1>3, ReviewsRecorded, KindFacts DEF Says
<1>4. ASSUME NEW from \in 0..now, ExportPolicy(from)
      PROVE  \E k \in Kinds : \E e : Import(k, e) /\ Says(k, e)
  BY <1>1, <1>4, PolicyTold, KindFacts DEF Says
<1>5. QED
  BY <1>2, <1>3, <1>4 DEF Exports

LEMMA SaysStays ==
    ASSUME Typed, Timed, Kept, Typed', NEW k, NEW e, Says(k, e)
    PROVE  Says(k, e)'
BY ToldStays, ListedStays, RecordedStays DEF Says

\* The last three conjuncts of the invariant.
CorpusSays == \A k \in Kinds : \A e \in corpus[k] : Says(k, e)

LEMMA CorpusParts ==
    CorpusSays <=>
        /\ \A h \in corpus["policy"] : Told(h)
        /\ \A m \in corpus["membership"] : Listed(m)
        /\ \A e \in corpus["reviews"] : Recorded(e)
BY KindFacts DEF CorpusSays, Says

-----------------------------------------------------------------------------
LEMMA InitInv == Init => IInv
<1> SUFFICES ASSUME Init PROVE IInv
  OBVIOUS
<1>1. PICK n \in Counts : policy = <<[at |-> 0, required |-> n]>>
  BY DEF Init
<1>2. /\ now = 0
      /\ pulls = [p \in Pulls |-> [mergedAt |-> Open, approvals |-> {}]]
      /\ truth = [p \in Pulls |-> [approvers |-> {}, required |-> 0, changed |-> FALSE]]
      /\ release = [revision |-> 0, members |-> {}]
      /\ corpus = [k \in Kinds |-> {}]
  BY DEF Init
<1>3. Typed
  <2>1. policy \in Seq(Event) /\ policy # <<>>
    BY <1>1, TimeFacts DEF Event
  <2>2. pulls \in [Pulls -> Pull]
    BY <1>2 DEF Pull
  <2>3. truth \in [Pulls -> Truth]
    BY <1>2 DEF Truth
  <2>4. QED
    BY <1>2, <2>1, <2>2, <2>3, TimeFacts DEF Typed
<1>4. Timed
  <2>1. DOMAIN policy = {1} /\ policy[1].at = 0
    BY <1>1
  <2>2. \A p \in Pulls : pulls[p].mergedAt = -1 /\ pulls[p].approvals = {}
    BY <1>2 DEF Open
  <2>3. QED
    BY <1>2, <2>1, <2>2 DEF Timed
<1>5. \A p \in Pulls : ~Merged(p)
  BY <1>2 DEF Merged
<1>6. QED
  BY <1>2, <1>3, <1>4, <1>5, KindFacts DEF IInv

LEMMA NextInv == IInv /\ [Next]_vars => IInv'
<1> SUFFICES ASSUME IInv, [Next]_vars PROVE IInv'
  OBVIOUS
<1>1. /\ Typed /\ Timed /\ CorpusSays
      /\ \A p \in Pulls : Merged(p) => Shown(p, pulls[p]) /\ InForce(p)
      /\ \A p \in release.members : Merged(p)
  BY CorpusParts DEF IInv
<1>2. SUFFICES /\ Typed' /\ Timed' /\ CorpusSays'
               /\ (\A p \in Pulls : Merged(p) => Shown(p, pulls[p]) /\ InForce(p))'
               /\ (\A p \in release.members : Merged(p))'
  BY CorpusParts, PTL DEF IInv, CorpusSays, Says, Kinds
<1>3. CASE Provides
  <2>1. Typed' /\ Timed' /\ Kept /\ corpus' = corpus
    BY <1>1, <1>3, ProvidesKept
  <2>2. CorpusSays'
    BY <1>1, <2>1, SaysStays DEF CorpusSays
  <2>3. (\A p \in Pulls : Merged(p) => Shown(p, pulls[p]) /\ InForce(p))'
    BY <1>1, <1>3, ProviderShown
  <2>4. ASSUME NEW p \in release'.members PROVE Merged(p)'
    <3>1. Merged(p) /\ p \in Pulls
      <4>1. CASE Publish
        <5>1. Merged(p)
          BY <1>1, <2>4, <4>1, PublishKeeps
        <5>2. QED
          BY <2>1, <2>4, <5>1 DEF Typed
      <4>2. CASE release' = release
        BY <1>1, <2>4, <4>2 DEF Typed
      <4>3. QED
        BY <1>3, <4>1, <4>2 DEF Provides, Tick, ChangePolicy, Merge, Approve, Dismiss
    <3>2. QED
      BY <2>1, <3>1 DEF Kept, MergeKept, Merged
  <2>5. QED
    BY <2>1, <2>2, <2>3, <2>4
<1>4. CASE Exports
  <2>1. Typed' /\ Timed' /\ Kept /\ UNCHANGED provider
    BY <1>1, <1>4, ExportsKept
  <2>2. PICK k \in Kinds : \E e : Import(k, e) /\ Says(k, e)
    BY <1>4, ExportsSay
  <2>3. PICK e : Import(k, e) /\ Says(k, e)
    BY <2>2
  <2>4. /\ corpus'[k] = corpus[k] \cup {e}
        /\ \A j \in Kinds : j # k => corpus'[j] = corpus[j]
    BY <1>1, <2>3, NewExport
  <2>5. \A j \in Kinds : \A f \in corpus'[j] : Says(j, f)
    BY <1>1, <2>3, <2>4 DEF CorpusSays
  <2>6. CorpusSays'
    BY <1>1, <2>1, <2>5, SaysStays DEF CorpusSays
  <2>7. (\A p \in Pulls : Merged(p) => Shown(p, pulls[p]) /\ InForce(p))'
    <3>1. UNCHANGED <<now, policy, pulls, truth, release>>
      BY <2>1 DEF provider
    <3>2. \A p \in Pulls : Merged(p)' => Shown(p, pulls[p]) /\ InForce(p)'
      BY <1>1, <3>1 DEF Merged, InForce
    <3>3. QED
      BY <3>1, <3>2, SameShown
  <2>8. (\A p \in release.members : Merged(p))'
    BY <1>1, <2>1 DEF provider, Merged
  <2>9. QED
    BY <2>1, <2>6, <2>7, <2>8
<1>5. CASE UNCHANGED <<provider, corpus>>
  <2>1. UNCHANGED <<now, policy, pulls, truth, release, corpus>>
    BY <1>5 DEF provider
  <2>2. Typed' /\ Timed'
    BY <1>1, <2>1 DEF Typed, Timed
  <2>3. Kept
    BY <1>1, <2>1, TimeFacts DEF Kept, PolicyKept, MergeKept, ReleaseKept, Typed
  <2>4. CorpusSays'
    BY <1>1, <2>1, <2>2, <2>3, SaysStays DEF CorpusSays
  <2>5. \A p \in Pulls : Merged(p)' => Shown(p, pulls[p]) /\ InForce(p)'
    BY <1>1, <2>1 DEF Merged, InForce
  <2>6. (\A p \in Pulls : Merged(p) => Shown(p, pulls[p]) /\ InForce(p))'
    BY <2>1, <2>5, SameShown
  <2>7. (\A p \in release.members : Merged(p))'
    BY <1>1, <2>1 DEF Merged
  <2>8. QED
    BY <2>2, <2>4, <2>6, <2>7
<1>6. QED
  BY <1>3, <1>4, <1>5, StepKinds

LEMMA Invariant == Spec => []IInv
BY InitInv, NextInv, PTL DEF Spec

\* The types of what the provider keeps, and times no export is ahead of.
THEOREM TypeCorrect == Spec => []TypeOK
<1>1. IInv => TypeOK
  <2> SUFFICES ASSUME IInv PROVE TypeOK
    OBVIOUS
  <2>1. Typed /\ CorpusSays
    BY CorpusParts DEF IInv
  <2>2. ASSUME NEW k \in Kinds, NEW e \in corpus[k] PROVE e.at \in 0..now
    <3>1. Says(k, e)
      BY <2>1, <2>2 DEF CorpusSays
    <3>2. e.at \in Time /\ e.at <= now
      BY <2>2, <3>1 DEF Says, Told, Listed, Recorded, Kinds
    <3>3. QED
      BY <3>2, TimeFacts, <2>1 DEF Typed, Time
  <2>3. QED
    BY <2>1, <2>2 DEF TypeOK, Typed, Event, Pull, Truth
<1>2. QED
  BY <1>1, Invariant, PTL

-----------------------------------------------------------------------------
(***************************************************************************)
(* A verdict about one pull request.                                       *)
(***************************************************************************)

\* The requirement a history gives for a merge is the one that was in force then.
LEMMA RequirementTrue ==
    ASSUME Typed, Timed, NEW p \in Pulls, Merged(p), InForce(p), Ordered(p),
           NEW h, Told(h), NEW n \in RequiredAt(h, pulls[p].mergedAt)
    PROVE  n = truth[p].required
<1> DEFINE t == pulls[p].mergedAt
           before == {i \in DOMAIN h.events : h.events[i].at <= t}
<1>1. PICK j \in before : /\ n = h.events[j].required
                          /\ h.from <= t /\ t <= h.through
                          /\ \A i \in before : i <= j
  BY DEF RequiredAt
<1>2. PICK k \in DOMAIN policy :
        /\ truth[p].required = policy[k].required
        /\ \A i \in DOMAIN policy :
            /\ i <= k => policy[i].at <= t
            /\ k < i => t <= policy[i].at
  BY DEF InForce
<1> HIDE DEF t
<1>3. /\ j \in DOMAIN policy /\ h.events[j] = policy[j] /\ h.from <= policy[j].at
      /\ policy[j].at <= t
  BY <1>1 DEF Told
<1>4. /\ j \in Nat /\ k \in Nat /\ j >= 1 /\ k >= 1
      /\ policy[j].at \in Nat /\ policy[k].at \in Nat
  <2>1. \A i \in DOMAIN policy : i \in Nat /\ i >= 1 /\ policy[i].at \in Time
    BY PolicyDomain DEF Event
  <2>2. k \in DOMAIN policy /\ j \in DOMAIN policy
    BY <1>3
  <2>3. QED
    BY <2>1, <2>2, TimeFacts
<1>5. h.from \in Nat /\ h.through \in Nat /\ t \in Int
  BY TimeFacts DEF Told, Typed, Pull, t
<1>6. \A i \in DOMAIN policy : i > 1 => policy[i].at # t
  BY DEF Ordered, t
<1>7. ~(k < j)
  <2>1. SUFFICES ASSUME k < j PROVE FALSE
    OBVIOUS
  <2>2. t <= policy[j].at /\ j > 1
    BY <1>2, <1>3, <1>4, <2>1
  <2>3. policy[j].at # t
    BY <1>3, <1>6, <2>2
  <2>4. QED
    BY <1>3, <1>4, <1>5, <2>2, <2>3
<1>8. j <= k
  BY <1>4, <1>7
<1>9. policy[k].at <= t /\ policy[j].at <= policy[k].at
  BY <1>2, <1>3, <1>4, <1>8 DEF Timed
<1>10. k = 1 \/ policy[k].at < h.through
  <2>1. k = 1 \/ policy[k].at # t
    BY <1>2, <1>4, <1>6
  <2>2. QED
    BY <1>1, <1>4, <1>5, <1>9, <2>1
<1>11. h.from <= policy[k].at
  BY <1>3, <1>4, <1>5, <1>9
<1>12. k \in DOMAIN h.events
  BY <1>2, <1>10, <1>11 DEF Told
<1>13. k \in before
  BY <1>9, <1>12 DEF Told
<1>14. k = j
  BY <1>1, <1>4, <1>8, <1>13
<1>15. QED
  BY <1>1, <1>2, <1>3, <1>14

\* Who is counted approved before the merge; who may have is counted, or undated.
LEMMA CountedTrue ==
    ASSUME Typed, NEW p \in Pulls, Ordered(p), NEW record, Shown(p, record)
    PROVE  /\ Qualifying(record) \subseteq truth[p].approvers
           /\ ~truth[p].changed =>
                truth[p].approvers \subseteq Qualifying(record) \cup Undated(record)
<1>1. ASSUME NEW a \in Qualifying(record) PROVE a \in truth[p].approvers
  <2>1. PICK r \in Approved(record) :
            r.actor = a /\ r.at # Unusable /\ r.at <= record.mergedAt
    BY DEF Qualifying
  <2>2. r \in record.approvals
    BY DEF Approved
  <2>3. r \in Approval /\ r.at # pulls[p].mergedAt /\ record.mergedAt = pulls[p].mergedAt
    BY <2>2 DEF Shown, Ordered
  <2>4. r.at \in Int /\ record.mergedAt \in Int
    BY <2>3, TimeFacts DEF Approval, Typed, Pull
  <2>5. r.at < record.mergedAt
    BY <2>1, <2>3, <2>4
  <2>6. QED
    BY <2>1, <2>5 DEF Shown
<1>2. ASSUME ~truth[p].changed, NEW a \in truth[p].approvers
      PROVE  a \in Qualifying(record) \cup Undated(record)
  <2>1. PICK r \in Approved(record) :
            r.actor = a /\ (r.at = Unusable \/ r.at <= record.mergedAt)
    BY <1>2 DEF Shown
  <2>2. CASE r.at = Unusable
    BY <2>1, <2>2 DEF Undated
  <2>3. CASE r.at # Unusable
    BY <2>1, <2>3 DEF Qualifying
  <2>4. QED
    BY <2>2, <2>3
<1>3. QED
  BY <1>1, <1>2

LEMMA CountsFinite ==
    ASSUME Typed, NEW p \in Pulls, NEW record, Shown(p, record)
    PROVE  /\ IsFiniteSet(truth[p].approvers)
           /\ IsFiniteSet(Qualifying(record)) /\ IsFiniteSet(Undated(record))
<1>1. truth[p].approvers \in SUBSET Actors
  BY DEF Typed, Truth
<1>2. \A r \in Approved(record) : r.actor \in Actors
  BY DEF Shown, Approved, Approval
<1>3. Qualifying(record) \in SUBSET Actors /\ Undated(record) \in SUBSET Actors
  BY <1>2 DEF Qualifying, Undated
<1>4. QED
  BY <1>1, <1>3, FS_Subset, ReleaseReviewsAssumption

LEMMA VerdictTrue ==
    ASSUME Typed, NEW p \in Pulls, Ordered(p), NEW record, Shown(p, record),
           NEW verdict, verdict = VerdictOf(record, truth[p].required)
    PROVE  /\ verdict = "met" => Met(p)
           /\ verdict = "short" => ~Met(p) \/ truth[p].changed
<1> DEFINE A == truth[p].approvers
           Q == Qualifying(record)
           U == Undated(record)
           n == truth[p].required
<1>1. IsFiniteSet(A) /\ IsFiniteSet(Q) /\ IsFiniteSet(U)
  BY CountsFinite
<1>2. Q \subseteq A /\ (~truth[p].changed => A \subseteq Q \cup U)
  BY CountedTrue
<1>3. n \in Nat
  BY DEF Typed, Truth
<1>4. verdict = IF Cardinality(Q) >= n THEN "met"
                ELSE IF Cardinality(Q) + Cardinality(U) >= n THEN "missing" ELSE "short"
  BY DEF VerdictOf
<1>5. Met(p) <=> Cardinality(A) >= n
  BY DEF Met
<1> HIDE DEF A, Q, U, n
<1>6. Cardinality(A) \in Nat /\ Cardinality(Q) \in Nat /\ Cardinality(U) \in Nat
  BY <1>1, FS_CardinalityType
<1>7. Cardinality(Q) <= Cardinality(A)
  BY <1>1, <1>2, FS_Subset
<1>8. ~truth[p].changed => Cardinality(A) <= Cardinality(Q) + Cardinality(U)
  <2>1. SUFFICES ASSUME ~truth[p].changed
                 PROVE  Cardinality(A) <= Cardinality(Q) + Cardinality(U)
    OBVIOUS
  <2>2. /\ IsFiniteSet(Q \cup U)
        /\ Cardinality(Q \cup U) =
            Cardinality(Q) + Cardinality(U) - Cardinality(Q \cap U)
    BY <1>1, FS_Union
  <2>3. IsFiniteSet(Q \cap U) /\ Cardinality(Q \cap U) \in Nat
    <3>1. IsFiniteSet(Q \cap U)
      BY <1>1, FS_Subset, Q \cap U \in SUBSET Q
    <3>2. QED
      BY <3>1, FS_CardinalityType
  <2>4. Cardinality(A) <= Cardinality(Q \cup U)
    BY <1>2, <2>1, <2>2, FS_Subset
  <2>5. Cardinality(Q \cup U) \in Nat
    BY <2>2, FS_CardinalityType
  <2>6. QED
    BY <1>6, <2>2, <2>3, <2>4, <2>5
<1>9. QED
  BY <1>3, <1>4, <1>5, <1>6, <1>7, <1>8

\* The histories an answer reads are imported ones.
LEMMA HistoriesTold ==
    ASSUME IInv, NEW at, NEW histories \in Histories(at), NEW h \in histories
    PROVE  h \in Latest(corpus["policy"], at) /\ h \in corpus["policy"] /\ Told(h)
<1>1. h \in Latest(corpus["policy"], at)
  BY DEF Histories
<1>2. h \in corpus["policy"]
  BY <1>1 DEF Latest
<1>3. QED
  BY <1>1, <1>2 DEF IInv

LEMMA MemberVerdictTrue ==
    ASSUME IInv, NEW e \in corpus["reviews"], NEW at, NEW histories \in Histories(at),
           NEW p \in Pulls, Merged(p), Ordered(p),
           NEW verdict, verdict = MemberVerdict(p, e, histories)
    PROVE  /\ verdict \in {"met", "short", "missing"}
           /\ verdict = "met" => Met(p)
           /\ verdict = "short" => ~Met(p) \/ truth[p].changed
<1> DEFINE record == e.records[p]
           required == UNION {RequiredAt(h, record.mergedAt) : h \in histories}
           n == CHOOSE i \in required : TRUE
<1>1. CASE p \notin DOMAIN e.records \/ required = {}
  <2>1. verdict = "missing"
    BY <1>1 DEF MemberVerdict
  <2>2. QED
    BY <2>1
<1>2. CASE p \in DOMAIN e.records /\ required # {}
  <2>1. Typed /\ Timed /\ InForce(p) /\ Shown(p, record)
    BY <1>2 DEF IInv, Recorded
  <2>2. record.mergedAt = pulls[p].mergedAt
    BY <2>1 DEF Shown
  <2>3. PICK h \in histories : n \in RequiredAt(h, record.mergedAt)
    BY <1>2
  <2>4. Told(h)
    BY HistoriesTold
  <2>5. n = truth[p].required
    BY <2>1, <2>2, <2>3, <2>4, RequirementTrue
  <2>6. verdict = VerdictOf(record, n)
    BY <1>2 DEF MemberVerdict
  <2> HIDE DEF record, required, n
  <2>7. verdict = VerdictOf(record, truth[p].required)
    BY <2>5, <2>6
  <2>8. verdict \in {"met", "short", "missing"}
    BY <2>7 DEF VerdictOf
  <2>9. QED
    BY <2>1, <2>7, <2>8, VerdictTrue
<1>3. QED
  BY <1>1, <1>2

\* What an answer is made of.
LEMMA AnswerParts ==
    ASSUME NEW at, NEW answer \in Answers(at)
    PROVE  \E m \in Latest(corpus["membership"], at) :
           \E e \in ReviewsFor(m, at) : \E histories \in Histories(at) :
                answer = <<m, Outcome(m, e, histories)>>
BY DEF Answers

\* Invariant ReleaseAnswersTrue (evaluate_release_reviews): supported, every merge
\* had what the policy in force required; contradicted, one had less.
THEOREM AnswersTrue == Spec => []ReleaseAnswersTrue
<1>1. IInv => ReleaseAnswersTrue
  <2> SUFFICES ASSUME IInv, NEW at \in 0..now, NEW answer \in Answers(at),
                      \A p \in answer[1].members : Ordered(p)
               PROVE  /\ answer[2] = "Supported" => \A p \in answer[1].members : Met(p)
                      /\ answer[2] = "Contradicted" =>
                            \E p \in answer[1].members : ~Met(p) \/ truth[p].changed
    BY DEF ReleaseAnswersTrue
  <2>1. PICK m \in Latest(corpus["membership"], at) :
             \E e \in ReviewsFor(m, at) : \E histories \in Histories(at) :
                answer = <<m, Outcome(m, e, histories)>>
    BY AnswerParts
  <2>2. PICK e \in ReviewsFor(m, at), histories \in Histories(at) :
             answer = <<m, Outcome(m, e, histories)>>
    BY <2>1
  <2>3. answer[1] = m /\ answer[2] = Outcome(m, e, histories)
    BY <2>2
  <2>4. Listed(m) /\ e \in corpus["reviews"]
    BY DEF Latest, ReviewsFor, IInv
  <2>5. ASSUME NEW p \in m.members
        PROVE  LET v == MemberVerdict(p, e, histories)
               IN  /\ v \in {"met", "short", "missing"}
                   /\ v = "met" => Met(p)
                   /\ v = "short" => ~Met(p) \/ truth[p].changed
    <3>1. p \in Pulls /\ Merged(p) /\ Ordered(p)
      BY <2>3, <2>4 DEF Listed
    <3>2. QED
      BY <2>4, <3>1, MemberVerdictTrue
  <2>6. ASSUME Outcome(m, e, histories) = "Supported", NEW p \in m.members PROVE Met(p)
    <3>1. MemberVerdict(p, e, histories) \notin {"short", "missing"}
      BY <2>6 DEF Outcome
    <3>2. QED
      BY <2>5, <3>1
  <2>7. ASSUME Outcome(m, e, histories) = "Contradicted"
        PROVE  \E p \in m.members : ~Met(p) \/ truth[p].changed
    <3>1. PICK p \in m.members : MemberVerdict(p, e, histories) = "short"
      BY <2>7 DEF Outcome
    <3>2. QED
      BY <2>5, <3>1
  <2>8. QED
    BY <2>3, <2>6, <2>7
<1>2. QED
  BY <1>1, Invariant, PTL

-----------------------------------------------------------------------------
(***************************************************************************)
(* Nothing is missing once everything is exported.                         *)
(***************************************************************************)

\* Of finitely many numbers one is the largest: the one with the fewest above it.
LEMMA Largest ==
    ASSUME NEW S, S \subseteq Nat, IsFiniteSet(S), S # {}
    PROVE  \E j \in S : \A i \in S : i <= j
<1> DEFINE Above(i) == {k \in S : i < k}
           sets == {Above(i) : i \in S}
<1>1. IsWellFoundedOn(StrictSubsetOrdering(S), FiniteSubsetsOf(S))
  BY FS_StrictSubsetOrderingWellFounded
<1>2. \A i \in S : Above(i) \in SUBSET S
  OBVIOUS
<1>3. FiniteSubsetsOf(S) = SUBSET S
  BY FS_FiniteSubsetsOfFinite
<1>4. \A i \in S : Above(i) \in sets
  OBVIOUS
<1>5. ASSUME NEW i \in S, NEW j \in S, j < i
      PROVE  i \in Above(j) /\ i \notin Above(i) /\ Above(i) \subseteq Above(j)
  <2>1. i \in Nat /\ j \in Nat /\ ~(i < i)
    OBVIOUS
  <2>2. \A k \in S : i < k => j < k
    BY <1>5, <2>1
  <2>3. QED
    BY <1>5, <2>1, <2>2
<1> HIDE DEF Above
<1>6. sets \subseteq FiniteSubsetsOf(S) /\ sets # {}
  BY <1>2, <1>3, <1>4
<1>7. PICK j \in S :
        \A other \in sets : <<other, Above(j)>> \notin StrictSubsetOrdering(S)
  <2> HIDE DEF sets
  <2>1. PICK least \in sets :
            \A other \in sets : <<other, least>> \notin StrictSubsetOrdering(S)
    BY <1>1, <1>6, WFMin
  <2>2. \E j \in S : least = Above(j)
    BY <2>1 DEF sets
  <2>3. QED
    BY <2>1, <2>2
<1>8. ASSUME NEW i \in S, j < i PROVE FALSE
  <2>1. Above(i) # Above(j) /\ Above(i) \subseteq Above(j)
    BY <1>5, <1>8
  <2>2. <<Above(i), Above(j)>> \in StrictSubsetOrdering(S)
    BY <1>2, <2>1 DEF StrictSubsetOrdering
  <2>3. QED
    BY <1>4, <1>7, <2>2
<1>9. QED
  BY <1>8

\* A history from the beginning says what was required at every merge it covers.
LEMMA RequirementSaid ==
    ASSUME Typed, Timed, NEW h, Told(h), h.from = 0, NEW t \in Nat, t <= h.through
    PROVE  RequiredAt(h, t) # {}
<1> DEFINE before == {i \in DOMAIN h.events : h.events[i].at <= t}
<1>1. 1 \in before
  <2>1. 1 \in DOMAIN policy /\ policy[1].at = 0
    BY PolicyDomain DEF Timed
  <2>2. 1 \in DOMAIN h.events /\ h.events[1] = policy[1]
    BY <2>1 DEF Told
  <2>3. QED
    BY <2>1, <2>2
<1>2. before \subseteq 1..Len(policy) /\ Len(policy) \in Nat
  BY PolicyDomain DEF Told
<1>3. before \subseteq Nat /\ IsFiniteSet(before)
  <2> HIDE DEF before
  <2>1. IsFiniteSet(1..Len(policy))
    BY <1>2, FS_Interval
  <2>2. before \in SUBSET (1..Len(policy)) /\ before \subseteq Nat
    BY <1>2
  <2>3. IsFiniteSet(before)
    BY <2>1, <2>2, FS_Subset
  <2>4. QED
    BY <2>2, <2>3
<1>4. PICK j \in before : \A i \in before : i <= j
  BY <1>1, <1>3, Largest
<1>5. h.events[j].required \in RequiredAt(h, t)
  BY <1>4 DEF RequiredAt
<1>6. QED
  BY <1>5

LEMMA DatedDecided ==
    ASSUME Typed, NEW p \in Pulls, NEW record, Shown(p, record),
           \A r \in record.approvals : r.at # Unusable, NEW n
    PROVE  VerdictOf(record, n) # "missing"
<1>1. Undated(record) = {}
  BY DEF Undated, Approved
<1>2. Cardinality(Undated(record)) = 0
  BY <1>1, FS_EmptySet
<1>3. Cardinality(Qualifying(record)) \in Nat
  BY CountsFinite, FS_CardinalityType
<1>4. Cardinality(Qualifying(record)) + Cardinality(Undated(record))
        = Cardinality(Qualifying(record))
  BY <1>2, <1>3
<1>5. QED
  BY <1>4 DEF VerdictOf

\* Invariant FullExportsDecide (evaluate_release_pull_requests): the latest exports
\* cover the release, so the claim about it is decided.
THEOREM CoveredDecided == Spec => []FullExportsDecide
<1>1. IInv => FullExportsDecide
  <2> SUFFICES ASSUME IInv, FullyExported, NEW answer \in Answers(now)
               PROVE  answer[2] # "InsufficientEvidence"
    BY DEF FullExportsDecide
  <2>1. PICK m \in Latest(corpus["membership"], now) :
             \E e \in ReviewsFor(m, now) : \E histories \in Histories(now) :
                answer = <<m, Outcome(m, e, histories)>>
    BY AnswerParts
  <2>2. PICK e \in ReviewsFor(m, now), histories \in Histories(now) :
             answer = <<m, Outcome(m, e, histories)>>
    BY <2>1
  <2>3. m.revision = release.revision /\ Listed(m)
    BY DEF FullyExported, Latest, IInv
  <2>4. m.members = release.members
    BY <2>3 DEF Listed
  <2>5. e \in Latest({r \in corpus["reviews"] : r.revision = release.revision}, now)
    BY <2>3 DEF ReviewsFor
  <2>6. Recorded(e)
    BY <2>5 DEF Latest, IInv
  <2>7. PICK h \in histories : h \in Latest(corpus["policy"], now) /\ Told(h)
    <3>1. histories # {}
      BY DEF Histories, FullyExported
    <3>2. QED
      BY <3>1, HistoriesTold
  <2>8. ASSUME NEW p \in m.members PROVE MemberVerdict(p, e, histories) # "missing"
    <3> DEFINE record == e.records[p]
               required == UNION {RequiredAt(g, record.mergedAt) : g \in histories}
               n == CHOOSE i \in required : TRUE
    <3>1. /\ p \in release.members /\ p \in DOMAIN e.records /\ p \in Pulls
          /\ \A r \in record.approvals : r.at # Unusable
      BY <2>4, <2>5, <2>6, <2>8 DEF FullyExported, Recorded
    <3>2. Typed /\ Timed /\ Shown(p, record)
      BY <2>6, <3>1 DEF IInv, Recorded
    <3>3. record.mergedAt \in Nat /\ record.mergedAt <= h.through /\ h.from = 0
      <4>1. record.mergedAt = pulls[p].mergedAt /\ pulls[p].mergedAt # Open
        BY <3>2 DEF Shown, Merged
      <4>2. pulls[p].mergedAt <= h.through /\ h.from = 0
        BY <2>7, <3>1 DEF FullyExported
      <4>3. QED
        BY <3>1, <3>2, <4>1, <4>2, TimeFacts DEF Typed, Pull
    <3>4. RequiredAt(h, record.mergedAt) # {}
      BY <2>7, <3>2, <3>3, RequirementSaid
    <3>5. required # {}
      BY <3>4
    <3>6. MemberVerdict(p, e, histories) = VerdictOf(record, n)
      BY <3>1, <3>5 DEF MemberVerdict
    <3> HIDE DEF record, required, n
    <3>7. QED
      BY <3>1, <3>2, <3>6, DatedDecided
  <2>9. Outcome(m, e, histories) # "InsufficientEvidence"
    BY <2>8 DEF Outcome
  <2>10. QED
    BY <2>2, <2>9
<1>2. QED
  BY <1>1, Invariant, PTL

=============================================================================
