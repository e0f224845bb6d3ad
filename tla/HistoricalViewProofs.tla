--------------------------- MODULE HistoricalViewProofs ---------------------------
(***************************************************************************)
(* What a historical view holds, for every evidence the commands can       *)
(* retain and every time: first the six fields of `View`, then the         *)
(* properties of them.                                                     *)
(***************************************************************************)
EXTENDS HistoricalView, TLAPS

-----------------------------------------------------------------------------
Shaped(e) ==
    e = [collections |-> e.collections, observations |-> e.observations,
         sources |-> e.sources, acquisitions |-> e.acquisitions,
         executions |-> e.executions]

Functional(e) ==
    /\ e.collections = [r \in DOMAIN e.collections |-> e.collections[r]]
    /\ e.observations = [o \in DOMAIN e.observations |-> e.observations[o]]
    /\ e.acquisitions = [a \in DOMAIN e.acquisitions |-> e.acquisitions[a]]
    /\ e.executions = [x \in DOMAIN e.executions |-> e.executions[x]]

\* Runs that completed and whose transcripts were captured.
AvailableRuns(e, at) ==
    {r \in DOMAIN e.collections :
        /\ e.collections[r].completed <= at
        /\ \A a \in e.collections[r].acquisitions : e.acquisitions[a].captured <= at}

AvailableObservations(e, at) ==
    {o \in DOMAIN e.observations :
        /\ e.observations[o].observed <= at
        /\ e.observations[o].run \in AvailableRuns(e, at) \cup {NoRun}
        /\ \A x \in e.observations[o].executions : e.executions[x] <= at}

\* What `View` returns, field by field.
Described(e, at, v) ==
    /\ Shaped(v) /\ Functional(v)
    /\ DOMAIN v.collections = AvailableRuns(e, at)
    /\ \A r \in AvailableRuns(e, at) :
        v.collections[r] = Cut(e.collections[r], AvailableObservations(e, at))
    /\ DOMAIN v.observations = AvailableObservations(e, at)
    /\ \A o \in AvailableObservations(e, at) : v.observations[o] = e.observations[o]
    /\ v.sources = e.sources \cap
        {e.observations[o].source : o \in AvailableObservations(e, at)}
    /\ DOMAIN v.acquisitions = {a \in DOMAIN e.acquisitions :
        \E r \in AvailableRuns(e, at) : a \in e.collections[r].acquisitions}
    /\ \A a \in DOMAIN v.acquisitions : v.acquisitions[a] = e.acquisitions[a]
    /\ DOMAIN v.executions = {x \in DOMAIN e.executions :
        \E o \in AvailableObservations(e, at) : x \in e.observations[o].executions}
    /\ \A x \in DOMAIN v.executions : v.executions[x] = e.executions[x]

-----------------------------------------------------------------------------
LEMMA CutFacts ==
    ASSUME NEW run \in Run, NEW kept
    PROVE  /\ Cut(run, kept) \in Run
           /\ Cut(run, kept).about = run.about
           /\ Cut(run, kept).completed = run.completed
           /\ Cut(run, kept).acquisitions = run.acquisitions
           /\ Cut(run, kept).observations = run.observations \cap kept
           /\ Cut(run, kept).authority = run.authority
BY DEF Run, Cut

LEMMA CutTwice ==
    ASSUME NEW run \in Run, NEW kept, NEW fewer, fewer \subseteq kept
    PROVE  Cut(Cut(run, kept), fewer) = Cut(run, fewer)
<1>1. /\ Cut(run, kept) \in Run
      /\ Cut(Cut(run, kept), fewer) = [Cut(run, kept) EXCEPT !.observations = @ \cap fewer]
      /\ Cut(run, kept).observations \cap fewer = run.observations \cap fewer
  BY CutFacts DEF Cut
<1>2. QED
  BY <1>1 DEF Run, Cut

\* The fields of a selection.
LEMMA SelectFields ==
    ASSUME NEW e, Shaped(e), Functional(e), NEW kept, NEW runs,
           kept \subseteq DOMAIN e.observations, runs \subseteq DOMAIN e.collections
    PROVE  LET s == Select(e, kept, runs)
           IN  /\ Shaped(s) /\ Functional(s)
               /\ DOMAIN s.collections = runs
               /\ \A r \in runs : s.collections[r] = Cut(e.collections[r], kept)
               /\ DOMAIN s.observations = kept
               /\ \A o \in kept : s.observations[o] = e.observations[o]
               /\ s.sources = e.sources \cap {e.observations[o].source : o \in kept}
               /\ s.acquisitions = e.acquisitions
               /\ s.executions = e.executions
<1> DEFINE s == Select(e, kept, runs)
<1>1. s = [collections |-> [r \in runs |-> Cut(e.collections[r], kept)],
           observations |-> Restrict(e.observations, kept),
           sources |-> e.sources \cap SourcesOf(Restrict(e.observations, kept)),
           acquisitions |-> e.acquisitions, executions |-> e.executions]
  BY DEF Select
<1>2. Restrict(e.observations, kept) = [o \in kept |-> e.observations[o]]
  BY DEF Restrict
<1>3. SourcesOf(Restrict(e.observations, kept)) = {e.observations[o].source : o \in kept}
  BY <1>2 DEF SourcesOf
<1> HIDE DEF s
<1>4. /\ s.collections = [r \in runs |-> Cut(e.collections[r], kept)]
      /\ s.observations = [o \in kept |-> e.observations[o]]
      /\ s.sources = e.sources \cap {e.observations[o].source : o \in kept}
      /\ s.acquisitions = e.acquisitions /\ s.executions = e.executions
  BY <1>1, <1>2, <1>3
<1>5. Shaped(s)
  BY <1>1, <1>4 DEF Shaped
<1>6. Functional(s)
  BY <1>4 DEF Functional
<1>7. QED
  BY <1>4, <1>5, <1>6 DEF s

LEMMA ReferencedFields ==
    ASSUME NEW e, Shaped(e), Functional(e)
    PROVE  LET s == Referenced(e)
           IN  /\ Shaped(s) /\ Functional(s)
               /\ s.collections = e.collections
               /\ s.observations = e.observations
               /\ s.sources = e.sources
               /\ DOMAIN s.acquisitions = {a \in DOMAIN e.acquisitions :
                    \E r \in DOMAIN e.collections : a \in e.collections[r].acquisitions}
               /\ \A a \in DOMAIN s.acquisitions : s.acquisitions[a] = e.acquisitions[a]
               /\ DOMAIN s.executions = {x \in DOMAIN e.executions :
                    \E o \in DOMAIN e.observations : x \in e.observations[o].executions}
               /\ \A x \in DOMAIN s.executions : s.executions[x] = e.executions[x]
<1> DEFINE s == Referenced(e)
           as == DOMAIN e.acquisitions \cap
                    UNION {e.collections[r].acquisitions : r \in DOMAIN e.collections}
           xs == DOMAIN e.executions \cap
                    UNION {e.observations[o].executions : o \in DOMAIN e.observations}
<1>1. s = [collections |-> e.collections, observations |-> e.observations,
           sources |-> e.sources, acquisitions |-> Restrict(e.acquisitions, as),
           executions |-> Restrict(e.executions, xs)]
  BY DEF Referenced
<1>2. /\ Restrict(e.acquisitions, as) = [a \in as |-> e.acquisitions[a]]
      /\ Restrict(e.executions, xs) = [x \in xs |-> e.executions[x]]
  BY DEF Restrict
<1>3. /\ as = {a \in DOMAIN e.acquisitions :
                \E r \in DOMAIN e.collections : a \in e.collections[r].acquisitions}
      /\ xs = {x \in DOMAIN e.executions :
                \E o \in DOMAIN e.observations : x \in e.observations[o].executions}
  OBVIOUS
<1> HIDE DEF s, as, xs
<1>4. /\ s.collections = e.collections /\ s.observations = e.observations
      /\ s.sources = e.sources
      /\ s.acquisitions = [a \in as |-> e.acquisitions[a]]
      /\ s.executions = [x \in xs |-> e.executions[x]]
  BY <1>1, <1>2
<1>5. Shaped(s)
  BY <1>1, <1>4 DEF Shaped
<1>6. Functional(s)
  BY <1>4 DEF Functional
<1>7. QED
  BY <1>3, <1>4, <1>5, <1>6 DEF s

\* The view of any evidence whose runs are runs.
LEMMA ViewDescribed ==
    ASSUME NEW e, Shaped(e), Functional(e), NEW at,
           \A r \in DOMAIN e.collections : e.collections[r] \in Run
    PROVE  Described(e, at, View(e, at))
<1> DEFINE kept == {o \in DOMAIN e.observations : e.observations[o].observed <= at}
           runs == {r \in DOMAIN e.collections : e.collections[r].completed <= at}
           h == AsOf(e, at)
           R == AvailableRuns(e, at)
           O == AvailableObservations(e, at)
           s == Select(h, O, R)
<1>1. h = Select(e, kept, runs)
  BY DEF AsOf
<1> HIDE DEF h
<1>2. /\ Shaped(h) /\ Functional(h)
      /\ DOMAIN h.collections = runs
      /\ \A r \in runs : h.collections[r] = Cut(e.collections[r], kept)
      /\ DOMAIN h.observations = kept
      /\ \A o \in kept : h.observations[o] = e.observations[o]
      /\ h.sources = e.sources \cap {e.observations[o].source : o \in kept}
      /\ h.acquisitions = e.acquisitions /\ h.executions = e.executions
  BY <1>1, SelectFields
<1>3. \A r \in runs : h.collections[r].acquisitions = e.collections[r].acquisitions
  BY <1>2, CutFacts
<1>4. Captured(h, at) = R
  BY <1>2, <1>3 DEF Captured, AvailableRuns
<1>5. Justified(h, R, at) = O
  BY <1>2 DEF Justified, AvailableObservations
<1>6. R \subseteq runs /\ O \subseteq kept
  BY DEF AvailableRuns, AvailableObservations
<1>7. /\ Shaped(s) /\ Functional(s)
      /\ DOMAIN s.collections = R
      /\ \A r \in R : s.collections[r] = Cut(h.collections[r], O)
      /\ DOMAIN s.observations = O
      /\ \A o \in O : s.observations[o] = h.observations[o]
      /\ s.sources = h.sources \cap {h.observations[o].source : o \in O}
      /\ s.acquisitions = h.acquisitions /\ s.executions = h.executions
  BY <1>2, <1>6, SelectFields
<1>8. \A r \in R : s.collections[r] = Cut(e.collections[r], O)
  <2> SUFFICES ASSUME NEW r \in R PROVE s.collections[r] = Cut(e.collections[r], O)
    OBVIOUS
  <2>1. e.collections[r] \in Run
    BY <1>6
  <2>2. Cut(Cut(e.collections[r], kept), O) = Cut(e.collections[r], O)
    BY <1>6, <2>1, CutTwice
  <2>3. QED
    BY <1>2, <1>6, <1>7, <2>2
<1>9. \A r \in R : s.collections[r].acquisitions = e.collections[r].acquisitions
  BY <1>6, <1>8, CutFacts
<1>10. \A o \in O : s.observations[o] = e.observations[o]
  BY <1>2, <1>6, <1>7
<1>11. s.sources = e.sources \cap {e.observations[o].source : o \in O}
  <2>1. {h.observations[o].source : o \in O} = {e.observations[o].source : o \in O}
    BY <1>2, <1>6
  <2>2. {e.observations[o].source : o \in O} \subseteq {e.observations[o].source : o \in kept}
    BY <1>6
  <2>3. QED
    BY <1>2, <1>7, <2>1, <2>2
<1>12. View(e, at) = Referenced(s)
  BY <1>4, <1>5 DEF View, h
<1> HIDE DEF s, R, O, kept, runs
<1>13. Described(e, at, Referenced(s))
  <2> DEFINE v == Referenced(s)
  <2>1. /\ Shaped(v) /\ Functional(v)
        /\ v.collections = s.collections /\ v.observations = s.observations
        /\ v.sources = s.sources
        /\ DOMAIN v.acquisitions = {a \in DOMAIN s.acquisitions :
              \E r \in DOMAIN s.collections : a \in s.collections[r].acquisitions}
        /\ \A a \in DOMAIN v.acquisitions : v.acquisitions[a] = s.acquisitions[a]
        /\ DOMAIN v.executions = {x \in DOMAIN s.executions :
              \E o \in DOMAIN s.observations : x \in s.observations[o].executions}
        /\ \A x \in DOMAIN v.executions : v.executions[x] = s.executions[x]
    BY <1>7, ReferencedFields
  <2> HIDE DEF v
  <2>2. DOMAIN v.acquisitions = {a \in DOMAIN e.acquisitions :
              \E r \in R : a \in e.collections[r].acquisitions}
    BY <2>1, <1>2, <1>7, <1>9
  <2>3. DOMAIN v.executions = {x \in DOMAIN e.executions :
              \E o \in O : x \in e.observations[o].executions}
    BY <2>1, <1>2, <1>7, <1>10
  <2>4. Described(e, at, v)
    BY <2>1, <2>2, <2>3, <1>2, <1>7, <1>8, <1>10, <1>11 DEF Described, R, O
  <2>5. QED
    BY <2>4 DEF v
<1>14. QED
  BY <1>12, <1>13

-----------------------------------------------------------------------------
\* What a run records of its observations is retained with it.
Recorded(e) ==
    \A r \in DOMAIN e.collections :
        e.collections[r].observations \subseteq DOMAIN e.observations

Retained(e) ==
    /\ Shaped(e) /\ Functional(e)
    /\ Typed(e)
    /\ Resolves(e)
    /\ Recorded(e)

IInv == TypeOK /\ Retained(evidence)

\* A function that holds what f holds, and what g holds elsewhere.
Joins(u, f, g) ==
    /\ DOMAIN u = DOMAIN f \cup DOMAIN g
    /\ \A x \in DOMAIN f : u[x] = f[x]
    /\ \A x \in DOMAIN g : x \notin DOMAIN f => u[x] = g[x]
    /\ u = [x \in DOMAIN u |-> u[x]]

LEMMA UnionJoins ==
    ASSUME NEW f, NEW g
    PROVE  Joins(Union(f, g), f, g)
BY DEF Joins, Union

\* A command retains what it collected beside what was there.
LEMMA MergedRetained ==
    ASSUME NEW e, Retained(e), NEW d, Typed(d), Recorded(d), LinksHold(Merged(e, d))
    PROVE  Retained(Merged(e, d))
<1> DEFINE n == Merged(e, d)
<1>1. /\ n.collections = Union(e.collections, d.collections)
      /\ n.observations = Union(e.observations, d.observations)
      /\ n.sources = e.sources \cup d.sources
      /\ n.acquisitions = Union(e.acquisitions, d.acquisitions)
      /\ n.executions = Union(e.executions, d.executions)
      /\ n = [collections |-> n.collections, observations |-> n.observations,
              sources |-> n.sources, acquisitions |-> n.acquisitions,
              executions |-> n.executions]
  BY DEF Merged
<1>2. Resolves(n)
  BY DEF LinksHold
<1> HIDE DEF n
<1>3. Shaped(n)
  BY <1>1 DEF Shaped
<1>4. /\ Joins(n.collections, e.collections, d.collections)
      /\ Joins(n.observations, e.observations, d.observations)
      /\ Joins(n.acquisitions, e.acquisitions, d.acquisitions)
      /\ Joins(n.executions, e.executions, d.executions)
  BY <1>1, UnionJoins
<1>5. Functional(n)
  BY <1>4 DEF Functional, Joins
<1>6. Typed(n)
  <2>1. /\ DOMAIN n.collections \subseteq Runs
        /\ \A r \in DOMAIN n.collections : n.collections[r] \in Run
    BY <1>4 DEF Joins, Retained, Typed
  <2>2. /\ DOMAIN n.observations \subseteq Observations
        /\ \A o \in DOMAIN n.observations : n.observations[o] \in Observation
    BY <1>4 DEF Joins, Retained, Typed
  <2>3. /\ DOMAIN n.acquisitions \subseteq Acquisitions
        /\ \A a \in DOMAIN n.acquisitions : n.acquisitions[a] \in Acquisition
    BY <1>4 DEF Joins, Retained, Typed
  <2>4. /\ DOMAIN n.executions \subseteq Executions
        /\ \A x \in DOMAIN n.executions : n.executions[x] \in Time
    BY <1>4 DEF Joins, Retained, Typed
  <2>5. n.sources \subseteq Sources
    BY <1>1 DEF Retained, Typed
  <2>6. QED
    BY <2>1, <2>2, <2>3, <2>4, <2>5 DEF Typed
<1>7. Recorded(n)
  <2> SUFFICES ASSUME NEW r \in DOMAIN n.collections
               PROVE  n.collections[r].observations \subseteq DOMAIN n.observations
    BY DEF Recorded
  <2>1. DOMAIN n.observations = DOMAIN e.observations \cup DOMAIN d.observations
    BY <1>4 DEF Joins
  <2>2. CASE r \in DOMAIN e.collections
    <3>1. n.collections[r] = e.collections[r]
      BY <2>2, <1>4 DEF Joins
    <3>2. e.collections[r].observations \subseteq DOMAIN e.observations
      BY <2>2 DEF Retained, Recorded
    <3>3. QED
      BY <2>1, <3>1, <3>2
  <2>3. CASE r \notin DOMAIN e.collections
    <3>1. r \in DOMAIN d.collections /\ n.collections[r] = d.collections[r]
      BY <2>3, <1>4 DEF Joins
    <3>2. d.collections[r].observations \subseteq DOMAIN d.observations
      BY <3>1 DEF Recorded
    <3>3. QED
      BY <2>1, <3>1, <3>2
  <2>4. QED
    BY <2>2, <2>3
<1>8. QED
  BY <1>2, <1>3, <1>5, <1>6, <1>7 DEF Retained, n

LEMMA CommitRetains ==
    ASSUME IInv, NEW d, Typed(d), Recorded(d), Commit(d), UNCHANGED <<withdrawn, now>>
    PROVE  IInv'
<1>1. Retained(evidence')
  BY MergedRetained DEF IInv, Commit
<1>2. commands' \in 0 .. MaxCommands
  BY HistoricalAssumption DEF IInv, TypeOK, Commit
<1>3. QED
  BY <1>1, <1>2 DEF IInv, TypeOK, Retained

LEMMA RemoteRetains ==
    ASSUME IInv, NEW r \in Runs, NEW a \in Acquisitions, NEW os \in SUBSET Observations,
           NEW about \in About, NEW contract \in Contracts, NEW supports \in BOOLEAN,
           NEW source \in Sources, NEW at \in Time,
           CollectRemote(r, a, os, about, contract, supports, source, at)
    PROVE  IInv'
<1> DEFINE run == [about |-> about, completed |-> at, acquisitions |-> {a},
                   observations |-> os,
                   authority |-> IF supports THEN {about.proposition} ELSE {}]
           transcript == [about |-> about, captured |-> at,
                          contract |-> contract, supports |-> supports]
           d == [collections |-> Only(r, run),
                 observations |-> [o \in os |-> [run |-> r, observed |-> at,
                     executions |-> {}, source |-> source]],
                 sources |-> IF os = {} THEN {} ELSE {source},
                 acquisitions |-> Only(a, transcript),
                 executions |-> Empty]
<1>1. Commit(d) /\ UNCHANGED <<withdrawn, now>>
  BY DEF CollectRemote, Commit
<1>2. run \in Run /\ transcript \in Acquisition
  BY DEF Run, Acquisition, About
<1>3. \A o \in os : d.observations[o] \in Observation
  BY DEF Observation
<1>4. /\ d.collections = [y \in {r} |-> run] /\ d.acquisitions = [y \in {a} |-> transcript]
      /\ DOMAIN d.observations = os
      /\ d.executions = Empty /\ d.sources \subseteq Sources
      /\ run.observations = os
  BY DEF Only
<1> HIDE DEF d, run, transcript
<1>5. Typed(d)
  BY <1>2, <1>3, <1>4 DEF Typed, Empty
<1>6. Recorded(d)
  BY <1>4 DEF Recorded
<1>7. QED
  BY <1>1, <1>5, <1>6, CommitRetains

LEMMA LocalRetains ==
    ASSUME IInv, NEW x \in Executions, NEW o \in Observations, NEW source \in Sources,
           NEW at \in Time, CollectLocal(x, o, source, at)
    PROVE  IInv'
<1> DEFINE observation == [run |-> NoRun, observed |-> at,
                           executions |-> {x}, source |-> source]
           d == [collections |-> Empty, observations |-> Only(o, observation),
                 sources |-> {source},
                 acquisitions |-> Empty, executions |-> Only(x, now)]
<1>1. Commit(d) /\ UNCHANGED <<withdrawn, now>>
  BY DEF CollectLocal, Commit
<1>2. observation \in Observation /\ now \in Time
  BY DEF Observation, IInv, TypeOK
<1>3. /\ d.collections = Empty /\ d.acquisitions = Empty /\ d.sources = {source}
      /\ d.observations = [y \in {o} |-> observation]
      /\ d.executions = [y \in {x} |-> now]
  BY DEF Only
<1> HIDE DEF d, observation
<1>4. Typed(d)
  BY <1>2, <1>3 DEF Typed, Empty
<1>5. Recorded(d)
  BY <1>3 DEF Recorded, Empty
<1>6. QED
  BY <1>1, <1>4, <1>5, CommitRetains

LEMMA ManifestRetains ==
    ASSUME IInv, NEW r \in Runs, NEW linked \in SUBSET DOMAIN evidence.acquisitions,
           NEW as \in SUBSET Acquisitions, NEW os \in SUBSET Observations,
           NEW about \in About, NEW authority \in SUBSET Propositions,
           NEW completed \in Time,
           NEW brought \in [as -> [about : {about}, captured : Time,
                                   contract : Contracts, supports : {TRUE}]],
           NEW observations \in
               [os -> [run : {r, NoRun}, observed : Time, source : Sources,
                       executions : SUBSET DOMAIN evidence.executions]],
           CollectManifest(r, linked, brought, about, authority, completed, observations)
    PROVE  IInv'
<1> DEFINE recorded == {o \in DOMAIN observations : observations[o].run = r}
           run == [about |-> about, completed |-> completed,
                   acquisitions |-> linked \cup DOMAIN brought,
                   authority |-> authority, observations |-> recorded]
           d == [collections |-> Only(r, run), acquisitions |-> brought,
                 observations |-> observations,
                 sources |-> SourcesOf(observations), executions |-> Empty]
<1>1. Commit(d) /\ UNCHANGED <<withdrawn, now>>
  BY DEF CollectManifest, Commit
<1>2. /\ DOMAIN evidence.acquisitions \subseteq Acquisitions
      /\ DOMAIN evidence.executions \subseteq Executions
  BY DEF IInv, TypeOK, Typed
<1>3. run \in Run
  BY <1>2 DEF Run
<1>4. \A b \in as : brought[b] \in Acquisition
  BY DEF Acquisition
<1>5. \A o \in os : observations[o] \in Observation
  <2> SUFFICES ASSUME NEW o \in os PROVE observations[o] \in Observation
    OBVIOUS
  <2>1. observations[o] \in [run : {r, NoRun}, observed : Time, source : Sources,
                             executions : SUBSET DOMAIN evidence.executions]
    OBVIOUS
  <2>2. QED
    BY <1>2, <2>1 DEF Observation
<1>6. /\ d.collections = [y \in {r} |-> run] /\ d.acquisitions = brought
      /\ d.observations = observations /\ d.sources = SourcesOf(observations)
      /\ d.executions = Empty
      /\ run.observations \subseteq DOMAIN observations
  BY DEF Only
<1>7. SourcesOf(observations) \subseteq Sources
  BY DEF SourcesOf
<1> HIDE DEF d, run
<1>8. Typed(d)
  BY <1>3, <1>4, <1>5, <1>6, <1>7 DEF Typed, Empty
<1>9. Recorded(d)
  BY <1>6 DEF Recorded
<1>10. QED
  BY <1>1, <1>8, <1>9, CommitRetains

LEMMA InitRetains == Init => IInv
<1> SUFFICES ASSUME Init PROVE IInv
  OBVIOUS
<1>1. evidence = NoEvidence
  BY DEF Init
<1>2. /\ NoEvidence.collections = Empty /\ NoEvidence.observations = Empty
      /\ NoEvidence.sources = {}
      /\ NoEvidence.acquisitions = Empty /\ NoEvidence.executions = Empty
      /\ Shaped(NoEvidence)
  BY DEF NoEvidence, Shaped
<1>3. DOMAIN Empty = {} /\ Empty = [y \in DOMAIN Empty |-> Empty[y]]
  BY DEF Empty
<1>4. Typed(NoEvidence)
  BY <1>2, <1>3 DEF Typed
<1>5. Functional(NoEvidence) /\ Resolves(NoEvidence) /\ Recorded(NoEvidence)
  BY <1>2, <1>3 DEF Functional, Resolves, Recorded
<1>6. withdrawn \subseteq Contracts /\ now \in Time /\ commands \in 0 .. MaxCommands
  BY HistoricalAssumption DEF Init, Time
<1>7. QED
  BY <1>1, <1>2, <1>4, <1>5, <1>6 DEF IInv, TypeOK, Retained

LEMMA NextRetains == IInv /\ [Next]_vars => IInv'
<1> SUFFICES ASSUME IInv, [Next]_vars PROVE IInv'
  OBVIOUS
<1>1. ASSUME NEW r \in Runs, NEW a \in Acquisitions, NEW os \in SUBSET Observations,
             NEW about \in About, NEW contract \in Contracts, NEW supports \in BOOLEAN,
             NEW s \in Sources, NEW at \in Time,
             CollectRemote(r, a, os, about, contract, supports, s, at)
      PROVE  IInv'
  BY <1>1, RemoteRetains
<1>2. ASSUME NEW x \in Executions, NEW o \in Observations, NEW s \in Sources,
             NEW at \in Time, CollectLocal(x, o, s, at)
      PROVE  IInv'
  BY <1>2, LocalRetains
<1>3. ASSUME NEW r \in Runs \ DOMAIN evidence.collections,
             NEW linked \in SUBSET DOMAIN evidence.acquisitions,
             NEW as \in SUBSET (Acquisitions \ DOMAIN evidence.acquisitions),
             NEW os \in SUBSET (Observations \ DOMAIN evidence.observations),
             NEW about \in About, NEW authority \in SUBSET Propositions,
             NEW completed \in Time,
             NEW brought \in [as -> [about : {about}, captured : Time,
                                     contract : Contracts, supports : {TRUE}]],
             NEW observations \in
                 [os -> [run : {r, NoRun}, observed : Time, source : Sources,
                         executions : SUBSET DOMAIN evidence.executions]],
             CollectManifest(r, linked, brought, about, authority, completed, observations)
      PROVE  IInv'
  BY <1>3, ManifestRetains
<1>4. ASSUME NEW contract \in Contracts, Withdraw(contract)
      PROVE  IInv'
  BY <1>4 DEF IInv, TypeOK, Retained, Withdraw
<1>5. CASE Tick
  BY <1>5, HistoricalAssumption DEF IInv, TypeOK, Retained, Tick, Time
<1>6. CASE UNCHANGED vars
  BY <1>6 DEF IInv, TypeOK, Retained, vars
<1>7. QED
  BY <1>1, <1>2, <1>3, <1>4, <1>5, <1>6 DEF Next

LEMMA Invariant == Spec => []IInv
BY InitRetains, NextRetains, PTL DEF Spec

\* Every reachable state of the retained evidence is well typed.
THEOREM TypeCorrect == Spec => []TypeOK
<1>1. IInv => TypeOK
  BY DEF IInv
<1>2. QED
  BY <1>1, Invariant, PTL

-----------------------------------------------------------------------------
LEMMA ViewIsDescribed ==
    ASSUME NEW e, Retained(e), NEW at
    PROVE  Described(e, at, View(e, at))
BY ViewDescribed DEF Retained, Typed

LEMMA ViewClosed ==
    ASSUME NEW e, Retained(e), NEW at, NEW v, Described(e, at, v)
    PROVE  ClosedView(v, at)
<1> DEFINE R == AvailableRuns(e, at)
           O == AvailableObservations(e, at)
<1>1. /\ R \subseteq DOMAIN e.collections /\ O \subseteq DOMAIN e.observations
      /\ \A r \in R : e.collections[r] \in Run
  BY DEF AvailableRuns, AvailableObservations, Retained, Typed
<1>2. /\ DOMAIN v.collections = R /\ DOMAIN v.observations = O
      /\ \A r \in R : v.collections[r] = Cut(e.collections[r], O)
      /\ \A o \in O : v.observations[o] = e.observations[o]
  BY DEF Described
<1>3. \A r \in R : /\ v.collections[r].completed = e.collections[r].completed
                   /\ v.collections[r].acquisitions = e.collections[r].acquisitions
                   /\ v.collections[r].observations = e.collections[r].observations \cap O
  BY <1>1, <1>2, CutFacts
<1>4. /\ DOMAIN v.acquisitions = {a \in DOMAIN e.acquisitions :
            \E r \in R : a \in e.collections[r].acquisitions}
      /\ \A a \in DOMAIN v.acquisitions : v.acquisitions[a] = e.acquisitions[a]
      /\ DOMAIN v.executions = {x \in DOMAIN e.executions :
            \E o \in O : x \in e.observations[o].executions}
      /\ \A x \in DOMAIN v.executions : v.executions[x] = e.executions[x]
      /\ v.sources = e.sources \cap {e.observations[o].source : o \in O}
  BY DEF Described
<1>5. /\ \A r \in DOMAIN e.collections :
            e.collections[r].acquisitions \subseteq DOMAIN e.acquisitions
      /\ \A o \in DOMAIN e.observations :
            /\ e.observations[o].executions \subseteq DOMAIN e.executions
            /\ e.observations[o].source \in e.sources
  BY DEF Retained, Resolves
<1>6. /\ \A r \in R : /\ e.collections[r].completed <= at
                      /\ \A a \in e.collections[r].acquisitions :
                            e.acquisitions[a].captured <= at
      /\ \A o \in O : /\ e.observations[o].observed <= at
                      /\ e.observations[o].run \in R \cup {NoRun}
                      /\ \A x \in e.observations[o].executions : e.executions[x] <= at
  BY DEF AvailableRuns, AvailableObservations
<1> HIDE DEF R, O
<1>7. Resolves(v)
  <2>1. ASSUME NEW r \in R
        PROVE  v.collections[r].acquisitions \subseteq DOMAIN v.acquisitions
    BY <1>1, <1>3, <1>4, <1>5
  <2>2. ASSUME NEW o \in O
        PROVE  /\ v.observations[o].run \in DOMAIN v.collections \cup {NoRun}
               /\ v.observations[o].executions \subseteq DOMAIN v.executions
               /\ v.observations[o].source \in v.sources
    BY <1>1, <1>2, <1>4, <1>5, <1>6
  <2>3. QED
    BY <1>2, <2>1, <2>2 DEF Resolves
<1>8. \A r \in DOMAIN v.collections :
        /\ v.collections[r].completed <= at
        /\ v.collections[r].observations \subseteq DOMAIN v.observations
  BY <1>2, <1>3, <1>6
<1>9. \A o \in DOMAIN v.observations : v.observations[o].observed <= at
  BY <1>2, <1>6
<1>10. \A a \in DOMAIN v.acquisitions :
        /\ v.acquisitions[a].captured <= at
        /\ \E r \in DOMAIN v.collections : a \in v.collections[r].acquisitions
  BY <1>2, <1>3, <1>4, <1>6
<1>11. \A x \in DOMAIN v.executions :
        /\ v.executions[x] <= at
        /\ \E o \in DOMAIN v.observations : x \in v.observations[o].executions
  BY <1>2, <1>4, <1>6
<1>12. \A s \in v.sources : \E o \in DOMAIN v.observations : v.observations[o].source = s
  BY <1>2, <1>4
<1>13. QED
  BY <1>7, <1>8, <1>9, <1>10, <1>11, <1>12 DEF ClosedView

\* Every view is referentially closed and holds nothing later than its time,
\* whatever was retained, in whatever order, with whatever times.
THEOREM Closed == Spec => []ViewsClosed
<1>1. IInv => ViewsClosed
  BY ViewIsDescribed, ViewClosed DEF IInv, ViewsClosed
<1>2. QED
  BY <1>1, Invariant, PTL

\* A view holds the observations that everything behind them justifies, no
\* more and no fewer.
THEOREM Exact == Spec => []ViewsExact
<1>1. ASSUME IInv, NEW at \in Time
      PROVE  DOMAIN View(evidence, at).observations
                = {o \in DOMAIN evidence.observations : Known(evidence, o, at)}
  <2>1. DOMAIN View(evidence, at).observations = AvailableObservations(evidence, at)
    BY <1>1, ViewIsDescribed DEF IInv, Described
  <2>2. \A o \in DOMAIN evidence.observations :
            evidence.observations[o].run \in DOMAIN evidence.collections \cup {NoRun}
    BY <1>1 DEF IInv, Retained, Resolves
  <2>3. NoRun \notin DOMAIN evidence.collections
    BY <1>1, HistoricalAssumption DEF IInv, TypeOK, Typed
  <2>4. QED
    BY <2>1, <2>2, <2>3 DEF Known, KnownRun, AvailableObservations, AvailableRuns
<1>2. IInv => ViewsExact
  BY <1>1 DEF ViewsExact
<1>3. QED
  BY <1>2, Invariant, PTL

-----------------------------------------------------------------------------
\* Functions with the same values are the same.
Alike(f, g) == DOMAIN f = DOMAIN g /\ \A x \in DOMAIN f : f[x] = g[x]

LEMMA SameEvidence ==
    ASSUME NEW u, NEW w, Shaped(u), Functional(u), Shaped(w), Functional(w),
           Alike(u.collections, w.collections), Alike(u.observations, w.observations),
           u.sources = w.sources,
           Alike(u.acquisitions, w.acquisitions), Alike(u.executions, w.executions)
    PROVE  u = w
<1>1. /\ u.collections = w.collections /\ u.observations = w.observations
      /\ u.acquisitions = w.acquisitions /\ u.executions = w.executions
  BY DEF Functional, Alike
<1>2. QED
  BY <1>1 DEF Shaped

\* What was there early can be told from what was there late.
LEMMA AvailableLater ==
    ASSUME NEW e, Retained(e), NEW late \in Time, NEW early \in 0 .. late,
           NEW v, Described(e, late, v)
    PROVE  /\ AvailableRuns(v, early) = AvailableRuns(e, early)
           /\ AvailableObservations(v, early) = AvailableObservations(e, early)
           /\ AvailableRuns(e, early) \subseteq AvailableRuns(e, late)
           /\ AvailableObservations(e, early) \subseteq AvailableObservations(e, late)
           /\ \A r \in AvailableRuns(e, late) :
                v.collections[r].acquisitions = e.collections[r].acquisitions
<1> DEFINE R == AvailableRuns(e, late)
           O == AvailableObservations(e, late)
           Q == AvailableRuns(e, early)
           P == AvailableObservations(e, early)
<1>1. \A t \in Time : t <= early => t <= late
  BY HistoricalAssumption DEF Time
<1>2. /\ \A r \in DOMAIN e.collections :
            /\ e.collections[r] \in Run
            /\ e.collections[r].completed \in Time
            /\ e.collections[r].acquisitions \subseteq DOMAIN e.acquisitions
      /\ \A o \in DOMAIN e.observations :
            /\ e.observations[o].observed \in Time
            /\ e.observations[o].executions \subseteq DOMAIN e.executions
      /\ \A a \in DOMAIN e.acquisitions : e.acquisitions[a].captured \in Time
      /\ \A x \in DOMAIN e.executions : e.executions[x] \in Time
  BY DEF Retained, Typed, Resolves, Run, Observation, Acquisition
<1>3. Q \subseteq R
  BY <1>1, <1>2 DEF AvailableRuns
<1>4. P \subseteq O
  <2> SUFFICES ASSUME NEW o \in P PROVE o \in O
    OBVIOUS
  <2>1. /\ o \in DOMAIN e.observations /\ e.observations[o].observed <= early
        /\ e.observations[o].run \in Q \cup {NoRun}
        /\ \A x \in e.observations[o].executions : e.executions[x] <= early
    BY DEF AvailableObservations
  <2>2. \A x \in e.observations[o].executions : e.executions[x] <= late
    BY <1>1, <1>2, <2>1
  <2>3. QED
    BY <1>1, <1>2, <1>3, <2>1, <2>2 DEF AvailableObservations
<1>5. /\ DOMAIN v.collections = R /\ DOMAIN v.observations = O
      /\ \A r \in R : v.collections[r] = Cut(e.collections[r], O)
      /\ \A o \in O : v.observations[o] = e.observations[o]
      /\ DOMAIN v.acquisitions = {a \in DOMAIN e.acquisitions :
            \E r \in R : a \in e.collections[r].acquisitions}
      /\ \A a \in DOMAIN v.acquisitions : v.acquisitions[a] = e.acquisitions[a]
      /\ DOMAIN v.executions = {x \in DOMAIN e.executions :
            \E o \in O : x \in e.observations[o].executions}
      /\ \A x \in DOMAIN v.executions : v.executions[x] = e.executions[x]
  BY DEF Described
<1>6. R \subseteq DOMAIN e.collections /\ O \subseteq DOMAIN e.observations
  BY DEF AvailableRuns, AvailableObservations
<1>7. \A r \in R : /\ v.collections[r].completed = e.collections[r].completed
                   /\ v.collections[r].acquisitions = e.collections[r].acquisitions
  BY <1>2, <1>5, <1>6, CutFacts
<1>8. \A r \in R : \A a \in e.collections[r].acquisitions :
            v.acquisitions[a] = e.acquisitions[a]
  BY <1>2, <1>5, <1>6
<1>9. \A o \in O : \A x \in e.observations[o].executions :
            v.executions[x] = e.executions[x]
  BY <1>2, <1>5, <1>6
<1>10. AvailableRuns(v, early) = Q
  <2>1. AvailableRuns(v, early) = {r \in R :
            /\ e.collections[r].completed <= early
            /\ \A a \in e.collections[r].acquisitions : e.acquisitions[a].captured <= early}
    BY <1>5, <1>7, <1>8 DEF AvailableRuns
  <2>2. QED
    BY <1>3, <1>6, <2>1 DEF AvailableRuns
<1>11. AvailableObservations(v, early) = P
  <2>1. AvailableObservations(v, early) = {o \in O :
            /\ e.observations[o].observed <= early
            /\ e.observations[o].run \in Q \cup {NoRun}
            /\ \A x \in e.observations[o].executions : e.executions[x] <= early}
    BY <1>5, <1>9, <1>10 DEF AvailableObservations
  <2>2. QED
    BY <1>4, <1>6, <2>1 DEF AvailableObservations
<1>12. QED
  BY <1>3, <1>4, <1>7, <1>10, <1>11

LEMMA ViewOfView ==
    ASSUME NEW e, Retained(e), NEW late \in Time, NEW early \in 0 .. late
    PROVE  View(View(e, late), early) = View(e, early)
<1> DEFINE v == View(e, late)
           w == View(v, early)
           u == View(e, early)
           R == AvailableRuns(e, late)
           O == AvailableObservations(e, late)
           Q == AvailableRuns(e, early)
           P == AvailableObservations(e, early)
<1>1. Described(e, late, v) /\ Described(e, early, u)
  BY ViewIsDescribed
<1> HIDE DEF v
<1>2. /\ R \subseteq DOMAIN e.collections
      /\ \A r \in R : e.collections[r] \in Run
  BY DEF AvailableRuns, Retained, Typed
<1>3. /\ Shaped(v) /\ Functional(v)
      /\ DOMAIN v.collections = R
      /\ \A r \in R : v.collections[r] = Cut(e.collections[r], O)
      /\ DOMAIN v.observations = O
      /\ \A o \in O : v.observations[o] = e.observations[o]
      /\ v.sources = e.sources \cap {e.observations[o].source : o \in O}
      /\ DOMAIN v.acquisitions = {a \in DOMAIN e.acquisitions :
            \E r \in R : a \in e.collections[r].acquisitions}
      /\ \A a \in DOMAIN v.acquisitions : v.acquisitions[a] = e.acquisitions[a]
      /\ DOMAIN v.executions = {x \in DOMAIN e.executions :
            \E o \in O : x \in e.observations[o].executions}
      /\ \A x \in DOMAIN v.executions : v.executions[x] = e.executions[x]
  BY <1>1 DEF Described
<1>4. \A r \in DOMAIN v.collections : v.collections[r] \in Run
  BY <1>2, <1>3, CutFacts
<1>5. Described(v, early, w)
  BY <1>3, <1>4, ViewDescribed
<1> HIDE DEF w, u
<1>6. /\ AvailableRuns(v, early) = Q /\ AvailableObservations(v, early) = P
      /\ Q \subseteq R /\ P \subseteq O
      /\ \A r \in R : v.collections[r].acquisitions = e.collections[r].acquisitions
  BY <1>1, AvailableLater
<1>7. Alike(w.collections, u.collections)
  <2>1. \A r \in Q : w.collections[r] = Cut(v.collections[r], P)
    BY <1>5, <1>6 DEF Described
  <2>2. \A r \in Q : u.collections[r] = Cut(e.collections[r], P)
    BY <1>1 DEF Described
  <2>3. \A r \in Q : Cut(Cut(e.collections[r], O), P) = Cut(e.collections[r], P)
    BY <1>2, <1>6, CutTwice
  <2>4. DOMAIN w.collections = Q /\ DOMAIN u.collections = Q
    BY <1>1, <1>5, <1>6 DEF Described
  <2> HIDE DEF Q, P, R, O
  <2>5. \A r \in Q : w.collections[r] = u.collections[r]
    BY <1>3, <1>6, <2>1, <2>2, <2>3
  <2>6. QED
    BY <2>4, <2>5 DEF Alike
<1>8. Alike(w.observations, u.observations)
  <2>1. /\ DOMAIN w.observations = P /\ DOMAIN u.observations = P
        /\ \A o \in P : w.observations[o] = v.observations[o]
        /\ \A o \in P : u.observations[o] = e.observations[o]
    BY <1>1, <1>5, <1>6 DEF Described
  <2>2. QED
    BY <1>3, <1>6, <2>1 DEF Alike
<1>9. w.sources = u.sources
  <2>1. /\ w.sources = v.sources \cap {v.observations[o].source : o \in P}
        /\ u.sources = e.sources \cap {e.observations[o].source : o \in P}
    BY <1>1, <1>5, <1>6 DEF Described
  <2>2. {v.observations[o].source : o \in P} = {e.observations[o].source : o \in P}
    BY <1>3, <1>6
  <2>3. {e.observations[o].source : o \in P} \subseteq {e.observations[o].source : o \in O}
    BY <1>6
  <2>4. QED
    BY <1>3, <2>1, <2>2, <2>3
<1>10. Alike(w.acquisitions, u.acquisitions)
  <2>1. /\ DOMAIN w.acquisitions = {a \in DOMAIN v.acquisitions :
              \E r \in Q : a \in v.collections[r].acquisitions}
        /\ \A a \in DOMAIN w.acquisitions : w.acquisitions[a] = v.acquisitions[a]
    BY <1>5, <1>6 DEF Described
  <2>2. /\ DOMAIN u.acquisitions = {a \in DOMAIN e.acquisitions :
              \E r \in Q : a \in e.collections[r].acquisitions}
        /\ \A a \in DOMAIN u.acquisitions : u.acquisitions[a] = e.acquisitions[a]
    BY <1>1 DEF Described
  <2> HIDE DEF Q, P, R, O
  <2>3. DOMAIN w.acquisitions = DOMAIN u.acquisitions
    BY <1>3, <1>6, <2>1, <2>2
  <2>4. QED
    BY <1>3, <2>1, <2>2, <2>3 DEF Alike
<1>11. Alike(w.executions, u.executions)
  <2>1. /\ DOMAIN w.executions = {x \in DOMAIN v.executions :
              \E o \in P : x \in v.observations[o].executions}
        /\ \A x \in DOMAIN w.executions : w.executions[x] = v.executions[x]
    BY <1>5, <1>6 DEF Described
  <2>2. /\ DOMAIN u.executions = {x \in DOMAIN e.executions :
              \E o \in P : x \in e.observations[o].executions}
        /\ \A x \in DOMAIN u.executions : u.executions[x] = e.executions[x]
    BY <1>1 DEF Described
  <2> HIDE DEF Q, P, R, O
  <2>3. DOMAIN w.executions = DOMAIN u.executions
    BY <1>3, <1>6, <2>1, <2>2
  <2>4. QED
    BY <1>3, <2>1, <2>2, <2>3 DEF Alike
<1>12. /\ Shaped(w) /\ Functional(w) /\ Shaped(u) /\ Functional(u)
  BY <1>1, <1>5 DEF Described
<1>13. w = u
  BY <1>7, <1>8, <1>9, <1>10, <1>11, <1>12, SameEvidence
<1>14. QED
  BY <1>13 DEF w, u, v

\* An earlier view can be taken of any later one.
THEOREM Compose == Spec => []ViewsCompose
<1>1. IInv => ViewsCompose
  BY ViewOfView DEF IInv, ViewsCompose
<1>2. QED
  BY <1>1, Invariant, PTL

-----------------------------------------------------------------------------
\* Everything that was retained is there, as it was.
Keeps(f, g) == DOMAIN f \subseteq DOMAIN g /\ \A x \in DOMAIN f : g[x] = f[x]

Extends(e, n) ==
    /\ Keeps(e.collections, n.collections)
    /\ Keeps(e.observations, n.observations)
    /\ Keeps(e.acquisitions, n.acquisitions)
    /\ Keeps(e.executions, n.executions)

LEMMA MergedExtends ==
    ASSUME NEW e, NEW d
    PROVE  Extends(e, Merged(e, d))
<1>1. \A f, g : Keeps(f, Union(f, g))
  BY DEF Keeps, Union
<1>2. QED
  BY <1>1 DEF Extends, Merged

\* What an extension has of the objects that were there.
ExtensionHas(e, n) ==
    /\ \A r \in DOMAIN e.collections :
        /\ r \in DOMAIN n.collections /\ n.collections[r] = e.collections[r]
        /\ e.collections[r].acquisitions \subseteq DOMAIN e.acquisitions
        /\ e.collections[r].observations \subseteq DOMAIN e.observations
    /\ \A a \in DOMAIN e.acquisitions :
        a \in DOMAIN n.acquisitions /\ n.acquisitions[a] = e.acquisitions[a]
    /\ \A o \in DOMAIN e.observations :
        /\ o \in DOMAIN n.observations /\ n.observations[o] = e.observations[o]
        /\ e.observations[o].run \in DOMAIN e.collections \cup {NoRun}
        /\ e.observations[o].executions \subseteq DOMAIN e.executions
    /\ \A x \in DOMAIN e.executions :
        x \in DOMAIN n.executions /\ n.executions[x] = e.executions[x]

LEMMA ExtensionHolds ==
    ASSUME NEW e, NEW n, Retained(e), Extends(e, n)
    PROVE  ExtensionHas(e, n)
BY DEF ExtensionHas, Extends, Keeps, Retained, Resolves, Recorded

\* Of the objects that were there the same are available.
LEMMA AvailableBefore ==
    ASSUME NEW e, NEW n, NEW at, ExtensionHas(e, n)
    PROVE  /\ AvailableRuns(n, at) \cap DOMAIN e.collections = AvailableRuns(e, at)
           /\ AvailableObservations(n, at) \cap DOMAIN e.observations
                = AvailableObservations(e, at)
<1> DEFINE R == AvailableRuns(e, at)
           O == AvailableObservations(e, at)
           S == AvailableRuns(n, at)
           P == AvailableObservations(n, at)
<1>1. S \cap DOMAIN e.collections = R
  <2>1. \A r \in DOMAIN e.collections : \A a \in e.collections[r].acquisitions :
            n.acquisitions[a] = e.acquisitions[a]
    BY DEF ExtensionHas
  <2>2. QED
    BY <2>1 DEF ExtensionHas, AvailableRuns
<1>2. P \cap DOMAIN e.observations = O
  <2>1. \A o \in DOMAIN e.observations : \A x \in e.observations[o].executions :
            n.executions[x] = e.executions[x]
    BY DEF ExtensionHas
  <2>2. \A o \in DOMAIN e.observations :
            e.observations[o].run \in S \cup {NoRun}
                <=> e.observations[o].run \in R \cup {NoRun}
    BY <1>1 DEF ExtensionHas
  <2>3. \A o \in DOMAIN e.observations : o \in P <=> o \in O
    BY <2>1, <2>2 DEF ExtensionHas, AvailableObservations
  <2>4. O \subseteq DOMAIN e.observations
    BY DEF AvailableObservations
  <2>5. QED
    BY <2>3, <2>4
<1>3. QED
  BY <1>1, <1>2

LEMMA ExtensionConserves ==
    ASSUME NEW e, NEW n, Retained(e), Retained(n), Extends(e, n), NEW at
    PROVE  OldPart(View(n, at), e) = OldPart(View(e, at), e)
<1> DEFINE v == View(e, at)
           w == View(n, at)
           R == AvailableRuns(e, at)
           O == AvailableObservations(e, at)
           S == AvailableRuns(n, at)
           P == AvailableObservations(n, at)
<1>1. Described(e, at, v) /\ Described(n, at, w)
  BY ViewIsDescribed
<1>2. ExtensionHas(e, n)
  BY ExtensionHolds
<1>3. S \cap DOMAIN e.collections = R
  BY <1>2, AvailableBefore
<1>4. P \cap DOMAIN e.observations = O
  BY <1>2, AvailableBefore
<1> HIDE DEF v, w, R, O, S, P
<1>5. /\ DOMAIN v.collections = R /\ DOMAIN v.observations = O
      /\ \A r \in R : v.collections[r] = Cut(e.collections[r], O)
      /\ \A o \in O : v.observations[o] = e.observations[o]
      /\ DOMAIN w.collections = S /\ DOMAIN w.observations = P
      /\ \A r \in S : w.collections[r] = Cut(n.collections[r], P)
      /\ \A o \in P : w.observations[o] = n.observations[o]
  BY <1>1 DEF Described, R, O, S, P
<1>6. \A r \in R : w.collections[r] = v.collections[r]
  <2> SUFFICES ASSUME NEW r \in R PROVE w.collections[r] = v.collections[r]
    OBVIOUS
  <2>1. r \in S /\ r \in DOMAIN e.collections
    BY <1>3
  <2>2. e.collections[r].observations \cap P = e.collections[r].observations \cap O
    BY <1>2, <1>4, <2>1 DEF ExtensionHas
  <2>3. Cut(e.collections[r], P) = Cut(e.collections[r], O)
    BY <2>2 DEF Cut
  <2>4. QED
    BY <1>2, <1>5, <2>1, <2>3 DEF ExtensionHas
<1>7. \A o \in O : w.observations[o] = v.observations[o]
  BY <1>2, <1>4, <1>5 DEF ExtensionHas
<1>8. Restrict(w.collections, DOMAIN w.collections \cap DOMAIN e.collections)
        = Restrict(v.collections, DOMAIN v.collections \cap DOMAIN e.collections)
  <2>1. /\ DOMAIN w.collections \cap DOMAIN e.collections = R
        /\ DOMAIN v.collections \cap DOMAIN e.collections = R
    BY <1>3, <1>5
  <2>2. QED
    BY <1>6, <2>1 DEF Restrict
<1>9. Restrict(w.observations, DOMAIN w.observations \cap DOMAIN e.observations)
        = Restrict(v.observations, DOMAIN v.observations \cap DOMAIN e.observations)
  <2>1. /\ DOMAIN w.observations \cap DOMAIN e.observations = O
        /\ DOMAIN v.observations \cap DOMAIN e.observations = O
    BY <1>4, <1>5
  <2>2. QED
    BY <1>7, <2>1 DEF Restrict
<1>10. QED
  BY <1>8, <1>9 DEF OldPart, v, w

\* Nothing that is brought has only times of then or before: the views are the
\* same, field by field.
LEMMA ExtensionStaysOut ==
    ASSUME NEW e, NEW n, Retained(e), Retained(n), Extends(e, n),
           e.sources \subseteq n.sources, NEW at, Backdated(e, n, at) = {}
    PROVE  View(n, at) = View(e, at)
<1> DEFINE v == View(e, at)
           w == View(n, at)
           R == AvailableRuns(e, at)
           O == AvailableObservations(e, at)
           S == AvailableRuns(n, at)
           P == AvailableObservations(n, at)
<1>1. Described(e, at, v) /\ Described(n, at, w)
  BY ViewIsDescribed
<1>2. ExtensionHas(e, n)
  BY ExtensionHolds
<1>3. S = R
  <2>1. S \subseteq DOMAIN e.collections
    BY DEF Backdated, KnownRun, AvailableRuns
  <2>2. QED
    BY <1>2, <2>1, AvailableBefore
<1>4. P = O
  <2>1. NoRun \notin DOMAIN n.collections
    BY HistoricalAssumption DEF Retained, Typed
  <2>2. \A o \in P : Known(n, o, at)
    BY <2>1 DEF AvailableObservations, AvailableRuns, Known, KnownRun
  <2>3. P \subseteq DOMAIN e.observations
    BY <2>2 DEF Backdated, AvailableObservations
  <2>4. P \cap DOMAIN e.observations = O
    BY <1>2, AvailableBefore
  <2> HIDE DEF P, O
  <2>5. QED
    BY <2>3, <2>4
<1>5. /\ R \subseteq DOMAIN e.collections /\ O \subseteq DOMAIN e.observations
      /\ \A r \in R : n.collections[r] = e.collections[r]
                      /\ e.collections[r].acquisitions \subseteq DOMAIN e.acquisitions
      /\ \A o \in O : /\ n.observations[o] = e.observations[o]
                      /\ e.observations[o].executions \subseteq DOMAIN e.executions
                      /\ e.observations[o].source \in e.sources
  BY <1>2 DEF AvailableRuns, AvailableObservations, ExtensionHas, Retained, Resolves
<1> HIDE DEF v, w, R, O, S, P
<1>6. Alike(w.collections, v.collections)
  BY <1>1, <1>3, <1>4, <1>5 DEF Described, Alike, R, O, S, P
<1>7. Alike(w.observations, v.observations)
  BY <1>1, <1>4, <1>5 DEF Described, Alike, O, P
<1>8. w.sources = v.sources
  <2>1. /\ w.sources = n.sources \cap {n.observations[o].source : o \in P}
        /\ v.sources = e.sources \cap {e.observations[o].source : o \in O}
    BY <1>1 DEF Described, O, P
  <2>2. {n.observations[o].source : o \in P} = {e.observations[o].source : o \in O}
    BY <1>4, <1>5
  <2>3. {e.observations[o].source : o \in O} \subseteq e.sources
    BY <1>5
  <2>4. QED
    BY <2>1, <2>2, <2>3
<1>9. Alike(w.acquisitions, v.acquisitions)
  <2>1. /\ DOMAIN w.acquisitions = {a \in DOMAIN n.acquisitions :
                \E r \in S : a \in n.collections[r].acquisitions}
        /\ DOMAIN v.acquisitions = {a \in DOMAIN e.acquisitions :
                \E r \in R : a \in e.collections[r].acquisitions}
        /\ \A a \in DOMAIN w.acquisitions : w.acquisitions[a] = n.acquisitions[a]
        /\ \A a \in DOMAIN v.acquisitions : v.acquisitions[a] = e.acquisitions[a]
    BY <1>1 DEF Described, R, S
  <2>2. \A a \in DOMAIN e.acquisitions :
            a \in DOMAIN n.acquisitions /\ n.acquisitions[a] = e.acquisitions[a]
    BY <1>2 DEF ExtensionHas
  <2>3. DOMAIN w.acquisitions = DOMAIN v.acquisitions
    BY <1>3, <1>5, <2>1, <2>2
  <2>4. QED
    BY <2>1, <2>2, <2>3 DEF Alike
<1>10. Alike(w.executions, v.executions)
  <2>1. /\ DOMAIN w.executions = {x \in DOMAIN n.executions :
                \E o \in P : x \in n.observations[o].executions}
        /\ DOMAIN v.executions = {x \in DOMAIN e.executions :
                \E o \in O : x \in e.observations[o].executions}
        /\ \A x \in DOMAIN w.executions : w.executions[x] = n.executions[x]
        /\ \A x \in DOMAIN v.executions : v.executions[x] = e.executions[x]
    BY <1>1 DEF Described, O, P
  <2>2. \A x \in DOMAIN e.executions :
            x \in DOMAIN n.executions /\ n.executions[x] = e.executions[x]
    BY <1>2 DEF ExtensionHas
  <2>3. DOMAIN w.executions = DOMAIN v.executions
    BY <1>4, <1>5, <2>1, <2>2
  <2>4. QED
    BY <2>1, <2>2, <2>3 DEF Alike
<1>11. Shaped(w) /\ Functional(w) /\ Shaped(v) /\ Functional(v)
  BY <1>1 DEF Described
<1>12. w = v
  BY <1>6, <1>7, <1>8, <1>9, <1>10, <1>11, SameEvidence
<1>13. QED
  BY <1>12 DEF v, w

\* A later command does not leak into an earlier view unless all the times of
\* something it brings are earlier, and even then it changes nothing of what the
\* view said of the evidence there was.  (merge, as_of_with_provenance)
THEOREM Conserves == Spec => Conservative
<1> DEFINE Same == \A at \in Time :
        /\ Backdated(evidence, evidence', at) = {}
            => View(evidence', at) = View(evidence, at)
        /\ OldPart(View(evidence', at), evidence) = OldPart(View(evidence, at), evidence)
<1>1. ASSUME IInv, IInv', Next
      PROVE  Same \/ UNCHANGED evidence
  <2>1. UNCHANGED evidence \/ \E d : evidence' = Merged(evidence, d)
    <3>1. ASSUME NEW d, Commit(d) PROVE \E n : evidence' = Merged(evidence, n)
      BY <3>1 DEF Commit
    <3>2. ASSUME NEW r, NEW a, NEW os, NEW about, NEW contract, NEW supports,
                 NEW s, NEW at, CollectRemote(r, a, os, about, contract, supports, s, at)
          PROVE  \E n : evidence' = Merged(evidence, n)
      BY <3>1, <3>2 DEF CollectRemote
    <3>3. ASSUME NEW x, NEW o, NEW s, NEW at, CollectLocal(x, o, s, at)
          PROVE  \E n : evidence' = Merged(evidence, n)
      BY <3>1, <3>3 DEF CollectLocal
    <3>4. ASSUME NEW r, NEW linked, NEW brought, NEW about, NEW authority,
                 NEW completed, NEW observations,
                 CollectManifest(r, linked, brought, about, authority, completed, observations)
          PROVE  \E n : evidence' = Merged(evidence, n)
      BY <3>1, <3>4 DEF CollectManifest
    <3>5. ASSUME NEW contract, Withdraw(contract) PROVE UNCHANGED evidence
      BY <3>5 DEF Withdraw
    <3>6. Tick => UNCHANGED evidence
      BY DEF Tick
    <3>7. QED
      BY <1>1, <3>2, <3>3, <3>4, <3>5, <3>6 DEF Next
  <2>2. ASSUME NEW d, evidence' = Merged(evidence, d)
        PROVE  Same
    <3>1. Extends(evidence, evidence') /\ evidence.sources \subseteq evidence'.sources
      BY <2>2, MergedExtends DEF Merged
    <3>2. Retained(evidence) /\ Retained(evidence')
      BY <1>1 DEF IInv
    <3>3. QED
      BY <3>1, <3>2, ExtensionConserves, ExtensionStaysOut
  <2>3. QED
    BY <2>1, <2>2
<1>2. IInv /\ IInv' /\ [Next]_vars => [Same]_evidence
  BY <1>1 DEF vars
<1>3. QED
  BY <1>2, Invariant, PTL DEF Spec, Conservative

-----------------------------------------------------------------------------
LEMMA WithheldFields ==
    ASSUME NEW run \in Run
    PROVE  /\ Withheld(run) \in Run
           /\ Withheld(run).about = run.about
           /\ Withheld(run).acquisitions = run.acquisitions
           /\ Withheld(run).authority = run.authority \ {run.about.proposition}
BY DEF Run, Withheld

LEMMA CurrentFields ==
    ASSUME NEW e, Shaped(e), NEW registry
    PROVE  LET c == WithCurrentAuthority(e, registry)
           IN  /\ Shaped(c)
               /\ c.acquisitions = e.acquisitions
               /\ DOMAIN c.collections = DOMAIN e.collections
               /\ \A r \in DOMAIN e.collections :
                    c.collections[r] = IF Authoritative(e, e.collections[r], registry)
                                       THEN e.collections[r] ELSE Withheld(e.collections[r])
<1> DEFINE after == [r \in DOMAIN e.collections |->
                        IF Authoritative(e, e.collections[r], registry)
                        THEN e.collections[r] ELSE Withheld(e.collections[r])]
           c == WithCurrentAuthority(e, registry)
<1>1. c = [e EXCEPT !.collections = after]
  BY DEF WithCurrentAuthority
<1> HIDE DEF c
<1>2. /\ DOMAIN after = DOMAIN e.collections
      /\ \A r \in DOMAIN e.collections : after[r] =
            IF Authoritative(e, e.collections[r], registry)
            THEN e.collections[r] ELSE Withheld(e.collections[r])
  OBVIOUS
<1> HIDE DEF after
<1>3. c = [collections |-> after, observations |-> e.observations, sources |-> e.sources,
           acquisitions |-> e.acquisitions, executions |-> e.executions]
  BY <1>1 DEF Shaped
<1>4. Shaped(c) /\ c.acquisitions = e.acquisitions /\ c.collections = after
  BY <1>3 DEF Shaped
<1>5. QED
  BY <1>2, <1>4 DEF c

LEMMA MirrorFields ==
    ASSUME NEW e, Shaped(e)
    PROVE  LET m == WithDeclaredMirror(e)
           IN  /\ m.acquisitions = e.acquisitions
               /\ DOMAIN m.collections = DOMAIN e.collections
               /\ \A r \in DOMAIN e.collections :
                    m.collections[r] = IF MirrorWithholds(e.collections[r])
                                       THEN Withheld(e.collections[r]) ELSE e.collections[r]
<1> DEFINE after == [r \in DOMAIN e.collections |->
                        IF MirrorWithholds(e.collections[r])
                        THEN Withheld(e.collections[r]) ELSE e.collections[r]]
           m == WithDeclaredMirror(e)
<1>1. m = [e EXCEPT !.collections = after]
  BY DEF WithDeclaredMirror
<1> HIDE DEF m
<1>2. /\ DOMAIN after = DOMAIN e.collections
      /\ \A r \in DOMAIN e.collections : after[r] =
            IF MirrorWithholds(e.collections[r])
            THEN Withheld(e.collections[r]) ELSE e.collections[r]
  OBVIOUS
<1> HIDE DEF after
<1>3. m = [collections |-> after, observations |-> e.observations, sources |-> e.sources,
           acquisitions |-> e.acquisitions, executions |-> e.executions]
  BY <1>1 DEF Shaped
<1>4. m.acquisitions = e.acquisitions /\ m.collections = after
  BY <1>3
<1>5. QED
  BY <1>2, <1>4 DEF m

LEMMA EvaluatedCurrent ==
    ASSUME NEW e, Retained(e), NEW at, NEW registry, NEW mirror \in BOOLEAN
    PROVE  LET v == Evaluated(e, at, registry, mirror)
           IN  \A r \in DOMAIN v.collections :
                LET run == v.collections[r] IN
                /\ run.authority \subseteq e.collections[r].authority
                /\ run.about.proposition \in run.authority =>
                    /\ \A a \in e.collections[r].acquisitions :
                        /\ a \in DOMAIN v.acquisitions
                        /\ e.acquisitions[a].supports
                        /\ e.acquisitions[a].contract \notin registry
                    /\ ~(mirror /\ MirrorWithholds(run))
<1> DEFINE h == View(e, at)
           c == WithCurrentAuthority(h, registry)
           v == Evaluated(e, at, registry, mirror)
<1>1. Described(e, at, h) /\ ClosedView(h, at)
  BY ViewIsDescribed, ViewClosed
<1> HIDE DEF h
<1>2. /\ Shaped(c) /\ c.acquisitions = h.acquisitions
      /\ DOMAIN c.collections = DOMAIN h.collections
      /\ \A r \in DOMAIN h.collections :
            c.collections[r] = IF Authoritative(h, h.collections[r], registry)
                               THEN h.collections[r] ELSE Withheld(h.collections[r])
  BY <1>1, CurrentFields DEF Described
<1> HIDE DEF c
<1>3. /\ v.acquisitions = h.acquisitions
      /\ DOMAIN v.collections = DOMAIN h.collections
      /\ \A r \in DOMAIN h.collections :
            v.collections[r] = IF mirror /\ MirrorWithholds(c.collections[r])
                               THEN Withheld(c.collections[r]) ELSE c.collections[r]
  <2>1. v = IF mirror THEN WithDeclaredMirror(c) ELSE c
    BY DEF Evaluated, c, h
  <2>2. CASE mirror
    BY <1>2, <2>1, <2>2, MirrorFields
  <2>3. CASE ~mirror
    BY <1>2, <2>1, <2>3
  <2>4. QED
    BY <2>2, <2>3
<1> HIDE DEF v
<1> SUFFICES ASSUME NEW r \in DOMAIN v.collections
             PROVE  LET run == v.collections[r] IN
                /\ run.authority \subseteq e.collections[r].authority
                /\ run.about.proposition \in run.authority =>
                    /\ \A a \in e.collections[r].acquisitions :
                        /\ a \in DOMAIN v.acquisitions
                        /\ e.acquisitions[a].supports
                        /\ e.acquisitions[a].contract \notin registry
                    /\ ~(mirror /\ MirrorWithholds(run))
  BY DEF v
<1> DEFINE past == h.collections[r]
           current == c.collections[r]
           run == v.collections[r]
<1>4. /\ r \in DOMAIN h.collections
      /\ past \in Run
      /\ past.about = e.collections[r].about
      /\ past.acquisitions = e.collections[r].acquisitions
      /\ past.authority = e.collections[r].authority
      /\ past.acquisitions \subseteq DOMAIN h.acquisitions
      /\ \A a \in DOMAIN h.acquisitions : h.acquisitions[a] = e.acquisitions[a]
  <2>1. r \in AvailableRuns(e, at) /\ r \in DOMAIN h.collections
    BY <1>1, <1>3 DEF Described
  <2>2. e.collections[r] \in Run
    BY <2>1 DEF AvailableRuns, Retained, Typed
  <2>3. past = Cut(e.collections[r], AvailableObservations(e, at))
    BY <1>1, <2>1 DEF Described
  <2>4. past.acquisitions \subseteq DOMAIN h.acquisitions
    BY <1>1, <2>1 DEF ClosedView, Resolves
  <2>5. \A a \in DOMAIN h.acquisitions : h.acquisitions[a] = e.acquisitions[a]
    BY <1>1 DEF Described
  <2>6. QED
    BY <2>1, <2>2, <2>3, <2>4, <2>5, CutFacts
<1>5. /\ current = IF Authoritative(h, past, registry) THEN past ELSE Withheld(past)
      /\ run = IF mirror /\ MirrorWithholds(current) THEN Withheld(current) ELSE current
      /\ DOMAIN v.acquisitions = DOMAIN h.acquisitions
  BY <1>2, <1>3, <1>4
<1> HIDE DEF past, current, run
<1>6. /\ current \in Run
      /\ current.about = past.about
      /\ current.authority \subseteq past.authority
      /\ past.about.proposition \in current.authority => Authoritative(h, past, registry)
  BY <1>4, <1>5, WithheldFields
<1>7. /\ run.about = current.about
      /\ run.authority \subseteq current.authority
      /\ current.about.proposition \in run.authority => ~(mirror /\ MirrorWithholds(current))
  BY <1>5, <1>6, WithheldFields
<1>8. MirrorWithholds(run) <=> MirrorWithholds(current)
  BY <1>7 DEF MirrorWithholds
<1>9. run.authority \subseteq e.collections[r].authority
  BY <1>4, <1>6, <1>7
<1>10. ASSUME run.about.proposition \in run.authority
       PROVE  /\ \A a \in e.collections[r].acquisitions :
                    /\ a \in DOMAIN v.acquisitions
                    /\ e.acquisitions[a].supports
                    /\ e.acquisitions[a].contract \notin registry
              /\ ~(mirror /\ MirrorWithholds(run))
  <2>1. Authoritative(h, past, registry)
    BY <1>6, <1>7, <1>10
  <2>2. \A a \in past.acquisitions :
            /\ h.acquisitions[a].supports /\ h.acquisitions[a].contract \notin registry
            /\ h.acquisitions[a] = e.acquisitions[a] /\ a \in DOMAIN v.acquisitions
    BY <1>4, <1>5, <2>1 DEF Authoritative
  <2>3. QED
    BY <1>4, <1>7, <1>8, <1>10, <2>2
<1>11. QED
  BY <1>9, <1>10 DEF run

\* A withdrawal or a declared mirror reaches every run it bears on, at every
\* time that is asked about, and nothing else gains authority.
THEOREM Current == Spec => []AuthorityCurrent
<1>1. IInv => AuthorityCurrent
  BY EvaluatedCurrent DEF IInv, AuthorityCurrent
<1>2. QED
  BY <1>1, Invariant, PTL

=============================================================================
