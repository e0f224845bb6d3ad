------------------------------ MODULE HistoricalView ------------------------------
(***************************************************************************)
(* `as_of` and `as_of_with_provenance`: the evidence that was there at a   *)
(* time; and `with_current_authority` and `with_declared_mirror`, which    *)
(* take authority away from what an evaluation is given.                   *)
(*                                                                         *)
(* Objects are functions from their identifiers: merging evidence is the   *)
(* union of functions that agree.  A collection run and an acquisition are *)
(* about a proposition and a subject, which the links compare; branch and  *)
(* interval are compared in the same place and left out.  An acquisition   *)
(* `supports` its proposition when its transcript is verified and its      *)
(* enumeration sufficient under a registry without withdrawals.            *)
(***************************************************************************)
EXTENDS Integers, Functions

CONSTANTS
    Runs, Observations, Sources, Acquisitions, Executions,  \* identifiers
    NoRun,                  \* an observation outside any run
    Propositions, Subjects,
    Repository,             \* the subject that is configured
    Process,                \* propositions about process, not content
    Contracts,
    MaxTime, MaxCommands    \* bounds

ASSUME HistoricalAssumption ==
    /\ NoRun \notin Runs
    /\ Process \subseteq Propositions
    /\ Repository \in Subjects
    /\ MaxTime \in Nat /\ MaxCommands \in Nat

Time == 0 .. MaxTime
About == [proposition : Propositions, subject : Subjects]
Run == [about : About, completed : Time, acquisitions : SUBSET Acquisitions,
        observations : SUBSET Observations, authority : SUBSET Propositions]
Observation == [run : Runs \cup {NoRun}, observed : Time,
                executions : SUBSET Executions, source : Sources]
Acquisition == [about : About, captured : Time, contract : Contracts,
                supports : BOOLEAN]

VARIABLES
    evidence,   \* what the state directory holds
    withdrawn,  \* contracts the registry invalidates
    now, commands

vars == <<evidence, withdrawn, now, commands>>

-----------------------------------------------------------------------------
SourcesOf(observations) ==
    {observations[o].source : o \in DOMAIN observations}

\* A run keeps the identifiers of the observations that are kept.
Cut(run, kept) == [run EXCEPT !.observations = @ \cap kept]

\* Evidence with these observations and runs, and their sources.
Select(e, kept, runs) ==
    LET observations == Restrict(e.observations, kept)
    IN  [collections |-> [r \in runs |-> Cut(e.collections[r], kept)],
         observations |-> observations,
         sources |-> e.sources \cap SourcesOf(observations),
         acquisitions |-> e.acquisitions, executions |-> e.executions]

\* Slip: the runs' comparison is the wrong way round.
AsOfSwapped(e, at) ==
    Select(e,
           {o \in DOMAIN e.observations : e.observations[o].observed <= at},
           {r \in DOMAIN e.collections : at <= e.collections[r].completed})

\* `as_of`: by the objects' own times.
AsOf(e, at) ==
    Select(e,
           {o \in DOMAIN e.observations : e.observations[o].observed <= at},
           {r \in DOMAIN e.collections : e.collections[r].completed <= at})

\* Slip: a run's own time is enough.
CapturedByRun(e, at) == DOMAIN e.collections

\* Runs all of whose transcripts were captured.
Captured(e, at) ==
    {r \in DOMAIN e.collections :
        \A a \in e.collections[r].acquisitions : e.acquisitions[a].captured <= at}

\* Slip: the run of an observation is not looked at.
JustifiedByExecutions(e, runs, at) ==
    {o \in DOMAIN e.observations :
        \A x \in e.observations[o].executions : e.executions[x] <= at}

\* Observations whose run is available and whose executions ended.
Justified(e, runs, at) ==
    {o \in DOMAIN e.observations :
        /\ e.observations[o].run \in runs \cup {NoRun}
        /\ \A x \in e.observations[o].executions : e.executions[x] <= at}

\* The transcripts that what is left refers to.
Referenced(e) ==
    [collections |-> e.collections, observations |-> e.observations,
     sources |-> e.sources,
     acquisitions |-> Restrict(e.acquisitions, DOMAIN e.acquisitions \cap
        UNION {e.collections[r].acquisitions : r \in DOMAIN e.collections}),
     executions |-> Restrict(e.executions, DOMAIN e.executions \cap
        UNION {e.observations[o].executions : o \in DOMAIN e.observations})]

\* Slip: the transcripts are those of the runs as they were before their
\* provenance was looked at.
ViewKeepingTranscripts(e, at) ==
    LET h == AsOf(e, at)
        runs == Captured(h, at)
        r == Referenced(h)
        s == Select(h, Justified(h, runs, at), runs)
    IN  [s EXCEPT !.acquisitions = r.acquisitions, !.executions = r.executions]

\* `as_of_with_provenance`
View(e, at) ==
    LET h == AsOf(e, at)
        runs == Captured(h, at)
    IN  Referenced(Select(h, Justified(h, runs, at), runs))

\* What it returns an error for: a reference to nothing.
Resolves(e) ==
    /\ \A r \in DOMAIN e.collections :
        e.collections[r].acquisitions \subseteq DOMAIN e.acquisitions
    /\ \A o \in DOMAIN e.observations :
        /\ e.observations[o].run \in DOMAIN e.collections \cup {NoRun}
        /\ e.observations[o].executions \subseteq DOMAIN e.executions
        /\ e.observations[o].source \in e.sources

-----------------------------------------------------------------------------
\* Slip: one transcript with authority is enough.
AuthoritativeByOne(e, run, registry) ==
    run.acquisitions = {} \/ \E a \in run.acquisitions :
        e.acquisitions[a].supports /\ e.acquisitions[a].contract \notin registry

\* `verify_collection_links`: every linked transcript has authority today.
Authoritative(e, run, registry) ==
    \A a \in run.acquisitions :
        e.acquisitions[a].supports /\ e.acquisitions[a].contract \notin registry

\* The run no longer speaks for its proposition.
Withheld(run) == [run EXCEPT !.authority = @ \ {run.about.proposition}]

\* `with_current_authority`
WithCurrentAuthority(e, registry) ==
    [e EXCEPT !.collections = [r \in DOMAIN e.collections |->
        LET run == e.collections[r]
        IN  IF Authoritative(e, run, registry) THEN run ELSE Withheld(run)]]

\* `mirror_withholds`
MirrorWithholds(run) ==
    run.about.subject = Repository /\ run.about.proposition \in Process

\* `with_declared_mirror`
WithDeclaredMirror(e) ==
    [e EXCEPT !.collections = [r \in DOMAIN e.collections |->
        LET run == e.collections[r]
        IN  IF MirrorWithholds(run) THEN Withheld(run) ELSE run]]

\* What `evaluate_state_with_skips` gives to the evaluators.
Evaluated(e, at, registry, mirror) ==
    LET current == WithCurrentAuthority(View(e, at), registry)
    IN  IF mirror THEN WithDeclaredMirror(current) ELSE current

-----------------------------------------------------------------------------
Empty == [x \in {} |-> x]
NoEvidence == [collections |-> Empty, observations |-> Empty, sources |-> {},
               acquisitions |-> Empty, executions |-> Empty]

\* Left before right: where both have an object they must agree.
Union(f, g) == [x \in DOMAIN f \cup DOMAIN g |-> IF x \in DOMAIN f THEN f[x] ELSE g[x]]
Agree(f, g) == \A x \in DOMAIN f \cap DOMAIN g : f[x] = g[x]

\* An identifier collision fails the whole command.
Collide(e, d) ==
    ~(/\ Agree(e.collections, d.collections) /\ Agree(e.observations, d.observations)
      /\ Agree(e.acquisitions, d.acquisitions) /\ Agree(e.executions, d.executions))

Merged(e, d) ==
    [collections |-> Union(e.collections, d.collections),
     observations |-> Union(e.observations, d.observations),
     sources |-> e.sources \cup d.sources,
     acquisitions |-> Union(e.acquisitions, d.acquisitions),
     executions |-> Union(e.executions, d.executions)]

\* Links compare a run with its transcripts and refuse the whole command.
LinksHold(e) ==
    /\ Resolves(e)
    /\ \A r \in DOMAIN e.collections : \A a \in e.collections[r].acquisitions :
        e.acquisitions[a].about = e.collections[r].about

\* `commit_collections`
Commit(increment) ==
    /\ commands < MaxCommands
    /\ ~Collide(evidence, increment)
    /\ LinksHold(Merged(evidence, increment))
    /\ evidence' = Merged(evidence, increment)
    /\ commands' = commands + 1
    /\ UNCHANGED <<withdrawn, now>>

Only(x, value) == [y \in {x} |-> value]

\* A remote source: its run, its transcript and its observations have the
\* time of --at, which may be any, or the one at which the collection started.
CollectRemote(r, a, os, about, contract, supports, source, at) ==
    /\ r \notin DOMAIN evidence.collections
    /\ Commit([collections |-> Only(r, [about |-> about, completed |-> at,
             acquisitions |-> {a}, observations |-> os,
             authority |-> IF supports THEN {about.proposition} ELSE {}]),
         observations |-> [o \in os |-> [run |-> r, observed |-> at,
             executions |-> {}, source |-> source]],
         sources |-> IF os = {} THEN {} ELSE {source},
         acquisitions |-> Only(a, [about |-> about, captured |-> at,
             contract |-> contract, supports |-> supports]),
         executions |-> Empty])

\* A local source: the execution has the time at which it ended.
CollectLocal(x, o, source, at) ==
    /\ x \notin DOMAIN evidence.executions
    /\ Commit([collections |-> Empty,
         observations |-> Only(o, [run |-> NoRun, observed |-> at,
             executions |-> {x}, source |-> source]),
         sources |-> {source},
         acquisitions |-> Empty, executions |-> Only(x, now)])

\* A manifest states the times itself and brings transcripts or links those
\* that are retained.  Its observations need not belong to its run.
CollectManifest(r, linked, brought, about, authority, completed, observations) ==
    /\ DOMAIN observations # {}
    /\ Commit([collections |-> Only(r, [about |-> about, completed |-> completed,
             acquisitions |-> linked \cup DOMAIN brought, authority |-> authority,
             observations |-> {o \in DOMAIN observations : observations[o].run = r}]),
         acquisitions |-> brought,
         observations |-> observations,
         sources |-> SourcesOf(observations), executions |-> Empty])

\* The registry is a file that its owner edits.
Withdraw(contract) ==
    /\ contract \notin withdrawn
    /\ withdrawn' = withdrawn \cup {contract}
    /\ UNCHANGED <<evidence, now, commands>>

Tick ==
    /\ now < MaxTime
    /\ now' = now + 1
    /\ UNCHANGED <<evidence, withdrawn, commands>>

Init ==
    /\ evidence = NoEvidence /\ withdrawn = {}
    /\ now = 0 /\ commands = 0

Next ==
    \/ \E r \in Runs, a \in Acquisitions, os \in SUBSET Observations, about \in About,
          contract \in Contracts, supports \in BOOLEAN, s \in Sources, at \in Time :
        CollectRemote(r, a, os, about, contract, supports, s, at)
    \/ \E x \in Executions, o \in Observations, s \in Sources, at \in Time :
        CollectLocal(x, o, s, at)
    \/ \E r \in Runs \ DOMAIN evidence.collections,
          linked \in SUBSET DOMAIN evidence.acquisitions,
          as \in SUBSET (Acquisitions \ DOMAIN evidence.acquisitions),
          os \in SUBSET (Observations \ DOMAIN evidence.observations),
          about \in About, authority \in SUBSET Propositions, completed \in Time :
        \E brought \in [as -> [about : {about}, captured : Time, contract : Contracts,
                               supports : {TRUE}]],
           observations \in [os -> [run : {r, NoRun}, observed : Time, source : Sources,
                                    executions : SUBSET DOMAIN evidence.executions]] :
            CollectManifest(r, linked, brought, about, authority, completed, observations)
    \/ \E contract \in Contracts : Withdraw(contract)
    \/ Tick

Spec == Init /\ [][Next]_vars

-----------------------------------------------------------------------------
Typed(e) ==
    /\ DOMAIN e.collections \subseteq Runs
    /\ \A r \in DOMAIN e.collections : e.collections[r] \in Run
    /\ DOMAIN e.observations \subseteq Observations
    /\ \A o \in DOMAIN e.observations : e.observations[o] \in Observation
    /\ DOMAIN e.acquisitions \subseteq Acquisitions
    /\ \A a \in DOMAIN e.acquisitions : e.acquisitions[a] \in Acquisition
    /\ DOMAIN e.executions \subseteq Executions
    /\ \A x \in DOMAIN e.executions : e.executions[x] \in Time
    /\ e.sources \subseteq Sources

TypeOK ==
    /\ Typed(evidence)
    /\ withdrawn \subseteq Contracts /\ now \in Time /\ commands \in 0 .. MaxCommands

\* "A referentially closed historical evidence graph": nothing in a view refers
\* to what is not in it, nothing of it is later than its time, and it has no
\* transcript or source that nothing in it refers to.
ClosedView(v, at) ==
    /\ Resolves(v)
    /\ \A r \in DOMAIN v.collections :
        /\ v.collections[r].completed <= at
        /\ v.collections[r].observations \subseteq DOMAIN v.observations
    /\ \A o \in DOMAIN v.observations : v.observations[o].observed <= at
    /\ \A a \in DOMAIN v.acquisitions :
        /\ v.acquisitions[a].captured <= at
        /\ \E r \in DOMAIN v.collections : a \in v.collections[r].acquisitions
    /\ \A x \in DOMAIN v.executions :
        /\ v.executions[x] <= at
        /\ \E o \in DOMAIN v.observations : x \in v.observations[o].executions
    /\ \A s \in v.sources : \E o \in DOMAIN v.observations : v.observations[o].source = s

ViewsClosed == \A at \in Time : ClosedView(View(evidence, at), at)

\* A run was completed and all its transcripts were captured by then.
KnownRun(e, r, at) ==
    /\ e.collections[r].completed <= at
    /\ \A a \in e.collections[r].acquisitions : e.acquisitions[a].captured <= at

\* An observation was made and everything that justifies it existed by then.
Known(e, o, at) ==
    LET observation == e.observations[o]
    IN  /\ observation.observed <= at
        /\ \A x \in observation.executions : e.executions[x] <= at
        /\ observation.run # NoRun => KnownRun(e, observation.run, at)

\* docs/concepts.md: a view has an observation exactly when it was observed and
\* everything that justifies it existed by then.
ViewsExact ==
    \A at \in Time :
        DOMAIN View(evidence, at).observations
            = {o \in DOMAIN evidence.observations : Known(evidence, o, at)}

\* The view of an earlier time is the same whether it is taken of everything or
\* of a later view: an answer as of a time can be reproduced from any archive
\* made after it.
ViewsCompose ==
    \A late \in Time : \A early \in 0 .. late :
        View(View(evidence, late), early) = View(evidence, early)

\* What a view says of the evidence that e has.
OldPart(v, e) ==
    [collections |-> Restrict(v.collections, DOMAIN v.collections \cap DOMAIN e.collections),
     observations |-> Restrict(v.observations, DOMAIN v.observations \cap DOMAIN e.observations)]

\* What n has and e has not, with times by which it was all there already.
Backdated(e, n, at) ==
    {r \in DOMAIN n.collections \ DOMAIN e.collections : KnownRun(n, r, at)}
    \cup {o \in DOMAIN n.observations \ DOMAIN e.observations : Known(n, o, at)}

\* A later command does not leak into an earlier view unless it says that it
\* was earlier: the whole view, with its sources and transcripts, stays what it
\* was when nothing the command brings has only times of then or before.  When
\* something has, what the view said of the evidence there was stays as it was.
\* The times are the command's to state: collect --at and a manifest may state
\* past ones, a local execution has the time at which it ended.  (merge,
\* as_of_with_provenance, collect_configured)
Conservative ==
    [][\A at \in Time :
        /\ Backdated(evidence, evidence', at) = {}
            => View(evidence', at) = View(evidence, at)
        /\ OldPart(View(evidence', at), evidence) = OldPart(View(evidence, at), evidence)]_evidence

\* After a contract is withdrawn or a mirror declared, no run speaks for its
\* proposition unless every transcript behind it still does, at any time asked
\* about; and no run gains a word.
AuthorityCurrent ==
    \A at \in Time, mirror \in BOOLEAN :
        LET v == Evaluated(evidence, at, withdrawn, mirror)
        IN  \A r \in DOMAIN v.collections :
                LET run == v.collections[r] IN
                /\ run.authority \subseteq evidence.collections[r].authority
                /\ run.about.proposition \in run.authority =>
                    /\ \A a \in evidence.collections[r].acquisitions :
                        /\ a \in DOMAIN v.acquisitions
                        /\ evidence.acquisitions[a].supports
                        /\ evidence.acquisitions[a].contract \notin withdrawn
                    /\ ~(mirror /\ MirrorWithholds(run))

=============================================================================
