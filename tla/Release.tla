--------------------------------- MODULE Release ---------------------------------
(***************************************************************************)
(* The built-in `release-sbom` source as `collect` runs it: release        *)
(* context, revisions, SBOM identities, the diff and the gate, captured or *)
(* reused, and the commit of what they establish.  Between any two of its  *)
(* steps tags move, SBOMs are built again, the tool or the policy id of    *)
(* the configuration changes.                                              *)
(*                                                                         *)
(* The tool prints and decides whatever it likes; `clock` numbers its runs *)
(* and stands for the time at which they end.  One collection runs at a    *)
(* time: EvidenceStore has those that overlap, and the writes behind       *)
(* Commit.                                                                 *)
(***************************************************************************)
EXTENDS SupplyChain

CONSTANTS
    AncestorsOf,    \* [Commits -> SUBSET Commits]: history, each with itself
    Identifies,     \* [Documents -> Releases \cup {Nothing}]: component and version
    FirstTags, FirstSboms, \* what there is at first
    MaxRuns,        \* bound on runs of the tool
    MaxChanges      \* bound on changes around the collector

ASSUME ReleaseAssumption ==
    /\ IsFiniteSet(Releases)
    /\ AncestorsOf \in [Commits -> SUBSET Commits]
    /\ \A c \in Commits :
        /\ c \in AncestorsOf[c]
        /\ \A d \in AncestorsOf[c] : 
            /\ AncestorsOf[d] \subseteq AncestorsOf[c]
            /\ c \in AncestorsOf[d] => c = d
    /\ Identifies \in [Documents -> Releases \cup {Nothing}]
    /\ FirstTags \in [Releases -> Commits \cup {Nothing}]
    /\ FirstSboms \in [Releases -> Documents \cup {Nothing}]
    /\ MaxRuns \in Nat /\ MaxChanges \in Nat

VARIABLES
    tags,           \* the commit of each tag
    sboms,          \* the file at `sbom_path` of each release
    tool, policy,   \* the executable, the configured policy id
    changes,        \* how often those have changed
    clock,          \* runs of the tool that ended
    executions, changeSets, decisions, \* retained: transcripts and observations
    pc,
    request,        \* context and options of the collection
    pinned,         \* the revisions its context has
    reading,        \* what a capture read before it started the tool
    diff, gate      \* its executions

environment == <<tags, sboms, tool, policy, changes>>
store == <<executions, changeSets, decisions>>
local == <<pc, request, pinned, reading, diff, gate>>
vars == <<environment, clock, store, local>>

Init ==
    /\ tags = FirstTags /\ sboms = FirstSboms
    /\ tool \in Tools /\ policy \in Policies /\ changes = 0
    /\ clock = 0
    /\ executions = {} /\ changeSets = {} /\ decisions = {}
    /\ pc = "idle"
    /\ request = Nothing /\ pinned = Nothing /\ reading = Nothing
    /\ diff = Nothing /\ gate = Nothing

-----------------------------------------------------------------------------
\* `git merge-base --is-ancestor`; both tags are there.
IsAncestor(release, other) == tags[release] \in AncestorsOf[tags[other]]

Ancestors(values, release) ==
    {r \in values : r # release /\ IsAncestor(r, release)}

\* Releases of retained evidence; each is compared, so none may be gone.
Known == {o.subject.release : o \in changeSets}
Tagged == {r \in Releases : tags[r] # Nothing}

Candidates(release) ==
    LET known == Ancestors(Known, release)
    IN  IF known # {} THEN known ELSE Ancestors(Tagged, release)

\* Slip: the candidates that another one comes after.
NearestAnyLater(release) ==
    {r \in Candidates(release) :
        \E other \in Candidates(release) \ {r} :
            tags[r] # tags[other] /\ IsAncestor(r, other)}

\* The candidates no other one comes after.
Nearest(release) ==
    {r \in Candidates(release) :
        ~\E other \in Candidates(release) \ {r} :
            tags[r] # tags[other] /\ IsAncestor(r, other)}

\* `previous_release`; a base that is given with --base-release is taken as it is.
PreviousRelease(release, base) ==
    /\ Known \cup {release} \subseteq Tagged
    /\ Nearest(release) = {base}

\* The command has its two releases.  The release is given with --release or is
\* the only tag at HEAD.  A failure here, before anything is kept, is no step.
Infer ==
    /\ pc = "idle"
    /\ \E release, base \in Releases, inferred, force \in BOOLEAN :
        /\ inferred => PreviousRelease(release, base)
        /\ request' = [release |-> release, base |-> base, inferred |-> inferred,
                       force |-> force, policy |-> policy]
    /\ pc' = "resolve"
    /\ UNCHANGED <<environment, clock, store, pinned, reading, diff, gate>>

\* The revision of a release is the recorded one, if there is one; evidence
\* that names it as a base does not count.
Recorded(release) ==
    {o.subject.revision : o \in {p \in changeSets \cup decisions : p.subject.release = release}}
AsRecorded(release) == Recorded(release) \subseteq {tags[release]}

\* `resolve_release_context`: two revisions, as recorded and not the same.
Resolve ==
    /\ pc = "resolve"
    /\ {request.release, request.base} \subseteq Tagged
    /\ AsRecorded(request.base) /\ AsRecorded(request.release)
    /\ tags[request.base] # tags[request.release]
    /\ pinned' = [base |-> tags[request.base], release |-> tags[request.release]]
    /\ pc' = "check"
    /\ UNCHANGED <<environment, clock, store, request, reading, diff, gate>>

\* The SBOM of a release is there, and of its component and version.
Identified(release) == sboms[release] # Nothing /\ Identifies[sboms[release]] = release

\* Slip: only the target's revision is expected.
CheckTargetOnly ==
    /\ pc = "check"
    /\ {request.release, request.base} \subseteq Tagged
    /\ tags[request.release] = pinned.release
    /\ tags[request.base] # tags[request.release]
    /\ Identified(request.base) /\ Identified(request.release)
    /\ pinned' = [pinned EXCEPT !.base = tags[request.base]]
    /\ pc' = "diff"
    /\ UNCHANGED <<environment, clock, store, request, reading, diff, gate>>

\* `collect` resolves both releases again, to the revisions of its context,
\* and checks both SBOMs.
Check ==
    /\ pc = "check"
    /\ tags[request.base] = pinned.base /\ tags[request.release] = pinned.release
    /\ Identified(request.base) /\ Identified(request.release)
    /\ pc' = "diff"
    /\ UNCHANGED <<environment, clock, store, request, pinned, reading, diff, gate>>

-----------------------------------------------------------------------------
\* The arguments of a stage.
ToolArguments(stage) ==
    [gate |-> stage = "gate", base |-> request.base, target |-> request.release]

\* Executable and inputs, which must be there.
Present == {sboms[request.base], sboms[request.release]} \subseteq Documents
ReadNow == [tool |-> tool, base |-> sboms[request.base], target |-> sboms[request.release]]

MatchesRequest(execution, stage) ==
    execution.argv = ToolArguments(stage) /\ execution.read = ReadNow

\* What the stage requires of its execution, and what comes after it.
Accepted(stage, execution) ==
    IF stage = "diff" THEN Success(execution)
    ELSE execution.out = diff.out /\ execution.code \in {0, 2, 3}

Take(stage, execution) ==
    /\ Accepted(stage, execution)
    /\ IF stage = "diff"
       THEN diff' = execution /\ gate' = gate /\ pc' = "gate"
       ELSE gate' = execution /\ diff' = diff /\ pc' = "commit"

\* Slip: --force is not looked at.
ReuseForced(stage) ==
    /\ pc = stage /\ Present
    /\ \E e \in executions :
        /\ MatchesRequest(e, stage)
        /\ \A other \in executions : MatchesRequest(other, stage) => other.at <= e.at
        /\ Take(stage, e)
    /\ UNCHANGED <<environment, clock, store, request, pinned, reading>>

\* The latest retained execution of the same request is used again.
Reuse(stage) ==
    /\ pc = stage /\ ~request.force /\ Present
    /\ \E e \in executions :
        /\ MatchesRequest(e, stage)
        /\ \A other \in executions : MatchesRequest(other, stage) => other.at <= e.at
        /\ Take(stage, e)
    /\ UNCHANGED <<environment, clock, store, request, pinned, reading>>

\* `capture` reads what its transcript will name, and then starts the tool.
\* The reads of `matches_request` just before are taken for the same.
Read(stage) ==
    /\ pc = stage /\ Present
    /\ request.force \/ \A e \in executions : ~MatchesRequest(e, stage)
    /\ reading' = ReadNow
    /\ pc' = IF stage = "diff" THEN "run_diff" ELSE "run_gate"
    /\ UNCHANGED <<environment, clock, store, request, pinned, diff, gate>>

\* The tool ends.  It may have read other files than its transcript names.
Run(stage) ==
    /\ pc = IF stage = "diff" THEN "run_diff" ELSE "run_gate"
    /\ clock < MaxRuns
    /\ clock' = clock + 1
    /\ \E out \in Diffs, code \in Codes :
        Take(stage, [read |-> reading, argv |-> ToolArguments(stage),
                     out |-> out, code |-> code, at |-> clock'])
    /\ reading' = Nothing
    /\ UNCHANGED <<environment, store, request, pinned>>

-----------------------------------------------------------------------------
Subject == [release |-> request.release, base |-> request.base,
            revision |-> pinned.release, baseRevision |-> pinned.base]
NewChangeSet == ChangeSet(Subject, diff, gate)
NewDecision == Decision(Subject, request.policy, diff, gate)

End ==
    /\ pc' = "idle"
    /\ request' = Nothing /\ pinned' = Nothing /\ reading' = Nothing
    /\ diff' = Nothing /\ gate' = Nothing

\* The evidence is merged with what is retained, and must verify.
Commit ==
    /\ pc = "commit"
    /\ executions' = executions \cup {diff, gate}
    /\ changeSets' = changeSets \cup {NewChangeSet}
    /\ decisions' = decisions \cup {NewDecision}
    /\ LinksVerify(changeSets', decisions', executions')
    /\ End
    /\ UNCHANGED <<environment, clock>>

\* A check fails, a file cannot be read, the tool cannot be started, another
\* required source fails: nothing is kept.
Fail ==
    /\ pc # "idle"
    /\ End
    /\ UNCHANGED <<environment, clock, store>>

-----------------------------------------------------------------------------
Change == changes < MaxChanges /\ changes' = changes + 1
Elsewhere == UNCHANGED <<clock, store, local>>

MoveTag ==
    /\ Change
    /\ \E r \in Releases, c \in Commits \cup {Nothing} : tags' = [tags EXCEPT ![r] = c]
    /\ UNCHANGED <<sboms, tool, policy>> /\ Elsewhere

BuildSbom ==
    /\ Change
    /\ \E r \in Releases, d \in Documents \cup {Nothing} : sboms' = [sboms EXCEPT ![r] = d]
    /\ UNCHANGED <<tags, tool, policy>> /\ Elsewhere

ChangeTool ==
    /\ Change
    /\ tool' \in Tools
    /\ UNCHANGED <<tags, sboms, policy>> /\ Elsewhere

ChangePolicy ==
    /\ Change
    /\ policy' \in Policies
    /\ UNCHANGED <<tags, sboms, tool>> /\ Elsewhere

Stages == {"diff", "gate"}

Next ==
    \/ Infer \/ Resolve \/ Check \/ Commit \/ Fail
    \/ \E s \in Stages : Reuse(s) \/ Read(s) \/ Run(s)
    \/ MoveTag \/ BuildSbom \/ ChangeTool \/ ChangePolicy

Spec == Init /\ [][Next]_vars

-----------------------------------------------------------------------------
TypeOK ==
    /\ tags \in [Releases -> Commits \cup {Nothing}]
    /\ sboms \in [Releases -> Documents \cup {Nothing}]
    /\ tool \in Tools /\ policy \in Policies
    /\ changes \in 0..MaxChanges /\ clock \in 0..MaxRuns
    /\ executions \subseteq Executions
    /\ pc \in {"idle", "resolve", "check", "commit"} \cup Stages \cup {"run_diff", "run_gate"}
    /\ \A e \in executions \cup ({diff, gate} \ {Nothing}) : e.at \in 1..clock
    /\ pc \in {"run_diff", "run_gate"} => reading \in Readings
    /\ pc = "commit" => {diff, gate} \subseteq Executions

\* What a collection prepares is never refused when it is committed: each of
\* its observations verifies against the executions it came from, captured or
\* used again, whatever is retained besides.
PreparedVerifies ==
    pc = "commit" =>
        LinksVerify(changeSets \cup {NewChangeSet}, decisions \cup {NewDecision},
                    executions \cup {diff, gate})

\* The decisions about the revisions and the bytes of a change, by what their
\* executions were rather than by what their results say.
Judgements(change, now) ==
    {o \in decisions :
        /\ o.subject.release = change.subject.release
        /\ o.subject.revision = change.subject.revision
        /\ o.subject.baseRevision = change.subject.baseRevision
        /\ o.result.policy = Default
        /\ o.execution \in executions
        /\ o.execution.argv.gate /\ o.execution.argv.target = change.subject.release
        /\ o.execution.out = change.source
        /\ o.execution.at <= now}

\* At no time is a release supported unless the tool, told to fail on added
\* components, printed just the change that is preserved and accepted it, and
\* in no retained run rejected it; nor is it contradicted unless it did.
AnswersBacked ==
    \A r \in Releases, now \in 1..clock :
        \A change \in Latest(changeSets, r, now) :
            LET answer == Answer(decisions, change, now)
                rejections == {o \in Judgements(change, now) : ~Success(o.execution)}
            IN  /\ answer = "supported" => Judgements(change, now) # {} /\ rejections = {}
                /\ answer = "contradicted" => \E o \in rejections : o.execution.code \in {2, 3}

\* New evidence agrees with the revision that evidence of the same release, as
\* target or now as base, has: a tag that moves, at any step of a collection,
\* never changes what was recorded for it.
RevisionsKept ==
    [][\A o \in changeSets' \ changeSets, p \in changeSets :
        /\ p.subject.release = o.subject.release => p.subject.revision = o.subject.revision
        /\ p.subject.release = o.subject.base => p.subject.revision = o.subject.baseRevision
      ]_vars

\* An inferred base comes before the release, and no other candidate comes
\* after it or beside it.
NearestBase ==
    [][pc = "idle" /\ pc' = "resolve" /\ request'.inferred =>
        /\ IsAncestor(request'.base, request'.release)
        /\ \A r \in Candidates(request'.release) \ {request'.base} :
            IsAncestor(r, request'.base) /\ tags[r] # tags[request'.base]
      ]_vars

\* A collection with --force decides the answer of its release from then on:
\* the change is the one the tool just printed, and a rejection contradicts.
ForcedCounts ==
    [][pc = "commit" /\ pc' = "idle" /\ request.force /\ diff \in executions' =>
        \A change \in Latest(changeSets', request.release, clock) :
            /\ change.execution = diff
            /\ request.policy = Default =>
                LET answer == Answer(decisions', change, clock)
                IN  IF gate.code = 0 THEN answer # "insufficient_evidence"
                    ELSE answer = "contradicted"
      ]_vars

=============================================================================
