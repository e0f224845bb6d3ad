------------------------------- MODULE SupplyChain -------------------------------
(***************************************************************************)
(* What the release source derives from two executions of `sbom-diff`, how *)
(* an observation is linked to the execution it came from, and what        *)
(* `evaluate_supply_chain` answers from those observations.                *)
(*                                                                         *)
(* An execution transcript and a source document are named by a digest of  *)
(* what they hold, so here each stands for its own name.  The bytes of a   *)
(* diff are a member of Diffs; an argument list is whether it has          *)
(* `--fail-on added-components`, and the two releases whose SBOMs it names.*)
(***************************************************************************)
EXTENDS Naturals, FiniteSets

CONSTANTS
    Releases,       \* tags
    Commits,
    Documents,      \* contents of SBOM files
    Tools,          \* contents of the executable
    Diffs,          \* what the tool may print that is a diff
    Codes,          \* exit codes; Nothing: ended by a signal
    Policies, Default, \* policy ids; "supply-chain/default"
    Nothing         \* what is not there

ASSUME SupplyChainAssumption ==
    /\ Default \in Policies
    /\ Codes \subseteq Nat \cup {Nothing}
    /\ Nothing \notin Releases \cup Commits \cup Documents \cup Tools \cup Diffs \cup Nat

\* The inputs a transcript records, by digest.
Readings == [tool : Tools, base : Documents, target : Documents]
Arguments == [gate : BOOLEAN, base : Releases, target : Releases]
Executions == [read : Readings, argv : Arguments, out : Diffs, code : Codes, at : Nat]
Subjects == [release : Releases, base : Releases, revision : Commits, baseRevision : Commits]
Success(execution) == execution.code = 0

-----------------------------------------------------------------------------
\* The change set of a release; both observations have the gate's time.
ChangeSet(subject, diff, gate) ==
    [subject |-> subject, source |-> diff.out, execution |-> diff, at |-> gate.at]

\* Slip: the result names the execution that printed the diff.
DecisionOfDiff(subject, policy, diff, gate) ==
    [subject |-> subject,
     result |-> [policy |-> policy, diff |-> diff.out, revision |-> subject.revision,
                 baseRevision |-> subject.baseRevision, transcript |-> diff,
                 passed |-> gate.code = 0],
     execution |-> gate, at |-> gate.at]

\* The normalized result of the gate.
Decision(subject, policy, diff, gate) ==
    [subject |-> subject,
     result |-> [policy |-> policy, diff |-> diff.out, revision |-> subject.revision,
                 baseRevision |-> subject.baseRevision, transcript |-> gate,
                 passed |-> gate.code = 0],
     execution |-> gate, at |-> gate.at]

\* A result says what its execution was: its arguments, its end, its output.
NormalizedGateMatches(result, execution) ==
    /\ execution.argv.gate
    /\ result.transcript = execution
    /\ result.passed <=> Success(execution)
    /\ result.diff = execution.out

\* Every observation is linked to a retained execution that printed its source
\* or ended as its source says.
LinksVerify(changes, decisions, retained) ==
    /\ \A o \in changes : o.execution \in retained /\ o.execution.out = o.source
    /\ \A o \in decisions :
        /\ o.execution \in retained
        /\ NormalizedGateMatches(o.result, o.execution)

-----------------------------------------------------------------------------
\* Change sets of a release at a time.  Of several that are equally late the
\* one whose id sorts last is taken, which may be any of them.
Latest(changes, release, now) ==
    LET matches == {o \in changes : o.subject.release = release /\ o.at <= now}
    IN  {o \in matches : \A other \in matches : other.at <= o.at}

\* The decisions about exactly this change.
MatchingGates(decisions, change, now) ==
    {o \in decisions :
        /\ o.result.policy = Default
        /\ o.subject.release = change.subject.release
        /\ o.at <= now
        /\ o.subject.baseRevision = change.subject.baseRevision
        /\ o.subject.revision = change.subject.revision
        /\ o.result.baseRevision = change.subject.baseRevision
        /\ o.result.revision = change.subject.revision
        /\ o.result.diff = change.source}

\* Slip: the latest decision counts.
SelectedLatest(exact) ==
    CHOOSE o \in exact : \A other \in exact : other.at <= o.at

\* The decision that counts: a failure before any pass.
Selected(exact) ==
    CHOOSE o \in exact : (\E other \in exact : ~other.result.passed) => ~o.result.passed

\* What the evaluator answers about a change set.
Answer(decisions, change, now) ==
    LET exact == MatchingGates(decisions, change, now)
    IN  IF exact = {} THEN "insufficient_evidence"
        ELSE IF Selected(exact).result.passed THEN "supported" ELSE "contradicted"

=============================================================================
