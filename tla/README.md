# Divinate: a formal model

Divinate collects evidence about a source repository, keeps it in a state
directory, and evaluates claims about the repository from it. This directory
holds TLA+ modules that model parts of it, TLC configurations that check them
on small instances, and proofs that TLAPS checks for every instance. It is
written from the Rust source; paths below are relative to the repository root.

## The system

| part | source | state | operations |
|---|---|---|---|
| coverage decisions | `src/coverage.rs` | none: a pure function with three loops | `assess`, `assess_run`, `merge_intervals`, `gaps` |
| evaluators | `src/assertions.rs` | none | `evaluate` and one function per claim; reviewed integrations is the longest |
| GitHub and Azure DevOps acquisition | `src/acquisition.rs` | the transcript being captured | `capture_*` (requests, pages, failures), `assess` (offline, from the transcript) |
| pack protocol | `src/pack.rs` | a child process | `describe`, `plan`, `bind_*`, `normalize`, `evaluate`; link and assertion validation |
| packs | `packs/` | none | normalization of transcripts into observations |
| local execution, releases | `src/execution.rs`, `src/release.rs` | git work tree, files | `capture`, `verify`, `matches_request`; `collect`, `previous_release` |
| evidence state | `src/workflow.rs` | `.evidence/`: corpus, acquisitions, executions, invocations, blobs, configurations, cycles | `accumulate_with_executions`, `store_*`, `load_*`, `merge`, `as_of*` |
| provenance | `src/provenance.rs` | none | `verify_*_links`, `with_current_authority`, `with_declared_mirror` |
| commands | `src/main.rs` | `assertions/`, `dossiers/`, `views/` under labels next, current, previous | `collect`, `evaluate`, `status`, `review`, `dd`, `verify`, `run`, imports |
| views, dossiers, adapters, project file | `src/views.rs`, `src/dossier.rs`, `src/adapters.rs`, `src/project.rs` | none | renderings and translations |

How they interact: `collect` reads the project file, asks packs for plans, runs
acquisitions and local programs, has packs normalize what came back, stores
everything in the state directory and, at its end, evaluates every claim and
publishes the answers as `current`. `evaluate` reads the corpus as of a time,
withdraws the authority of runs whose contract was withdrawn or whose
repository is a mirror, and asks the evaluators, which ask the coverage
decisions. `review` compares two published evaluations. `verify` re-checks the
state directory. There are no locks and no server: the processes that meet are
commands in the same state directory, the provider that changes while it is
read, and the child processes of packs and tools.

What is hard, in short (PROJECT.json lists the hazards with their lines):

- intervals: half-open ends, adjacency, containment, runs that start inside
  what they claim to cover (`src/coverage.rs`);
- a provider that changes between two pages of one acquisition and forgets
  after a year; pagination that stops at a limit (`src/acquisition.rs`,
  `packs/github/main.rs`);
- several records of one event, sorted by content hash (`src/assertions.rs`);
- crashes between and inside file writes, and commands that overlap
  (`src/workflow.rs`, `src/main.rs`);
- answers about a past time while evidence keeps arriving;
- child processes with pipes and deadlines (`src/pack.rs`), tools whose inputs
  change while they run (`src/execution.rs`), tags that move
  (`src/release.rs`).

What makes each part correct: a coverage decision says of every instant what
the runs establish; `supported` and `contradicted` are true of the branch; what
the corpus names is on disk, nothing retained is lost; what is published is one
evaluation and what it replaces is kept; an acquisition assessed offline means
what its capture meant; an answer about the past changes only by evidence that is
stated to be of that past; a pack cannot hold the host past its deadline; an
execution record is of what ran.

## Modules

| module | models | kind |
|---|---|---|
| `CoverageRules` | the vocabulary of runs and intervals, `assess_run` | operators |
| `Coverage` | `assess`, one step per loop iteration | state machine over every corpus |
| `CoverageProofs` | theorems about `Coverage` and `PackAnswers` | proofs |
| `PackAnswers` | the answers of packs about branch policies and checks, and what core accepts of them | operators over the same corpora |
| `ReviewClaim` | `evaluate_every_main_change_reviewed` | operators over a corpus |
| `ReviewHistory` | provider, collector, corpus and claim composed | state machine |
| `ReviewHistoryProofs` | theorems about `ReviewHistory` and `ReviewClaim` | proofs |
| `AcquisitionTranscript` | `assess`: what a transcript is worth offline | operators over a transcript |
| `Acquisition` | every collector, from its first request to a sealed transcript, and transcripts altered afterwards | state machine |
| `AcquisitionProofs` | theorems about `Acquisition` and `AcquisitionTranscript` | proofs |
| `EvidenceLedger` | an append-only record | abstract specification |
| `EvidenceStore` | the state directory under collections that die or overlap | state machine, implements `EvidenceLedger` |
| `EvidenceStoreProofs` | theorems about `EvidenceStore` | proofs |
| `Publication` | `next`, `current`, `previous`, file by file, and `review` of what they hold | state machine |
| `Views` | `isms_update`: what moved between two evaluations | operators over answers |
| `HistoricalView` | the evidence as of a time, withdrawn authority, mirrors | operators over the evidence that commands retain |
| `HistoricalViewProofs` | theorems about `HistoricalView` | proofs |
| `PackInvoke` | one call of a pack: pipes, reader threads, deadline, kill | state machine, with fairness |
| `AnswerProofs` | theorems about `PackInvoke`, `Publication` and `Views`: how an answer stays whole | proofs |
| `SupplyChain` | what the release source derives from two executions, its links, `evaluate_supply_chain` | operators over observations |
| `ReleaseReviews` | exports about a release that keeps changing, and `evaluate_release_reviews` over them | state machine |
| `ReleaseReviewsProofs` | theorems about `ReleaseReviews` | proofs |
| `Release` | the `release-sbom` source as `collect` runs it, while tags, SBOMs, tool and policy change | state machine |
| `ReleaseProofs` | theorems about `Release` and `SupplyChain` | proofs |
| `MC*` | small instances | |

Definitions whose comment begins with *Slip* are plausible bugs of the code,
one per property, defined beside the definition they would replace.

### Coverage

An instant is a number; an interval is half-open. `Disposition` is the cascade
of conditions in `assess_run` in the order of the source, `Contribution` the
interval a run adds: its observed interval, intersected with the required one
and cut at the run's start, because a run cannot observe what had not happened.
`Coverage` starts from any corpus, requirement and knowledge cutoff and takes
the three loops step by step: `SkipRun`, `AssessRun` and `RejectRun` (a
timestamp that does not parse), `Extend` and `Push` for `merge_intervals`, and
`PassCovered` and `Decide` for `gaps`. The Vec that `merge_intervals` sorts is
a set from which a least element is taken; two equal contributions are one,
which the loop does not tell apart.

`MCCoverage` has five instants. Corpora of up to three complete runs over every
interval hold every overlap, adjacency, containment and gap of three intervals;
corpora of up to two runs add every authority, subject, branch, outcome,
pagination state, start and malformed field that changes a disposition; corpora
about revision checks are there for the evaluator that joins two kinds of
observation. The properties say that the gaps are
exactly the required instants no run establishes (`DecisionExact`), that
Complete means all are established (`CompleteMeansEstablished`), and that covered
and uncovered intervals partition the requirement into ordered, separated,
non-empty stretches (`Tiled`).

### PackAnswers

A pack's evaluator reads a corpus and answers, with support, contradictions and,
for every proposition it declares, a coverage decision; core repeats what it can
check of that and refuses the whole evaluation if it does not hold. The two are
different code: `EstablishedForPack`, `CompleteFor` and `Latest` are the GitHub
pack's idea of which evidence counts, `AboutTarget` the Azure DevOps pack's,
`Authoritative`, `Unestablished` and `Accepted` core's. `BranchPolicies`,
`ApprovingReview`, `RequiredStatusChecks` and `CurrentRevisionChecks` are the
packs' evaluators, `ConfiguredReview` core's own about the same configuration. An
observation is of the run that collected it and exists when that run does, so a
corpus of `Coverage` is also a corpus here; what its snapshots say is a *reading*,
a function from runs.

The properties are asked of every corpus, reading and mirror in the run
`coverage`: an accepted answer that is supported has every declared proposition
established over its interval, or a complete authoritative run about an answer
without one (`SupportedCovered`); core never refuses what these packs answer
(`PackAnswersAccepted`); and no run that failed or has no authority, and no
declared mirror, decides anything, neither by being used nor by hiding older
evidence (`FailuresDecideNothing`).

### ReviewClaim and ReviewHistory

`ReviewHistory` is the end-to-end model. The provider (`Tick`, `Approve`,
`Dismiss`, `Integrate`) is external: GitHub as the code uses it, an activity
feed read newest first that drops entries older than `Retention`, and a list of
reviews per pull request. The collector is `capture_github_history_with`, one
request per action: `FetchActivity`, `FetchAssociations`, `NextPull`,
`FetchReviews`, with `Beyond` the decision of `fetch_github_pages` after a page,
and `RequestFails` at every request. `Retain` seals the transcript, normalizes
it as `packs/github/main.rs` does and inserts it anywhere in the corpus, because
the corpus is sorted by content hash. `Verdict` of `ReviewClaim` is the
evaluator, read over all intervals and evaluation times by the properties. It
reads coverage pointwise; theorem `Complete` of `CoverageProofs` is what allows
that.

A page holds one entry, so the page limits 1 and 2 truncate and do not truncate
the histories of two changes. `MCReviewHistory.cfg` goes deep or wide (`Bounds`):
one change with two reviews and three captures, or two changes with a review of
each and two captures, under a feed that forgets after one tick. Where a capture's
timestamp may precede its requests, `Unhurried = FALSE` (the `--at` of `collect`).

What holds: `AnswersSound` (an answer, supported or contradicted, is true of the
branch, in every interleaving of provider and collector),
`DirectPushContradicts`, and `ReviewGapHeals` (a truncated review record is set
aside once a complete one exists). What does not hold is under Findings.

The reviews of the model are approvals and dismissals: of the other states
`changes_requested`, `commented` and `rejected` decide nothing, and an unknown
one is treated as a dismissal is. Records of another revision cannot arise from
the GitHub pack and are left out.

### AcquisitionTranscript and Acquisition

A request is a page of a population: an endpoint, what it is about (a head, a
pull request, a revision) and a number. A response keeps what is read from it
later: its status, the next page it names, the identifiers it lists, the number
of items it holds and the total it reports. The address of a page under
`/repositories/{id}` is the request it is an alias of, as
`canonical_github_path` makes it.

`Acquisition` is all the collectors in one machine. They differ in what they
read at each stage (`StageOne`, `StageTwo`, `StageThree`), in whether they follow
pages (`FollowsPages`) and in how a refusal ends them (`Classify`, `ClassifyGh`,
`Refuse`). `Open` takes the least of a stage's remaining populations, as
iterating over a `BTreeSet` does; `Answered` is the three page loops; `Proceed`
and `Exhaust` end a stage and the acquisition; `Abandon` is every error return.
The provider answers anything: any subset of the heads, at most one pull request
per response, a further page or none, a total that is right, one too high or
absent. `Assess` is `assess_enumeration`, on a sequence of exchanges of any
shape. It plans the requests again from the responses (`PlannedGithub`,
`PlannedAzure`, `PlannedSuccessor`), in other code than the collectors, and that
the two agree is `CollectorAgrees`.

A transcript is a file, and its digest can be computed by anybody, so the
question is also what replay makes of transcripts no collector wrote. `Reseal`
alters a sealed one once, in the ways of the test
`altered_transcripts_cannot_claim_the_collector_plan`: an exchange less, two
exchanged, a request of something else, a response that refuses, another
termination, a cut. `CompleteIsClosed` says that what is called complete has
everything its own responses name, and `TruncatedIsPrefix` that what is called
truncated, and keeps its authority, is a beginning of the collector's work. The
latter is silent about a refusal in the middle: offline replay of a truncated
history does not look at the status of a list whose error body lists nothing, so
neither does the property.

`MCAcquisition.cfg` has two heads, two pull requests and two revisions, one of
which is shared by the pull requests, every contract and page limits of one and
two. At most two responses of an acquisition name a further page: one is what a
limit of one cuts, two are what a limit of two cuts. For build validation, which
has the most populations, it is one, so there a limit of two never cuts.
A provider that enumerates one check run per
revision stands for the thousand of GitHub. Two refusals stand for six: they
differ in the status they end with and, under `gh`, not even in that.

The threads of an Azure DevOps pull request are read without following pages. A
response with a continuation token then leaves the transcript without authority,
which is what `CollectorAgrees` says of it. Integrity (digests, item counts), the
contract registry (see `HistoricalView`) and `compare` are left out.

### EvidenceStore

Files are absent, torn or whole, because a file is named by its content or by a
hash of it. A collection is its plan, the sequence of files it writes before
the corpus (configuration; per invocation executable and invocation;
acquisitions; outputs and executions), then `corpus.json`, then its cycle.
`Exists`, `Create` and `Fill` are the three outcomes of every `path.exists()`
followed by `fs::write`, which truncates before it writes. `Preflight` is
`preflight_collections`, after the configuration is stored and before any
evidence is; `Merge`, `TruncateCorpus` and `WriteCorpus` are the second half of
`accumulate_with_executions`. `Crash` stops a collection at any step.
Identities of files are the model's: link checks are reduced to whether the
named objects are there.

`MCEvidenceStore.cfg` runs three collections one after the other, two of which
may die, with a shared configuration and pack executable, one with outputs of a
local execution. Two crashes and a third collection are what it takes for a
collection to meet another one's leftovers twice. `MCOverlapping.cfg` lets two
overlap.

### Publication

Files hold the number of the evaluation they were written for. `Evaluate` writes
the files of `next` (`evaluate_state_with_skips`), `Check`, `Preserve`, `Copy`
and `Remove` are the loops of `promote_current_evaluation`, `EvaluateInPlace` is
`evaluate` without a label. `Cut` ends a command at any write, with the file torn
or untouched. Three files stand for five (a first, a middle and a last one);
four commands, two cut.

Every evaluation answers something, chosen when its command begins, and `Review`
is `state_review` on the files that are there. `Views` has the answers `review`
selects (of each kind of core's the first, all of packs), the key under which an
answer is found in both evaluations, which leaves out the interval's end, and the
gaps, whose key leaves out its beginning, too. `ReviewTellsWhatMoved` joins the
two: after a publication, the review of `previous` and `current` lists exactly
what moved between the evaluation that was current when the promotion began and
the one it published. `status` counts the same lists.

### HistoricalView

The evidence is a record of functions from identifiers: collection runs,
observations, acquisition and execution transcripts, and the set of sources.
`View` is `as_of_with_provenance` in its three passes: `AsOf` by the objects'
own times, `Captured` and `Justified` by the times of what is behind them,
`Referenced` for the transcripts. `Evaluated` adds `WithCurrentAuthority` and
`WithDeclaredMirror`, as `evaluate_state_with_skips` does. The state machine is
how evidence comes to be: `CollectRemote` and `CollectLocal` (a remote source's
objects share one time, a local execution keeps the time at which it ended),
`CollectManifest`, whose author states every time and may link retained
transcripts, each through `Commit`, which merges or refuses as a whole;
`Withdraw` edits the contract registry. The questions are asked of all times in
every state, so there is no action for them.

`Conservative` is about every later command and every earlier time. `Backdated` is
what a command brings with only times of then or before: where there is nothing of
the kind, the whole view stays what it was; where there is, the view may grow, and
what it said of the evidence there was stays. A command may bring something of the
kind, because `collect --at` and a manifest may state any time (see Findings).

`MCHistoricalView.cfg` has two of each object and three instants: a run before,
at or after its transcript, an observation before its run, and a second command
that brings something older than the first one did, or newer.

### PackInvoke

A pipe holds a number of units up to `PipeCapacity`; a response is complete at
`ResponseSize` units, cut before and trailed by other output after. `invoke`
writes the request (`WriteRequest`) before `StartReaders`; `Read` and
`EndOfFile` are a reader thread, which reads to the end of its stream and sends
what it has; `PackExited`, `KillPack`, `Killed`, `Receive` and `OutputTimeout`
are `wait_for_pack` and `receive_output`, `Conclude` the checks of the result.
The pack may read, write, close its pipes, leave a descendant that holds them
and exit, in any order, or do nothing. `MaxOutput` bounds what it writes to one
stream, at more than a pipe and a response hold.

Fairness: the host's own steps, each reader thread, the clock and the kernel's
kill are weakly fair, because nothing in the code makes them wait but what
their guards say. The pack and its descendant have none: the code cannot count
on them. The polling loop of 10 ms becomes one step of the host whose guard is
that the deadline passed or the pack exited.

Left out are errors of the operating system: a `try_wait` that fails
(`src/pack.rs:899-902`) returns without killing or waiting for the pack, and a
`read_to_end` that fails ends the call with an error. `NoPackLeft` is therefore
said of calls whose `try_wait` works.

### SupplyChain and Release

`Infer` is the command's choice of release, base (`previous_release` in a history
with merges, or `--base-release`), `--force` and policy. The release is the one
given or the only tag at HEAD. `Resolve` is `resolve_release_context` with
`recorded_revision`, `Check` the second resolution by the source and its checks of
both SBOMs. For each of the two stages, the diff and the gate, `Reuse` takes the
latest retained execution that matches the request, or `Read` and `Run` capture a
new one, in two steps because inputs are hashed before the tool starts; the reads
of `matches_request` just before are taken for the same. `Commit` is the merge of
the evidence with what is retained, which must verify. `Fail` stands for every
error return. `MoveTag`, `BuildSbom`, `ChangeTool` and `ChangePolicy` are what
happens around the collector, between any two of its steps.

The tool is arbitrary: any output that is a diff, any exit code or a signal, from
the same inputs a different one each time. A run of it ends later than the runs
before it, so `clock` counts runs and stands for the completion time. An execution
transcript is named by its digest and so stands for itself. Change sets that are
equally late are told apart by their identifiers, which may be in either order;
`AnswersBacked` and `ForcedCounts` are said of each. Collections that overlap are
`EvidenceStore`'s question.

What holds: `PreparedVerifies` (no collection prepares what its own links refuse),
`AnswersBacked` (an answer about a release is what the tool, with the arguments of
a gate, decided about exactly the change that is preserved; a rejection is not
hidden by a later pass), `RevisionsKept` (a moving tag does not change what was
recorded for it), `NearestBase`, and `ForcedCounts`.

`MCRelease.cfg` has three tags on a history of four commits that branches and
merges, two builds of one of the SBOMs, two tools, two policies and two diffs;
four runs of the tool, which are two whole collections, or one and what a second
one adds to its reuse; and one change around them. One is enough for the answers because the tool
is arbitrary already: a repeated build shows no more than a repeated run. Diffs and
tools are symmetric.

### ReleaseReviews

The claim about a release's reviews rests on evidence that only `collect manifest`
brings: membership of the release, review records of its pull requests, and a
branch-policy history that says from when to when it is complete. The provider is
external: pull requests are approved by others or their author, with a usable time
or none, approvals are dismissed, pull requests merged, the policy changed, and the
release is published and published again. `ExportMembership`, `ExportReviews` and
`ExportPolicy` are exports with the adapters' translation of them: all or some of
the pull requests, the policy from any time on. An export that is never imported,
or imported late, leaves a corpus that is reachable without it or with it earlier,
because the corpus is a set and answers are asked as of every time; so the import
is the same step.

`Latest`, `ReviewsFor`, `RequiredAt`, `VerdictOf`, `MemberVerdict` and `Outcome` are
the evaluator. `truth` keeps what each pull request had when it was merged, and
nothing of the code reads it. `ReleaseAnswersTrue` compares the two as of every
time: supported, every member met the policy in force at its merge; contradicted,
one did not. It has two limits, which are the code's. An approval dismissed after
the merge no longer shows that it was one, and here it counts as none, so a
contradiction may be untrue of the merge; the claim about reviewed integrations
leaves the same case open (`docs/packs.md:195-197`). And an approval or a policy
change in the instant of the merge counts as before it. `FullExportsDecide` is the
reverse: once the latest exports cover the release, its reviews and the policy at
every merge, the claim is decided.

Policy events of one instant come in the order in which they were made, while the
code orders them by their identifiers as text (`src/assertions.rs:931`): two changes
of a policy in one instant may be told in either order by a provider, and the
properties rest on its identifiers growing. Times that do not parse are left out.

`MCReleaseReviews.cfg` has two pull requests, an author and two reviewers, a policy
of none or two approvals, three instants: before, at and after a merge. `Bounds`
goes deep into one pull request with two exports of its reviews or of its policy,
wide over both under a moved tag, and over review records of two revisions.

## Runs

| run | configuration | result |
|---|---|---|
| `coverage` | `MCCoverage.cfg` | passes, for the coverage decisions and for the packs' answers |
| `integrations` | `MCReviewHistory.cfg` | passes |
| `acquisition` | `MCAcquisition.cfg` | passes |
| `store` | `MCEvidenceStore.cfg` | passes, with `LedgerKept` as the refinement of `EvidenceLedger` |
| `publication` | `MCPublication.cfg` | passes |
| `views` | `MCHistoricalView.cfg` | passes |
| `release` | `MCRelease.cfg` | passes |
| `release_reviews` | `MCReleaseReviews.cfg` | passes |
| `pack_call` | `MCPackInvoke.cfg` | passes, with `CallReturns` and `Drained` as liveness |
| `operation_ends` | `MCOperationEnds.cfg` | counterexample |
| `collect_again` | `MCCollectAgain.cfg` | counterexample |
| `overlapping` | `MCOverlapping.cfg` | counterexample |

`CHECK_DEADLOCK FALSE` in every configuration: every model is of a finite piece
of work that ends, or reaches the bounds on its clock, captures and commands.
Fairness is assumed in `PackInvoke` only, where progress is a promise of the
code; elsewhere a piece of work either ends by itself or may be abandoned at
any step.

## Findings

1. `collect_again`: a truncated activity feed leaves every merge recorded
   without its pull request, and collecting again does not settle it, because
   the two records of one event differ for good. Of the two, the one that sorts
   first decides which review record is looked at.
2. `overlapping`: the corpus is read, merged and written back without a lock;
   the later writer drops the other's observations.
3. `operation_ends`: the request is written before the readers and the deadline
   exist, so a pack that does not read it stops the command for good.

The repository says more than the code does in other places, which the models
show and no run is kept for:

- After a command that ended early, `previous` may become a mixture of two
  evaluations, because what the loop of `src/main.rs:1222` preserves is whatever
  `current` holds; `docs/workflows.md:21-22` and `docs/state.md:165-166` promise
  the former evaluation. `Publication` therefore states `FormerKept` and
  `WholeSomewhere` of what holds.
- A tag known only as the base of a release may move unnoticed:
  `recorded_revision` (`src/main.rs:1173`) looks at the `release` of an
  observation, while `docs/troubleshooting.md:64-65` and
  `docs/workflows.md:79-80` say that a moved recorded tag is rejected. The second
  conjunct of `RevisionsKept` is about targets that become bases, not the reverse.
- Without `--force` an execution that is used again keeps its time
  (`src/release.rs:395`): when an SBOM is replaced and put back, the change set of
  the second build stays the latest. Hence `ForcedCounts` is about `--force`.
- The latest execution is found by comparing times as text (`src/release.rs:403`),
  and a transcript names the inputs as they were before the tool started
  (`src/execution.rs:164`), so the tool may have read others. `Release` takes
  times as numbers and lets the tool print anything, so nothing rests on either;
  that a transcript is of the inputs it names is not shown.
- `docs/workflows.md:135-138` says that `--at` limits an answer "to evidence that
  had been collected by then, so later collections cannot leak into it". What
  limits it are the times that evidence states. `collect --at` with a past time
  gives that time to what it fetches now (`src/main.rs:817-821`, and from there the
  run, its transcript and its observations, `src/main.rs:862`, `1754`, `1912`,
  `1956`, `2080`), and the author of a manifest states every time
  (`src/lib.rs:83`): both enter answers as of times before they were collected. A
  local execution does not, because its transcript has the time at which it ended
  (`src/execution.rs:182`). `CollectRemote` and `CollectManifest` reach these
  cases; `Conservative` says what holds: a view changes only by what is stated to
  be of its time, and what it said of evidence it had does not change.
- `docs/answers.md:151-154` says that `review` lists the results that moved. It
  selects five kinds of core's claims (`src/views.rs:144`); of the others, such as
  the configured review requirement and a release's reviews, and of a claim whose
  period begins at another time, a moved result is not listed. Of two answers of a
  pack to one question, only the later one in the file is compared.
  `ReviewTellsWhatMoved` is about the claims that are selected.

Two limits of the answers are not findings but are part of how `ReviewHistory`
states its properties. `AnswersSound` is said of intervals that the provider
still has in full: with `collect --at` in the past, retention is counted back
from the stated time and not from the request (`src/main.rs:1823`), activity the
provider has dropped counts as observed, and a claim over it may be supported
wrongly. And a capture is stamped with the time at which its collection started,
so it counts as known from before its responses existed: an answer as of a time
during a collection changes when the collection is retained
(`src/main.rs:1754`).

## Proofs

`CoverageProofs` proves that `Spec` of `Coverage` keeps `TypeOK` (`TypeCorrect`),
`DecisionExact` (`Exact`), `CompleteMeansEstablished` (`Complete`)
and `Tiled` (`Partition`, with `Canonical`), for every set of
corpora and requirements and every set of instants that is a set of integers.
The invariant `Inv` says, phase by phase, which instants are accounted for:
while runs are assessed, `pending` holds exactly the instants that the runs
looked at so far establish; while intervals are merged, that set is split
between `pending` and `covered`, `covered` is ordered and separated and no
pending interval starts before its last one; in the gap loop, every required
instant before `cursor` is in exactly one of `covered` and `uncovered`. None of
these properties is inductive without it: they speak of the decision, the
invariant of the loops before it.

It also proves the three properties of `PackAnswers` for every corpus,
reading, mirror and answer. Each is an implication about one state, without an
induction of its own: the corpora are all there are, and the lemmas say, evaluator
by evaluator, that the evidence it used is of a run core finds complete, and that
the evidence it chose is the one it chooses when the others are not there.
`SupportedCovered` rests on the theorem `Complete`.

`ReleaseReviewsProofs` proves `TypeOK`, `ReleaseAnswersTrue` and `FullExportsDecide`
for every set of pull requests, finite set of actors, set of counts and bounds.
The step that matters is that the provider does not undo what a merge was (`Kept`):
policy events are appended at the present instant, a merged pull request stays
merged at its time, an approval only loses its state. So what an export said when
it was made stays true of the merge: `Shown`, of a record, that no approval from
before the merge is of one who did not approve, and that all who did are in it
unless one was dismissed; `Told`, of a policy history, that it lacks only events of
its last instant. Neither property is inductive without these, because an answer
as of an earlier time reads exports that the provider has left behind.

`EvidenceStoreProofs` assumes `~Overlapping` and proves `TypeOK`, `CorpusClosed`,
`CyclesClosed`, `CommittedKept`, `RefusedSavesNothing` and that the store
implements `EvidenceLedger` (`LedgerImplemented`), for every number of
collections, plans and crashes. The argument: collections do not overlap
(`Serial`), so the corpus that one read is the corpus it replaces (`Writer`)
and a file it found absent is absent when it creates it (`Fresh`); whole files
therefore stay whole, which keeps `Named`. `Place` ties a collection's position
among its files to whether the corpus holds it. The assumption is necessary:
run `overlapping` refutes `CommittedKept` without it. `OrderlyVerifies` (theorem
`Orderly`) needs what crashes take away: until a collection dies nothing is torn
but the file that is being filled (`Uncut`) and files are stored in their order
(`Stored`), so no collection finds a file it refuses.

`HistoricalViewProofs` proves all six properties of the run `views`, for every
set of identifiers, every number of commands and every time. `ViewDescribed`
computes the six fields of a view once (`Described`: the runs and observations
that were available, cut to one another); the rest follows from it and from
what the retained evidence keeps (`Retained`: references resolve, a run records
only observations that are retained with it). `Conserves` needs the latter: a
run that named an observation to come would change when it came. Its first part
goes field by field: what was retained before a command is available as of a time
after it exactly when it was before it (`AvailableBefore`), and what the command
brings is not, unless it is in `Backdated` (`ExtensionStaysOut`). The only
assumption is on the constants (`HistoricalAssumption`).

`AnswerProofs` proves all four properties of the run `publication`, for every
list of files, every number of commands and of commands that end early, at any
write. The loops are ordered: while files of `current` are replaced, those of what
it was are all in `previous` (`Replacing`, `Preserved`). That gives
`PublishedWhole`, `FormerKept` and `WholeSomewhere`; with it, and with each
evaluation answering each claim once, the review of a published evaluation lists
what moved (`Moved`).

`AnswerProofs` also proves that a call (`CallSpec`) keeps `TypeOK`, `AnswerWhole` and
`NoPackLeft`, for every length of request, response and diagnostic, capacity and
timeout. The invariant accounts for bytes: what a reader holds, what is in its pipe
and what is still to be written sum up to what was written, and a reader that is
done has seen the pipe empty with no writer left.

`ReviewHistoryProofs` proves all three properties of the run `integrations`:
`AnswersSound` (`Sound`), `DirectPushContradicts` (`Pushed`) and `ReviewGapHeals`
(`Heals`), for every number of changes, reviews, pages and captures and every order
of what the provider and the collectors do. The argument goes along the data.
`Provided`: an integration was reviewed only if there is an approval of somebody
else that is not later, and certainly if one is earlier. `Collecting`, of the capture
in progress: the activity seen has no holes below the requested end, has all that the
provider still keeps once the feed was read on, and a finished pull request's reviews
include an approval that may be why it counted as reviewed. `Truthful`, of a retained
capture: its records are of integrations that happened, an approval in them was
given, and if it was read to its last page it has a record of everything in the
interval it observed. What the provider does later does not undo any of it
(`Preserved`, `TruthfulKept`): it appends, and an approval at most loses its state.
The claim's part (`ContradictionTrue`, `SettledReviewed`) needs no induction. None of
the three properties is inductive: they speak of the corpus, which says nothing of
the capture that is about to join it.

`ReleaseProofs` proves `TypeOK` and all five properties of the run `release`:
`PreparedVerifies` (`Verifies`), `AnswersBacked` (`Backed`), `RevisionsKept`
(`RevisionsStay`), `NearestBase` (`BaseNearest`) and `ForcedCounts` (`ForceDecides`),
for every history, tool, number of runs and of changes around them, and every finite
set of tags. The invariant says of a retained observation that it says what its
execution was (`ChangeTrue`, `DecisionTrue`), and of a collection that its gate judged
its diff (`Prepared`), that it has the revisions that are recorded (`Agreed`, from
`Resolve` to `Commit`: a tag may move, the store does not) and, with `--force`, that
both executions are later than all that is retained (`Prepared`, `Fresh`).
`NearestBase` needs no invariant but types: of finitely many tags that come after a
candidate one has none after it (`Last`), and that is the base.

`AcquisitionProofs` proves all four properties of the run `acquisition`: `TypeOK`
(`TypeCorrect`), `CompleteIsClosed` (`CompleteClosed`), `TruncatedIsPrefix`
(`TruncatedPrefix`) and `CollectorAgrees` (`CollectorAgreed`), for every set of heads,
pull requests and revisions, every contract, page limit and number of linked pages,
and whatever the provider answers. The assumptions are those on the constants
(`TranscriptAssumption`, `AcquisitionAssumption`): identifiers are positive numbers,
and no request and an absent total are different from every request and every total.
The invariant has two parts.

- `Typed` holds of every transcript, altered or not. It says of an exchange that a
  response links the page after the one that was asked or none, that a refusal and
  a single object link none, and that only a first page reports a total. From
  `Typed` alone follow the two properties about what replay accepts, whoever made
  the transcript: what `assess_enumeration` has not refused leaves each exchange
  either planned or the page its predecessor names, and so, by an induction along
  the exchanges, reached from the first page of a promised population (`Reached`).
- `Collecting` holds of a collector's transcript until it is altered, and is why the
  two agree. Exchanges follow one another (`Walk`), only the last may be a refusal
  (`Healthy`), what was opened belongs to the stages so far (`Staged`), all of the
  stages so far was opened or is waiting (`Covered`), nothing is opened twice (`Once`)
  and a history's populations are opened in the order of the plan (`Ordered`). The
  populations of a stage are computed once by the collector and again, from longer
  transcripts, by the replay: that they stay the same while the stage is read is
  `SamePopulations`, and that the replay's plan is the three stages `PromisedStages`.

Neither half of `CollectorAgrees` is inductive: it speaks of sealed transcripts only,
and of a plan that is not made before. Three things needed care. The chain of
`next_pages` is a function defined by recursion along the exchanges, which TLA+ takes
to be one that satisfies its equation; that there is one is proved by induction on
their number (`ChainExists`), before anything is said of the pages it counts
(`PageIsPlace`: the place in the chain is the page, so `$skip` names the page that was
linked). The items of a population are not summed: the two sums are compared as they
stand, over the same set of exchanges on both sides (`CountsOf`, `CountsHold`). And
`Unreported` being no number is what makes an empty population without a total fail
(`AddsUp`).

Only model-checked: the liveness of `PackInvoke` (`CallReturns`, `Drained`), because
liveness under fairness is outside the prover's reach. What a recursive definition
computes for every input, which is too, is not claimed anywhere. Every safety
invariant that a passing run checks is a theorem, and so is the refinement of
`EvidenceLedger`. Type invariants are proved (`TypeOK`, or the conjunct `Typed` of
`ReviewHistory` and `Publication`) and not checked again by the runs, but that of
`Acquisition`, which says that no page at or past the limit is read.

## Not modelled

Wording, layout, JSON and YAML; argument parsing; digests (an identifier stands
for what it identifies); TLS and HTTP below a request's outcome; the contents
of dossiers and the due-diligence view, which are renderings of one evaluation;
the project file; what `status` says of sources (it chooses the latest cycle by
comparing times as text, `src/main.rs:2391`, which goes wrong for times whose
fractions differ in length); the normalization of Azure DevOps transcripts; the
packs that translate one file. PROJECT.json gives the reason for every part that
is not modelled.

## Plan

In order; 1 to 10 are done.

1. `CoverageRules`, `Coverage`, `CoverageProofs`.
2. `ReviewClaim`, `ReviewHistory`, `ReviewHistoryProofs`.
3. `EvidenceLedger`, `EvidenceStore`, `EvidenceStoreProofs`.
4. `Publication`, `AnswerProofs`.
5. `HistoricalView`, `HistoricalViewProofs`.
6. `AcquisitionTranscript`, `Acquisition`, `AcquisitionProofs`: every collector
   against `assess`.
7. `PackInvoke`, `AnswerProofs`.
8. `SupplyChain`, `Release`, `ReleaseProofs`.
9. `PackAnswers`; `ReleaseReviews`, `ReleaseReviewsProofs`.
10. `Views`, joined with `Publication`.
11. `Status`: the latest cycle, sources current or stale.
12. The Azure DevOps pack: its mutation, review and validation records, composed
    with `ReviewClaim`.

No safety property of 1 to 10 is left to prove; 11 and 12 bring theirs.
