------------------------------- MODULE Publication -------------------------------
(***************************************************************************)
(* How a collection's answers become `current`: the files an evaluation    *)
(* writes under the label "next", and `promote_current_evaluation`, which  *)
(* copies `current` to `previous` and `next` to `current` one file at a    *)
(* time.  `evaluate` without a label writes `current` in place.            *)
(*                                                                         *)
(* `review` compares what `previous` and `current` hold.                   *)
(*                                                                         *)
(* An evaluation is a number; a file holds the number of the evaluation it *)
(* was written for, and `answers` what each evaluation says.  A command    *)
(* may end at any write, by an error or by being killed, and then leaves   *)
(* the file it was writing torn or as it was.  Commands run one at a time. *)
(***************************************************************************)
EXTENDS Views

CONSTANTS
    Parts,          \* the files of an evaluation, in the order of both loops
    Evaluations(_), \* what an evaluation may answer, by its number
    MaxEvaluations, \* bound on the commands
    MaxCuts,        \* bound on the commands that end early
    Absent, Torn    \* a file that is not there, a file cut in its write

ASSUME PublicationAssumption ==
    /\ Parts \in Seq(STRING) /\ Len(Parts) > 0
    /\ \A n \in 1..MaxEvaluations : Evaluations(n) # {}
    /\ MaxEvaluations \in Nat /\ MaxCuts \in Nat
    /\ Absent \notin Nat /\ Torn \notin Nat /\ Absent # Torn

Labels == {"previous", "current", "next"}
Part == DOMAIN Parts

VARIABLES
    files,          \* files[label][part]
    pc, part,       \* the running command: its loop, and the file it is at
    evaluation,     \* the latest evaluation's number
    answers,        \* what each evaluation answers
    cuts,           \* commands that ended early
    found,          \* history: `current` as the promotion found it
    published       \* history: the latest evaluation published completely

vars == <<files, pc, part, evaluation, answers, cuts, found, published>>

Nothing == [p \in Part |-> Absent]

Init ==
    /\ files = [l \in Labels |-> Nothing]
    /\ pc = "idle" /\ part = 1
    /\ evaluation = 0 /\ answers = <<>> /\ cuts = 0
    /\ found = Nothing /\ published = 0

\* The loop goes to its next file, or to the next loop after its last.
Advance(next) ==
    IF part = Len(Parts)
    THEN pc' = next /\ part' = 1
    ELSE pc' = pc /\ part' = part + 1

Write(label, value) == files' = [files EXCEPT ![label][part] = value]

-----------------------------------------------------------------------------
\* A command starts: a collection, or an evaluation of `current` in place.
Begin(command) ==
    /\ pc = "idle"
    /\ evaluation < MaxEvaluations
    /\ evaluation' = evaluation + 1
    /\ \E a \in Evaluations(evaluation + 1) : answers' = Append(answers, a)
    /\ pc' = command /\ part' = 1
    /\ UNCHANGED <<files, cuts, found, published>>

\* Slip: a file of an earlier attempt is kept.
EvaluateOnce ==
    /\ pc = "evaluate"
    /\ Write("next", IF files["next"][part] = Absent
                     THEN evaluation ELSE files["next"][part])
    /\ Advance("check")
    /\ UNCHANGED <<evaluation, answers, cuts, found, published>>

\* `evaluate_state_with_skips` under the label "next".
Evaluate ==
    /\ pc = "evaluate"
    /\ Write("next", evaluation)
    /\ Advance("check")
    /\ UNCHANGED <<evaluation, answers, cuts, found, published>>

\* The same under the label "current".
EvaluateInPlace ==
    /\ pc = "replace"
    /\ Write("current", evaluation)
    /\ Advance("idle")
    /\ UNCHANGED <<evaluation, answers, cuts, found, published>>

\* Slip: `current` is replaced without being preserved.
CheckWithoutPreserving ==
    /\ pc = "check"
    /\ pc' = IF \A p \in Part : files["next"][p] # Absent
             THEN "copy" ELSE "idle"
    /\ found' = files["current"]
    /\ UNCHANGED <<files, part, evaluation, answers, cuts, published>>

\* Every file of `next` must be there.
Check ==
    /\ pc = "check"
    /\ pc' = IF \A p \in Part : files["next"][p] # Absent
             THEN "preserve" ELSE "idle"
    /\ found' = files["current"]
    /\ UNCHANGED <<files, part, evaluation, answers, cuts, published>>

\* Slip: `previous` is made from what is being published.
PreserveNext ==
    /\ pc = "preserve"
    /\ Write("previous", files["next"][part])
    /\ Advance("copy")
    /\ UNCHANGED <<evaluation, answers, cuts, found, published>>

\* A file of `current` that is there is copied to `previous`.
Preserve ==
    /\ pc = "preserve"
    /\ IF files["current"][part] = Absent
       THEN UNCHANGED files
       ELSE Write("previous", files["current"][part])
    /\ Advance("copy")
    /\ UNCHANGED <<evaluation, answers, cuts, found, published>>

Copy ==
    /\ pc = "copy"
    /\ Write("current", files["next"][part])
    /\ pc' = "remove"
    /\ UNCHANGED <<part, evaluation, answers, cuts, found, published>>

Remove ==
    /\ pc = "remove"
    /\ Write("next", Absent)
    /\ IF part = Len(Parts)
       THEN pc' = "idle" /\ part' = 1 /\ published' = evaluation
       ELSE pc' = "copy" /\ part' = part + 1 /\ UNCHANGED published
    /\ UNCHANGED <<evaluation, answers, cuts, found>>

\* The label whose file a command is writing.
Target == CASE pc = "evaluate" -> "next"
            [] pc = "preserve" -> "previous"
            [] OTHER -> "current"

\* The command ends here.
Cut ==
    /\ pc # "idle"
    /\ cuts < MaxCuts
    /\ cuts' = cuts + 1
    /\ \/ UNCHANGED files
       \/ pc \in {"evaluate", "replace", "preserve", "copy"} /\ Write(Target, Torn)
    /\ pc' = "idle" /\ part' = 1
    /\ UNCHANGED <<evaluation, answers, found, published>>

Next ==
    \/ \E command \in {"evaluate", "replace"} : Begin(command)
    \/ Evaluate \/ EvaluateInPlace
    \/ Check \/ Preserve \/ Copy \/ Remove
    \/ Cut

Spec == Init /\ [][Next]_vars

-----------------------------------------------------------------------------
Is(label, n) == \A p \in Part : files[label][p] = n

JustPublished == pc = "idle" /\ published > 0 /\ published = evaluation

\* A publication that ends publishes one evaluation, its own, whatever earlier
\* commands left of theirs, and leaves nothing of it behind.
\* (promote_current_evaluation, evaluate_state_with_skips)
PublishedWhole ==
    JustPublished => Is("current", evaluation) /\ Is("next", Absent)

\* What `review` finds now: both evaluations are read from their first file.
Review ==
    IsmsUpdate(answers[files["previous"][1]], answers[files["current"][1]])

Asked(a, b) == a.kind = b.kind /\ a.subject = b.subject /\ a.from = b.from

\* Of an evaluation, the claims that are reviewed.
Reviewed(n) == {answers[n][i] : i \in ReviewAssertions(answers[n])}

\* An evaluation answers each of them once.
AnswersOnce(n) ==
    \A i, j \in ReviewAssertions(answers[n]) : Asked(answers[n][i], answers[n][j]) => i = j

\* What an evaluation misses for a claim, over whatever interval.
Missed(n, claim) ==
    UNION {b.missing : b \in
        {b \in Reviewed(n) : b.kind = claim.kind /\ b.subject = claim.subject}}

\* After a publication `review` says what moved between the evaluation that was
\* current and the one that is: exactly the reviewed claims whose outcome differs
\* where they were asked from the same time on, and every requirement that is
\* missing now and was not, whatever ended early before and whenever the intervals
\* end.  (promote_current_evaluation: the copies to `previous` all precede the
\* copies to `current`; isms_update, review_key; docs/answers.md:151-154)
ReviewTellsWhatMoved ==
    JustPublished /\ found[1] \in Nat /\ AnswersOnce(found[1]) /\ AnswersOnce(evaluation) =>
        /\ \A a \in Reviewed(found[1]), b \in Reviewed(evaluation) :
            /\ Asked(a, b) => (a.outcome # b.outcome <=> <<a, b>> \in Review.changes)
            /\ <<a, b>> \in Review.changes /\ b.outcome = "InsufficientEvidence"
                    => b \in Review.regressions
        /\ \A b \in Reviewed(evaluation) :
            \A requirement \in b.missing \ Missed(found[1], b) :
                <<b.kind, b.subject, requirement>> \in Review.newGaps

\* Every file of what was `current` is kept.  (promote_current_evaluation)
FormerKept ==
    JustPublished => \A p \in Part :
        found[p] # Absent => files["previous"][p] = found[p]

\* Until a command ends early, a reader always finds an evaluation that is of
\* one piece: `current` is, or `previous` is while `current` is replaced.
\* (promote_current_evaluation)
WholeSomewhere ==
    cuts = 0 /\ published > 0 /\ pc # "replace" =>
        \E n \in 1..evaluation : Is("current", n) \/ Is("previous", n)

=============================================================================
