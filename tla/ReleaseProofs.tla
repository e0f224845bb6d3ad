------------------------------ MODULE ReleaseProofs ------------------------------
(***************************************************************************)
(* Proofs about the release source, for every history, finite set of       *)
(* releases, builds and documents, whatever the tool prints and however    *)
(* often its surroundings change between two steps of a collection.        *)
(*                                                                         *)
(* The inductive invariant says of what is retained that its observations  *)
(* say what their executions were (ChangeTrue, DecisionTrue), and of a     *)
(* collection in progress that its gate judged its diff (Prepared), that   *)
(* with --force both are new (Fresh), and that it has the revisions that   *)
(* are recorded (Agreed).                                                  *)
(***************************************************************************)
EXTENDS Release, FiniteSetTheorems, WellFoundedInduction, TLAPS

Requests == [release : Releases, base : Releases, inferred : BOOLEAN,
             force : BOOLEAN, policy : Policies]
Pinned == [base : Commits, release : Commits]

\* The steps after which a collection has its revisions, and its diff.
HasRevisions == pc \notin {"idle", "resolve"}
HasDiff == pc \in {"gate", "run_gate", "commit"}

Ran(e) == e \in Executions /\ e.at \in 1..clock

Typed ==
    /\ tags \in [Releases -> Commits \cup {Nothing}]
    /\ sboms \in [Releases -> Documents \cup {Nothing}]
    /\ tool \in Tools /\ policy \in Policies
    /\ changes \in 0..MaxChanges /\ clock \in 0..MaxRuns
    /\ pc \in {"idle", "resolve", "check", "commit"} \cup Stages \cup {"run_diff", "run_gate"}
    /\ \A e \in executions : Ran(e)
    /\ diff = Nothing \/ Ran(diff)
    /\ gate = Nothing \/ Ran(gate)
    /\ pc # "idle" => request \in Requests
    /\ HasRevisions => pinned \in Pinned
    /\ pc \in {"run_diff", "run_gate"} => reading \in Readings
    /\ HasDiff => Ran(diff)

\* What an observation says is what its execution was.
ChangeTrue(o) ==
    /\ o.execution \in executions /\ o.execution.out = o.source
    /\ o.at \in 1..clock

DecisionTrue(o) ==
    /\ o.execution \in executions /\ NormalizedGateMatches(o.result, o.execution)
    /\ o.at = o.execution.at
    /\ o.execution.argv.target = o.subject.release
    /\ o.execution.code \in {0, 2, 3}
    /\ o.result.revision = o.subject.revision
    /\ o.result.baseRevision = o.subject.baseRevision

\* A collection about to commit: its gate judged the diff it has and, with --force,
\* is later than all that is retained.
Prepared ==
    pc = "commit" =>
        /\ Ran(gate)
        /\ gate.out = diff.out /\ gate.code \in {0, 2, 3}
        /\ gate.argv = ToolArguments("gate")
        /\ request.force => gate.at = clock /\ \A o \in changeSets : o.at < clock

\* With --force the diff is later than all that is retained.
Fresh == HasDiff /\ request.force => \A e \in executions : e.at < diff.at

\* The revisions a collection has are those of the evidence there is.
Agreed ==
    HasRevisions =>
        Recorded(request.release) \subseteq {pinned.release} /\
        Recorded(request.base) \subseteq {pinned.base}

IInv ==
    /\ Typed
    /\ \A o \in changeSets : ChangeTrue(o)
    /\ \A o \in decisions : DecisionTrue(o)
    /\ Prepared /\ Fresh /\ Agreed

-----------------------------------------------------------------------------
LEMMA InitInv == Init => IInv
<1> SUFFICES ASSUME Init PROVE IInv
  OBVIOUS
<1>1. Typed
  BY ReleaseAssumption DEF Init, Typed, HasRevisions, HasDiff, Stages
<1>2. QED
  BY <1>1 DEF Init, IInv, Prepared, Fresh, Agreed, HasRevisions, HasDiff

\* What was run stays so.
LEMMA RanStays ==
    ASSUME Typed, clock' \in 0..MaxRuns, clock <= clock', NEW e, Ran(e)
    PROVE  Ran(e)'
<1>1. clock \in Nat /\ clock' \in Nat
  BY ReleaseAssumption DEF Typed
<1>2. QED
  BY <1>1 DEF Ran

\* A step that retains nothing and ends no execution.
LEMMA StoreStays ==
    ASSUME IInv, UNCHANGED <<store, clock>>
    PROVE  /\ \A o \in changeSets' : ChangeTrue(o)'
           /\ \A o \in decisions' : DecisionTrue(o)'
           /\ \A r : Recorded(r)' = Recorded(r)
           /\ \A e : Ran(e) => Ran(e)'
BY DEF IInv, store, ChangeTrue, DecisionTrue, Recorded, Ran

LEMMA ElsewhereInv ==
    ASSUME IInv, Elsewhere, changes' \in 0..MaxChanges,
           tags' \in [Releases -> Commits \cup {Nothing}],
           sboms' \in [Releases -> Documents \cup {Nothing}],
           tool' \in Tools, policy' \in Policies
    PROVE  IInv'
<1>1. UNCHANGED <<clock, store, local, executions, changeSets, decisions, pc, request,
                  pinned, reading, diff, gate>>
  BY DEF Elsewhere, store, local
<1>2. Typed'
  BY <1>1 DEF IInv, Typed, Ran, HasRevisions, HasDiff
<1>3. /\ \A o \in changeSets' : ChangeTrue(o)'
      /\ \A o \in decisions' : DecisionTrue(o)'
  BY <1>1, StoreStays
<1>4. Prepared' /\ Fresh' /\ Agreed'
  BY <1>1 DEF IInv, Prepared, Fresh, HasDiff, store, Agreed, Ran, ToolArguments, HasRevisions, Recorded
<1>5. QED
  BY <1>2, <1>3, <1>4 DEF IInv

LEMMA SurroundingsInv ==
    ASSUME IInv, MoveTag \/ BuildSbom \/ ChangeTool \/ ChangePolicy
    PROVE  IInv'
<1>1. /\ tags \in [Releases -> Commits \cup {Nothing}]
      /\ sboms \in [Releases -> Documents \cup {Nothing}]
      /\ tool \in Tools /\ policy \in Policies /\ changes \in 0..MaxChanges
      /\ MaxChanges \in Nat
  BY ReleaseAssumption DEF IInv, Typed
<1>2. Change => changes' \in 0..MaxChanges
  BY <1>1 DEF Change
<1>3. CASE MoveTag
  <2>1. tags' \in [Releases -> Commits \cup {Nothing}]
    BY <1>1, <1>3 DEF MoveTag
  <2>2. QED
    BY <1>1, <1>2, <1>3, <2>1, ElsewhereInv DEF MoveTag
<1>4. CASE BuildSbom
  <2>1. sboms' \in [Releases -> Documents \cup {Nothing}]
    BY <1>1, <1>4 DEF BuildSbom
  <2>2. QED
    BY <1>1, <1>2, <1>4, <2>1, ElsewhereInv DEF BuildSbom
<1>5. CASE ChangeTool
  BY <1>1, <1>2, <1>5, ElsewhereInv DEF ChangeTool
<1>6. CASE ChangePolicy
  BY <1>1, <1>2, <1>6, ElsewhereInv DEF ChangePolicy
<1>7. QED
  BY <1>3, <1>4, <1>5, <1>6

-----------------------------------------------------------------------------
LEMMA InferInv ==
    ASSUME IInv, Infer
    PROVE  IInv'
<1>1. /\ pc = "idle" /\ pc' = "resolve" /\ request' \in Requests
      /\ UNCHANGED <<environment, clock, store, pinned, reading, diff, gate>>
  BY DEF Infer, Requests, IInv, Typed
<1>2. Typed'
  BY <1>1 DEF IInv, Typed, environment, store, Ran, HasRevisions, HasDiff
<1>3. /\ \A o \in changeSets' : ChangeTrue(o)'
      /\ \A o \in decisions' : DecisionTrue(o)'
  BY <1>1, StoreStays
<1>4. Prepared' /\ Fresh' /\ Agreed'
  BY <1>1 DEF Prepared, Fresh, Agreed, HasRevisions, HasDiff
<1>5. QED
  BY <1>2, <1>3, <1>4 DEF IInv

LEMMA ResolveInv ==
    ASSUME IInv, Resolve
    PROVE  IInv'
<1>1. /\ pc = "resolve" /\ pc' = "check"
      /\ pinned' = [base |-> tags[request.base], release |-> tags[request.release]]
      /\ {request.release, request.base} \subseteq Tagged
      /\ AsRecorded(request.base) /\ AsRecorded(request.release)
      /\ UNCHANGED <<environment, clock, store, request, reading, diff, gate>>
  BY DEF Resolve
<1>2. request \in Requests /\ tags \in [Releases -> Commits \cup {Nothing}]
  BY <1>1 DEF IInv, Typed
<1>3. tags[request.base] \in Commits /\ tags[request.release] \in Commits
  BY <1>1, <1>2 DEF Requests, Tagged
<1>4. /\ pinned' \in Pinned
      /\ pinned'.base = tags[request.base] /\ pinned'.release = tags[request.release]
  BY <1>1, <1>3 DEF Pinned
<1>5. Typed'
  BY <1>1, <1>2, <1>4 DEF IInv, Typed, environment, store, Ran, HasRevisions, HasDiff
<1>6. /\ \A o \in changeSets' : ChangeTrue(o)'
      /\ \A o \in decisions' : DecisionTrue(o)'
  BY <1>1, StoreStays
<1>7. Agreed'
  BY <1>1, <1>4 DEF Agreed, AsRecorded, Recorded, store
<1>8. Prepared' /\ Fresh'
  BY <1>1 DEF Prepared, Fresh, HasDiff
<1>9. QED
  BY <1>5, <1>6, <1>7, <1>8 DEF IInv

LEMMA CheckInv ==
    ASSUME IInv, Check
    PROVE  IInv'
<1>1. /\ pc = "check" /\ pc' = "diff"
      /\ UNCHANGED <<environment, clock, store, request, pinned, reading, diff, gate>>
  BY DEF Check
<1>2. Typed'
  BY <1>1 DEF IInv, Typed, environment, store, Ran, HasRevisions, HasDiff, Stages
<1>3. /\ \A o \in changeSets' : ChangeTrue(o)'
      /\ \A o \in decisions' : DecisionTrue(o)'
  BY <1>1, StoreStays
<1>4. Prepared' /\ Fresh' /\ Agreed'
  BY <1>1 DEF IInv, Prepared, Fresh, HasDiff, store, Agreed, HasRevisions, Recorded
<1>5. QED
  BY <1>2, <1>3, <1>4 DEF IInv

LEMMA ReadInv ==
    ASSUME IInv, NEW stage \in Stages, Read(stage)
    PROVE  IInv'
<1>1. /\ pc = stage /\ Present /\ reading' = ReadNow
      /\ pc' = IF stage = "diff" THEN "run_diff" ELSE "run_gate"
      /\ UNCHANGED <<environment, clock, store, request, pinned, diff, gate>>
  BY DEF Read
<1>2. reading' \in Readings
  BY <1>1 DEF ReadNow, Present, Readings, IInv, Typed
<1>3. stage = "diff" \/ stage = "gate"
  BY DEF Stages
<1>4. Typed'
  BY <1>1, <1>2, <1>3 DEF IInv, Typed, environment, store, Ran, HasRevisions, HasDiff
<1>5. /\ \A o \in changeSets' : ChangeTrue(o)'
      /\ \A o \in decisions' : DecisionTrue(o)'
  BY <1>1, StoreStays
<1>6. Prepared' /\ Fresh' /\ Agreed'
  BY <1>1, <1>3 DEF IInv, Prepared, Fresh, Agreed, HasDiff, HasRevisions, Recorded, store
<1>7. QED
  BY <1>4, <1>5, <1>6 DEF IInv

\* An execution, retained or new, is taken for a stage.
LEMMA TakeInv ==
    ASSUME IInv, NEW stage \in Stages, NEW e, Take(stage, e),
           pc = stage \/ pc = (IF stage = "diff" THEN "run_diff" ELSE "run_gate"),
           clock' \in 0..MaxRuns, clock <= clock',
           Ran(e)', e.argv = ToolArguments(stage),
           request.force => e.at = clock' /\ clock < clock',
           reading' = reading \/ reading' = Nothing,
           UNCHANGED <<environment, store, request, pinned>>
    PROVE  IInv'
<1>1. /\ Accepted(stage, e)
      /\ IF stage = "diff"
         THEN diff' = e /\ gate' = gate /\ pc' = "gate"
         ELSE gate' = e /\ diff' = diff /\ pc' = "commit"
  BY DEF Take
<1>2. stage = "diff" \/ stage = "gate"
  BY DEF Stages
<1>3. Typed /\ clock \in Nat /\ clock' \in Nat
  BY ReleaseAssumption DEF IInv, Typed
<1>4. \A x : Ran(x) => Ran(x)'
  BY <1>3, RanStays
<1>5. UNCHANGED <<tags, sboms, tool, policy, changes, executions, changeSets, decisions>>
  BY DEF environment, store
<1>6. HasRevisions /\ pc # "idle"
  BY <1>2 DEF HasRevisions
<1>7. (stage = "gate" => HasDiff) /\ pc' \in {"gate", "commit"}
  BY <1>1, <1>2 DEF HasDiff
<1>8. Typed'
  <2>1. Ran(diff)' /\ (gate' = Nothing \/ Ran(gate)')
    <3>1. CASE stage = "diff"
      <4>1. diff' = e /\ gate' = gate
        BY <1>1, <3>1
      <4>2. Ran(diff)'
        BY <4>1 DEF Ran
      <4>3. gate = Nothing \/ (Ran(gate) /\ clock' >= clock)
        BY <1>3 DEF Typed
      <4>4. QED
        BY <1>3, <4>1, <4>2, <4>3 DEF Ran
    <3>2. CASE stage = "gate"
      <4>1. gate' = e /\ diff' = diff /\ Ran(diff)
        BY <1>1, <1>3, <1>7, <3>2 DEF Typed
      <4>2. QED
        BY <1>3, <4>1 DEF Ran
    <3>3. QED
      BY <1>2, <3>1, <3>2
  <2>2. \A x \in executions' : Ran(x)'
    BY <1>3, <1>4, <1>5 DEF Typed
  <2>3. request' \in Requests /\ pinned' \in Pinned
    BY <1>3, <1>6 DEF Typed
  <2>4. QED
    BY <1>3, <1>5, <1>7, <2>1, <2>2, <2>3 DEF Typed, Stages, HasDiff, HasRevisions
<1>9. /\ \A o \in changeSets' : ChangeTrue(o)'
      /\ \A o \in decisions' : DecisionTrue(o)'
  BY <1>3, <1>5 DEF IInv, ChangeTrue, DecisionTrue
<1>10. Agreed'
  BY <1>5, <1>6 DEF IInv, Agreed, Recorded, HasRevisions
<1>11. Fresh'
  <2> SUFFICES ASSUME request.force, NEW x \in executions PROVE x.at < diff'.at
    BY <1>5 DEF Fresh
  <2>1. e.at = clock' /\ clock < clock' /\ x.at \in Nat /\ x.at <= clock
    BY <1>3 DEF Typed, Ran
  <2>2. CASE stage = "diff"
    BY <1>1, <1>3, <2>1, <2>2
  <2>3. CASE stage = "gate"
    BY <1>1, <1>7, <2>3 DEF IInv, Fresh
  <2>4. QED
    BY <1>2, <2>2, <2>3
<1>12. Prepared'
  <2> SUFFICES ASSUME pc' = "commit" PROVE Prepared'
    BY DEF Prepared
  <2>1. stage = "gate"
    BY <1>1, <1>2
  <2>2. gate' = e /\ diff' = diff /\ e.out = diff.out /\ e.code \in {0, 2, 3}
    BY <1>1, <2>1 DEF Accepted
  <2>3. Ran(gate)'
    BY <2>2 DEF Ran
  <2>4. gate'.argv = ToolArguments("gate")'
    BY <2>1, <2>2 DEF ToolArguments
  <2>5. ASSUME request.force, NEW o \in changeSets
        PROVE  o.at < clock'
    BY <1>3, <2>5 DEF IInv, ChangeTrue
  <2>6. QED
    BY <1>5, <2>2, <2>3, <2>4, <2>5 DEF Prepared
<1>13. QED
  BY <1>8, <1>9, <1>10, <1>11, <1>12 DEF IInv

LEMMA ReuseInv ==
    ASSUME IInv, NEW stage \in Stages, Reuse(stage)
    PROVE  IInv'
<1>1. PICK e \in executions : MatchesRequest(e, stage) /\ Take(stage, e)
  BY DEF Reuse
<1>2. /\ pc = stage /\ ~request.force
      /\ UNCHANGED <<environment, clock, store, request, pinned, reading>>
  BY DEF Reuse
<1>3. Ran(e)' /\ clock \in 0..MaxRuns /\ clock <= clock'
  BY <1>1, <1>2, ReleaseAssumption DEF IInv, Typed, Ran
<1>4. QED
  BY <1>1, <1>2, <1>3, TakeInv DEF MatchesRequest

LEMMA RunInv ==
    ASSUME IInv, NEW stage \in Stages, Run(stage)
    PROVE  IInv'
<1>1. PICK out \in Diffs, code \in Codes :
        Take(stage, [read |-> reading, argv |-> ToolArguments(stage),
                     out |-> out, code |-> code, at |-> clock'])
  BY DEF Run
<1> DEFINE e == [read |-> reading, argv |-> ToolArguments(stage),
                 out |-> out, code |-> code, at |-> clock + 1]
<1>2. /\ pc = IF stage = "diff" THEN "run_diff" ELSE "run_gate"
      /\ clock < MaxRuns /\ clock' = clock + 1
      /\ reading' = Nothing
      /\ UNCHANGED <<environment, store, request, pinned>>
  BY DEF Run
<1>3. clock \in Nat /\ clock' \in 0..MaxRuns /\ clock < clock' /\ clock <= clock'
      /\ clock' \in 1..clock'
  BY <1>2, ReleaseAssumption DEF IInv, Typed
<1>4. reading \in Readings /\ request \in Requests
  BY <1>2 DEF IInv, Typed, Stages
<1>5. ToolArguments(stage) \in Arguments
  BY <1>4 DEF ToolArguments, Arguments, Requests
<1>6. e \in Executions /\ e.at = clock' /\ e.argv = ToolArguments(stage)
  BY <1>2, <1>3, <1>4, <1>5 DEF Executions
<1>7. Take(stage, e)
  BY <1>1, <1>2
<1> HIDE DEF e
<1>8. e \in Executions /\ e.at \in 1..clock'
  BY <1>3, <1>6
<1>9. ASSUME NEW x, x \in Executions, x.at \in 1..clock'
      PROVE  Ran(x)'
  BY <1>9 DEF Ran
<1>10. PICK f : f = e
  OBVIOUS
<1>11. Ran(f)'
  BY <1>8, <1>9, <1>10
<1>12. QED
  BY <1>2, <1>3, <1>6, <1>7, <1>10, <1>11, TakeInv

\* What a collection prepares is true of what is retained once it is.
LEMMA NewTrue ==
    ASSUME IInv, pc = "commit"
    PROVE  /\ Ran(diff) /\ Ran(gate)
           /\ NewChangeSet.execution = diff /\ diff.out = NewChangeSet.source
           /\ NewChangeSet.at = gate.at
           /\ NewDecision.execution = gate /\ NormalizedGateMatches(NewDecision.result, gate)
           /\ NewDecision.at = gate.at
           /\ gate.argv.target = NewDecision.subject.release
           /\ gate.code \in {0, 2, 3}
           /\ NewDecision.result.revision = NewDecision.subject.revision
           /\ NewDecision.result.baseRevision = NewDecision.subject.baseRevision
<1>1. Ran(diff) /\ Ran(gate) /\ gate.out = diff.out /\ gate.code \in {0, 2, 3}
      /\ gate.argv = ToolArguments("gate")
  BY DEF IInv, Typed, HasDiff, Prepared
<1>2. gate.argv.gate /\ gate.argv.target = request.release
  <2>1. ToolArguments("gate").target = request.release
    BY DEF ToolArguments
  <2>2. ToolArguments("gate").gate <=> "gate" = "gate"
    BY Zenon DEF ToolArguments
  <2>3. QED
    BY <1>1, <2>1, <2>2
<1>3. NewDecision.result.transcript = gate /\ NewDecision.result.diff = gate.out
  BY <1>1 DEF NewDecision, Decision
<1>4. NewDecision.result.passed <=> gate.code = 0
  BY DEF NewDecision, Decision
<1>5. NormalizedGateMatches(NewDecision.result, gate)
  BY <1>2, <1>3, <1>4 DEF NormalizedGateMatches, Success
<1>6. QED
  BY <1>1, <1>2, <1>5 DEF NewChangeSet, ChangeSet, NewDecision, Decision, Subject

LEMMA CommitInv ==
    ASSUME IInv, Commit
    PROVE  IInv'
<1>1. /\ pc = "commit" /\ pc' = "idle"
      /\ executions' = executions \cup {diff, gate}
      /\ changeSets' = changeSets \cup {NewChangeSet}
      /\ decisions' = decisions \cup {NewDecision}
      /\ request' = Nothing /\ pinned' = Nothing /\ reading' = Nothing
      /\ diff' = Nothing /\ gate' = Nothing
      /\ UNCHANGED <<tags, sboms, tool, policy, changes, clock>>
  BY DEF Commit, End, environment
<1>2. Ran(diff) /\ Ran(gate)
  BY <1>1, NewTrue
<1>3. Typed'
  BY <1>1, <1>2 DEF IInv, Typed, Ran, HasRevisions, HasDiff
<1>4. \A o \in changeSets' : ChangeTrue(o)'
  <2>1. ASSUME NEW o \in changeSets PROVE ChangeTrue(o)'
    BY <1>1, <2>1 DEF IInv, ChangeTrue
  <2>2. PICK o : o = NewChangeSet
    OBVIOUS
  <2>3. o.execution = diff /\ diff.out = o.source /\ o.at \in 1..clock
    BY <1>1, <1>2, <2>2, NewTrue DEF Ran
  <2>4. ChangeTrue(o)'
    BY <1>1, <2>3 DEF ChangeTrue
  <2>5. QED
    BY <1>1, <2>1, <2>2, <2>4
<1>5. \A o \in decisions' : DecisionTrue(o)'
  <2>1. ASSUME NEW o \in decisions PROVE DecisionTrue(o)'
    BY <1>1, <2>1 DEF IInv, DecisionTrue
  <2>2. PICK o : o = NewDecision
    OBVIOUS
  <2>3. /\ o.execution = gate /\ NormalizedGateMatches(o.result, gate)
        /\ o.at = gate.at /\ gate.argv.target = o.subject.release
        /\ gate.code \in {0, 2, 3}
        /\ o.result.revision = o.subject.revision
        /\ o.result.baseRevision = o.subject.baseRevision
    BY <1>1, <2>2, NewTrue
  <2>4. gate \in executions'
    BY <1>1
  <2>5. DecisionTrue(o)'
    BY <1>1, <2>3 DEF DecisionTrue
  <2>6. QED
    BY <1>1, <2>1, <2>2, <2>5
<1>6. Prepared' /\ Fresh' /\ Agreed'
  BY <1>1 DEF Prepared, Fresh, Agreed, HasDiff, HasRevisions
<1>7. QED
  BY <1>3, <1>4, <1>5, <1>6 DEF IInv

LEMMA FailInv ==
    ASSUME IInv, Fail
    PROVE  IInv'
<1>1. /\ pc' = "idle" /\ diff' = Nothing /\ gate' = Nothing
      /\ UNCHANGED <<environment, clock, store>>
  BY DEF Fail, End
<1>2. Typed'
  BY <1>1 DEF IInv, Typed, environment, store, Ran, HasRevisions, HasDiff
<1>3. /\ \A o \in changeSets' : ChangeTrue(o)'
      /\ \A o \in decisions' : DecisionTrue(o)'
  BY <1>1, StoreStays
<1>4. Prepared' /\ Fresh' /\ Agreed'
  BY <1>1 DEF Prepared, Fresh, Agreed, HasDiff, HasRevisions
<1>5. QED
  BY <1>2, <1>3, <1>4 DEF IInv

LEMMA StepInv == IInv /\ [Next]_vars => IInv'
<1> SUFFICES ASSUME IInv, [Next]_vars PROVE IInv'
  OBVIOUS
<1>1. CASE UNCHANGED vars
  <2>1. UNCHANGED <<environment, clock, store, local, tags, sboms, tool, policy, changes,
                    executions, changeSets, decisions, pc, request, pinned, reading,
                    diff, gate>>
    BY <1>1 DEF vars, environment, store, local
  <2>2. Elsewhere
    BY <2>1 DEF Elsewhere
  <2>3. QED
    BY <2>1, <2>2, ElsewhereInv DEF IInv, Typed
<1>2. CASE Infer
  BY <1>2, InferInv
<1>3. CASE Resolve
  BY <1>3, ResolveInv
<1>4. CASE Check
  BY <1>4, CheckInv
<1>5. CASE Commit
  BY <1>5, CommitInv
<1>6. CASE Fail
  BY <1>6, FailInv
<1>7. ASSUME NEW s \in Stages, Reuse(s) \/ Read(s) \/ Run(s) PROVE IInv'
  BY <1>7, ReuseInv, ReadInv, RunInv
<1>8. CASE MoveTag \/ BuildSbom \/ ChangeTool \/ ChangePolicy
  BY <1>8, SurroundingsInv
<1>9. QED
  BY <1>1, <1>2, <1>3, <1>4, <1>5, <1>6, <1>7, <1>8 DEF Next

\* The inductive invariant, of every step of `collect` and of its surroundings.
THEOREM Invariant == Spec => []IInv
<1>1. Init => IInv
  BY InitInv
<1>2. IInv /\ [Next]_vars => IInv'
  BY StepInv
<1>3. QED
  BY <1>1, <1>2, PTL DEF Spec

-----------------------------------------------------------------------------
\* Every state is well typed: a collection never goes on without an input it has
\* to read (capture), and no execution ended later than the present run.
THEOREM TypeCorrect == Spec => []TypeOK
<1>1. IInv => TypeOK
  <2> SUFFICES ASSUME IInv PROVE TypeOK
    OBVIOUS
  <2>1. pc = "commit" => Ran(diff) /\ Ran(gate)
    BY DEF IInv, Typed, HasDiff, Prepared
  <2>2. QED
    BY <2>1 DEF IInv, Typed, TypeOK, Ran
<1>2. QED
  BY <1>1, Invariant, PTL

\* Invariant PreparedVerifies (verify_execution_links when `collect` commits).
THEOREM Verifies == Spec => []PreparedVerifies
<1>1. IInv => PreparedVerifies
  <2> SUFFICES ASSUME IInv, pc = "commit"
               PROVE  LinksVerify(changeSets \cup {NewChangeSet},
                                  decisions \cup {NewDecision}, executions \cup {diff, gate})
    BY DEF PreparedVerifies
  <2>1. \A o \in changeSets : o.execution \in executions /\ o.execution.out = o.source
    BY DEF IInv, ChangeTrue
  <2>2. \A o \in decisions : 
            o.execution \in executions /\ NormalizedGateMatches(o.result, o.execution)
    BY DEF IInv, DecisionTrue
  <2>3. /\ NewChangeSet.execution = diff /\ diff.out = NewChangeSet.source
        /\ NewDecision.execution = gate /\ NormalizedGateMatches(NewDecision.result, gate)
    BY NewTrue
  <2>4. PICK c, d : c = NewChangeSet /\ d = NewDecision
    OBVIOUS
  <2>5. QED
    BY <2>1, <2>2, <2>3, <2>4 DEF LinksVerify
<1>2. QED
  BY <1>1, Invariant, PTL

\* The decision that counts is one of them, and no pass if any is none.
LEMMA SelectedOne ==
    ASSUME NEW exact, exact # {}
    PROVE  /\ Selected(exact) \in exact
           /\ (\E o \in exact : ~o.result.passed) => ~Selected(exact).result.passed
<1>1. \E o \in exact : (\E other \in exact : ~other.result.passed) => ~o.result.passed
  OBVIOUS
<1>2. QED
  BY <1>1, Zenon DEF Selected

\* The evaluator looks at results; these are the decisions it finds.
LEMMA JudgementsMatch ==
    ASSUME IInv, NEW change, NEW now
    PROVE  MatchingGates(decisions, change, now) = Judgements(change, now)
<1>1. ASSUME NEW o \in decisions
      PROVE  /\ o.execution \in executions /\ o.at = o.execution.at
             /\ o.execution.argv.gate /\ o.execution.argv.target = o.subject.release
             /\ o.result.diff = o.execution.out
             /\ o.result.revision = o.subject.revision
             /\ o.result.baseRevision = o.subject.baseRevision
  BY <1>1 DEF IInv, DecisionTrue, NormalizedGateMatches
<1>2. QED
  BY <1>1 DEF MatchingGates, Judgements

\* Invariant AnswersBacked (evaluate_supply_chain): an answer is what the retained
\* executions of the tool decided about the change, at any time.
THEOREM Backed == Spec => []AnswersBacked
<1>1. IInv => AnswersBacked
  <2> SUFFICES ASSUME IInv, NEW r \in Releases, NEW now \in 1..clock,
                      NEW change \in Latest(changeSets, r, now)
               PROVE  LET answer == Answer(decisions, change, now)
                          rejections == {o \in Judgements(change, now) : ~Success(o.execution)}
                      IN  /\ answer = "supported" =>
                                Judgements(change, now) # {} /\ rejections = {}
                          /\ answer = "contradicted" =>
                                \E o \in rejections : o.execution.code \in {2, 3}
    BY DEF AnswersBacked
  <2>1. PICK exact : exact = Judgements(change, now)
    OBVIOUS
  <2>2. MatchingGates(decisions, change, now) = exact
    BY <2>1, JudgementsMatch
  <2>3. \A o \in exact : /\ o.result.passed <=> Success(o.execution)
                         /\ o.execution.code \in {0, 2, 3}
    BY <2>1 DEF Judgements, IInv, DecisionTrue, NormalizedGateMatches
  <2>4. CASE exact = {}
    BY <2>1, <2>2, <2>4 DEF Answer
  <2>5. CASE exact # {}
    <3>1. /\ Selected(exact) \in exact
          /\ (\E o \in exact : ~o.result.passed) => ~Selected(exact).result.passed
      BY <2>5, SelectedOne
    <3>2. Answer(decisions, change, now) =
              IF Selected(exact).result.passed THEN "supported" ELSE "contradicted"
      BY <2>2, <2>5 DEF Answer
    <3>3. CASE Selected(exact).result.passed
      <4>1. \A o \in exact : Success(o.execution)
        BY <2>3, <3>1, <3>3
      <4>2. QED
        BY <2>1, <2>5, <3>2, <3>3, <4>1
    <3>4. CASE ~Selected(exact).result.passed
      <4>1. ~Success(Selected(exact).execution)
            /\ Selected(exact).execution.code \in {2, 3}
        BY <2>3, <3>1, <3>4 DEF Success
      <4>2. QED
        BY <2>1, <3>1, <3>2, <3>4, <4>1
    <3>5. QED
      BY <3>3, <3>4
  <2>6. QED
    BY <2>4, <2>5
<1>2. QED
  BY <1>1, Invariant, PTL

\* A step that retains evidence is a commit.
LEMMA OnlyCommit ==
    ASSUME [Next]_vars, changeSets' # changeSets
    PROVE  Commit
<1>1. ~UNCHANGED changeSets
  OBVIOUS
<1>2. QED
  BY <1>1 DEF Next, vars, store, Infer, Resolve, Check, Fail, Reuse, Read, Run,
           MoveTag, BuildSbom, ChangeTool, ChangePolicy, Elsewhere

\* Action property RevisionsKept (recorded_revision, resolve_release): a moved tag
\* never changes what is recorded of a release.
THEOREM RevisionsStay == Spec => RevisionsKept
<1>1. IInv /\ [Next]_vars =>
        [\A o \in changeSets' \ changeSets, p \in changeSets :
            /\ p.subject.release = o.subject.release =>
                    p.subject.revision = o.subject.revision
            /\ p.subject.release = o.subject.base =>
                    p.subject.revision = o.subject.baseRevision]_vars
  <2> SUFFICES ASSUME IInv, [Next]_vars,
                      NEW o \in changeSets' \ changeSets, NEW p \in changeSets
               PROVE  /\ p.subject.release = o.subject.release =>
                            p.subject.revision = o.subject.revision
                      /\ p.subject.release = o.subject.base =>
                            p.subject.revision = o.subject.baseRevision
    OBVIOUS
  <2>1. Commit
    BY OnlyCommit
  <2>2. pc = "commit" /\ o = NewChangeSet
    BY <2>1 DEF Commit
  <2>3. /\ o.subject.release = request.release /\ o.subject.base = request.base
        /\ o.subject.revision = pinned.release /\ o.subject.baseRevision = pinned.base
    BY <2>2 DEF NewChangeSet, ChangeSet, Subject
  <2>4. /\ Recorded(request.release) \subseteq {pinned.release}
        /\ Recorded(request.base) \subseteq {pinned.base}
    BY <2>2 DEF IInv, Agreed, HasRevisions
  <2>5. p.subject.revision \in Recorded(p.subject.release)
    BY DEF Recorded
  <2>6. QED
    BY <2>3, <2>4, <2>5
<1>2. QED
  BY <1>1, Invariant, PTL DEF Spec, RevisionsKept

-----------------------------------------------------------------------------
\* Among tags that are there one has no other after it: there are finitely many,
\* and each that comes after another has more ancestors.
LEMMA Last ==
    ASSUME Typed, NEW S, S \subseteq Tagged, S # {}
    PROVE  \E x \in S : \A y \in S : tags[x] # tags[y] => ~IsAncestor(x, y)
<1>1. S \subseteq Releases /\ \A x \in S : tags[x] \in Commits
  BY DEF Typed, Tagged
<1> DEFINE Strictly(x) == {y \in S : tags[x] # tags[y] /\ IsAncestor(x, y)}
           sets == {Strictly(x) : x \in S}
<1>2. IsFiniteSet(S)
  BY <1>1, ReleaseAssumption, FS_Subset
<1>3. IsWellFoundedOn(StrictSubsetOrdering(S), FiniteSubsetsOf(S))
  BY <1>2, FS_StrictSubsetOrderingWellFounded
<1>4. \A x \in S : Strictly(x) \in SUBSET S /\ Strictly(x) \in sets
  OBVIOUS
<1>5. FiniteSubsetsOf(S) = SUBSET S
  BY <1>2, FS_FiniteSubsetsOfFinite
<1>6. ASSUME NEW x \in S, NEW y \in S, y \in Strictly(x)
      PROVE  y \notin Strictly(y) /\ Strictly(y) \subseteq Strictly(x)
  <2>1. tags[x] \in Commits /\ tags[y] \in Commits /\ tags[x] # tags[y]
        /\ tags[x] \in AncestorsOf[tags[y]]
    BY <1>1, <1>6 DEF IsAncestor
  <2>2. ASSUME NEW z \in Strictly(y) PROVE z \in Strictly(x)
    <3>1. z \in S /\ tags[z] \in Commits /\ tags[y] # tags[z]
          /\ tags[y] \in AncestorsOf[tags[z]]
      BY <1>1, <2>2 DEF IsAncestor
    <3>2. AncestorsOf[tags[y]] \subseteq AncestorsOf[tags[z]]
      BY <3>1, ReleaseAssumption
    <3>3. tags[x] # tags[z]
      BY <2>1, <3>1, ReleaseAssumption
    <3>4. QED
      BY <2>1, <3>1, <3>2, <3>3 DEF IsAncestor
  <2>3. QED
    BY <2>2
<1> HIDE DEF Strictly
<1>7. sets \subseteq FiniteSubsetsOf(S) /\ sets # {}
  BY <1>4, <1>5
<1>8. PICK x \in S : \A other \in sets : <<other, Strictly(x)>> \notin StrictSubsetOrdering(S)
  <2> HIDE DEF sets
  <2>1. PICK least \in sets :
            \A other \in sets : <<other, least>> \notin StrictSubsetOrdering(S)
    BY <1>3, <1>7, WFMin
  <2>2. \E x \in S : least = Strictly(x)
    BY <2>1 DEF sets
  <2>3. QED
    BY <2>1, <2>2
<1>9. ASSUME NEW y \in Strictly(x) PROVE FALSE
  <2>1. y \in S
    BY <1>4, <1>9
  <2>2. Strictly(y) # Strictly(x) /\ Strictly(y) \subseteq Strictly(x)
    BY <1>6, <1>9, <2>1
  <2>3. <<Strictly(y), Strictly(x)>> \in StrictSubsetOrdering(S)
    BY <1>4, <2>1, <2>2 DEF StrictSubsetOrdering
  <2>4. QED
    BY <1>4, <1>8, <2>1, <2>3
<1>10. QED
  BY <1>9 DEF Strictly

\* What an inferred base is.
LEMMA InferredNearest ==
    ASSUME Typed, NEW release \in Releases, NEW base \in Releases,
           PreviousRelease(release, base),
           NEW r \in Candidates(release) \ {base}
    PROVE  IsAncestor(r, base) /\ tags[r] # tags[base]
<1> DEFINE S == {x \in Candidates(release) : tags[r] # tags[x] /\ IsAncestor(r, x)}
<1>1. /\ Known \cup {release} \subseteq Tagged /\ Candidates(release) \subseteq Tagged
      /\ Nearest(release) = {base}
  BY DEF PreviousRelease, Candidates, Ancestors
<1>2. S \subseteq Tagged /\ r \in Tagged
  BY <1>1
<1>3. S # {}
  <2>1. r \notin Nearest(release)
    BY <1>1
  <2>2. QED
    BY <2>1 DEF Nearest
<1>4. PICK x \in S : \A y \in S : tags[x] # tags[y] => ~IsAncestor(x, y)
  <2> HIDE DEF S
  <2>1. QED
    BY <1>2, <1>3, Last
<1>5. ASSUME NEW y \in Candidates(release), tags[x] # tags[y], IsAncestor(x, y)
      PROVE  FALSE
  <2>1. tags[r] \in Commits /\ tags[x] \in Commits /\ tags[y] \in Commits
    BY <1>1, <1>2, <1>4 DEF Typed, Tagged
  <2>2. tags[r] \in AncestorsOf[tags[x]] /\ tags[r] # tags[x]
        /\ tags[x] \in AncestorsOf[tags[y]]
    BY <1>4, <1>5 DEF IsAncestor
  <2>3. tags[r] \in AncestorsOf[tags[y]] /\ tags[r] # tags[y]
    BY <1>5, <2>1, <2>2, ReleaseAssumption
  <2>4. y \in S
    BY <2>3 DEF IsAncestor
  <2>5. QED
    BY <1>4, <1>5, <2>4
<1>6. x \in Nearest(release)
  BY <1>4, <1>5 DEF Nearest
<1>7. QED
  BY <1>1, <1>4, <1>6

\* Action property NearestBase (previous_release).
THEOREM BaseNearest == Spec => NearestBase
<1>1. IInv /\ [Next]_vars =>
        [pc = "idle" /\ pc' = "resolve" /\ request'.inferred =>
            /\ IsAncestor(request'.base, request'.release)
            /\ \A r \in Candidates(request'.release) \ {request'.base} :
                IsAncestor(r, request'.base) /\ tags[r] # tags[request'.base]]_vars
  <2> SUFFICES ASSUME IInv, [Next]_vars, pc = "idle", pc' = "resolve", request'.inferred
               PROVE  /\ IsAncestor(request'.base, request'.release)
                      /\ \A r \in Candidates(request'.release) \ {request'.base} :
                            IsAncestor(r, request'.base) /\ tags[r] # tags[request'.base]
    OBVIOUS
  <2>1. Infer
    BY DEF Next, vars, local, Resolve, Check, Commit, Fail, End, Reuse, Read, Run, Stages,
           MoveTag, BuildSbom, ChangeTool, ChangePolicy, Elsewhere
  <2>2. PICK release \in Releases, base \in Releases :
            /\ PreviousRelease(release, base)
            /\ request'.release = release /\ request'.base = base
    BY <2>1 DEF Infer
  <2>3. base \in Candidates(release)
    BY <2>2 DEF PreviousRelease, Nearest
  <2>4. IsAncestor(base, release)
    BY <2>3 DEF Candidates, Ancestors
  <2>5. \A r \in Candidates(release) \ {base} : IsAncestor(r, base) /\ tags[r] # tags[base]
    BY <2>2, InferredNearest DEF IInv
  <2>6. QED
    BY <2>2, <2>4, <2>5
<1>2. QED
  BY <1>1, Invariant, PTL DEF Spec, NearestBase

-----------------------------------------------------------------------------
\* What a forced collection leaves: its change is the last, and its gate is one
\* of the decisions about it.
LEMMA ForcedLast ==
    ASSUME IInv, Commit, request.force,
           NEW change \in Latest(changeSets', request.release, clock)
    PROVE  change = NewChangeSet
<1>1. pc = "commit" /\ changeSets' = changeSets \cup {NewChangeSet}
  BY DEF Commit
<1>2. gate.at = clock /\ \A o \in changeSets : o.at < clock
  BY <1>1 DEF IInv, Prepared
<1>3. clock \in Nat /\ \A o \in changeSets : o.at \in Nat
  BY ReleaseAssumption DEF IInv, Typed, ChangeTrue
<1>4. NewChangeSet.at = clock /\ NewChangeSet.subject.release = request.release
  BY <1>2 DEF NewChangeSet, ChangeSet, Subject
<1>5. PICK new : new = NewChangeSet
  OBVIOUS
<1>6. new \in {o \in changeSets' : o.subject.release = request.release /\ o.at <= clock}
  BY <1>1, <1>3, <1>4, <1>5
<1>7. clock <= change.at /\ change \in changeSets'
  BY <1>4, <1>5, <1>6 DEF Latest
<1>8. change \notin changeSets
  BY <1>2, <1>3, <1>7
<1>9. QED
  BY <1>1, <1>7, <1>8

\* Action property ForcedCounts (`collect --force`): the run just made decides.
THEOREM ForceDecides == Spec => ForcedCounts
<1>1. IInv /\ [Next]_vars =>
        [pc = "commit" /\ pc' = "idle" /\ request.force /\ diff \in executions' =>
            \A change \in Latest(changeSets', request.release, clock) :
                /\ change.execution = diff
                /\ request.policy = Default =>
                    LET answer == Answer(decisions', change, clock)
                    IN  IF gate.code = 0 THEN answer # "insufficient_evidence"
                        ELSE answer = "contradicted"]_vars
  <2> SUFFICES ASSUME IInv, [Next]_vars,
                      pc = "commit", pc' = "idle", request.force, diff \in executions',
                      NEW change \in Latest(changeSets', request.release, clock)
               PROVE  /\ change.execution = diff
                      /\ request.policy = Default =>
                            LET answer == Answer(decisions', change, clock)
                            IN  IF gate.code = 0 THEN answer # "insufficient_evidence"
                                ELSE answer = "contradicted"
    OBVIOUS
  <2>1. Commit \/ Fail
    BY DEF Next, vars, local, Infer, Resolve, Check, Reuse, Read, Run, Stages,
           MoveTag, BuildSbom, ChangeTool, ChangePolicy, Elsewhere
  <2>2. ~Fail
    <3>1. diff.at \in Nat /\ (diff \notin executions \/ diff.at < diff.at)
      BY DEF IInv, Typed, HasDiff, Ran, Fresh
    <3>2. QED
      BY <3>1 DEF Fail, store
  <2>3. change = NewChangeSet
    BY <2>1, <2>2, ForcedLast
  <2>4. change.execution = diff
    BY <2>3 DEF NewChangeSet, ChangeSet
  <2>5. ASSUME request.policy = Default
        PROVE  LET answer == Answer(decisions', change, clock)
               IN  IF gate.code = 0 THEN answer # "insufficient_evidence"
                   ELSE answer = "contradicted"
    <3>1. PICK exact : exact = MatchingGates(decisions', change, clock)
      OBVIOUS
    <3>2. PICK decision : decision = NewDecision
      OBVIOUS
    <3>3. /\ decision.result.policy = Default /\ decision.subject = change.subject
          /\ decision.result.baseRevision = change.subject.baseRevision
          /\ decision.result.revision = change.subject.revision
          /\ decision.result.diff = change.source
      BY <2>3, <2>5, <3>2
         DEF NewDecision, Decision, NewChangeSet, ChangeSet, Subject
    <3>4. decision.at = gate.at /\ (decision.result.passed <=> gate.code = 0)
      BY <3>2 DEF NewDecision, Decision
    <3>5. gate.at = clock /\ clock \in Nat
      BY ReleaseAssumption DEF IInv, Prepared, Typed
    <3>6. decision \in decisions'
      BY <2>1, <2>2, <3>2 DEF Commit
    <3>7. decision \in exact
      BY <3>1, <3>3, <3>4, <3>5, <3>6 DEF MatchingGates
    <3>8. (\E o \in exact : ~o.result.passed) => ~Selected(exact).result.passed
      BY <3>7, SelectedOne
    <3>9. Answer(decisions', change, clock) =
              IF Selected(exact).result.passed THEN "supported" ELSE "contradicted"
      BY <3>1, <3>7 DEF Answer
    <3>10. CASE gate.code = 0
      BY <3>9, <3>10
    <3>11. CASE gate.code # 0
      BY <3>4, <3>7, <3>8, <3>9, <3>11
    <3>12. QED
      BY <3>10, <3>11
  <2>6. QED
    BY <2>4, <2>5
<1>2. QED
  BY <1>1, Invariant, PTL DEF Spec, ForcedCounts
=============================================================================
