------------------------------ MODULE AnswerProofs ------------------------------
(***************************************************************************)
(* Proofs about how an answer gets whole from where it is made to where it *)
(* is read: out of a pack's process (PackInvoke), for every size of        *)
(* request, response, pipe and output and every timeout, and into the      *)
(* files of `current` (Publication), for every list of files, every number *)
(* of commands and every number of commands that end early, at any write.  *)
(*                                                                         *)
(* The two machines share no state: each has its own specification,        *)
(* CallSpec the call's and Spec the publication's.                         *)
(***************************************************************************)
EXTENDS PackInvoke, Publication, TLAPS

(***************************************************************************)
(* Publication.  The loops are ordered: while files of `current` are       *)
(* replaced, those of what it was are all in `previous`.                   *)
(***************************************************************************)
Values == Nat \cup {Absent, Torn}
Contents == [Part -> Values]
Loops == {"evaluate", "replace", "check", "preserve", "copy", "remove"}

Typed ==
    /\ files \in [Labels -> Contents]
    /\ pc \in Loops \cup {"idle"} /\ part \in Part
    /\ evaluation \in Nat /\ published \in Nat /\ cuts \in Nat
    /\ found \in Contents

\* What was `current` is in `previous`, as far as the file at which.
Preserved(which) == \A p \in Part :
    p <= which /\ found[p] # Absent => files["previous"][p] = found[p]

\* How far the running command is.
Evaluated ==
    /\ pc = "evaluate" => \A p \in Part : p < part => files["next"][p] = evaluation
    /\ pc = "replace" => \A p \in Part : p < part => files["current"][p] = evaluation
    /\ pc = "check" => part = 1 /\ Is("next", evaluation)

Preserving ==
    pc = "preserve" =>
        /\ Is("next", evaluation) /\ found = files["current"]
        /\ Preserved(part - 1)

Replacing ==
    pc \in {"copy", "remove"} =>
        /\ Preserved(Len(Parts))
        /\ \A p \in Part :
            /\ p < part => files["current"][p] = evaluation /\ files["next"][p] = Absent
            /\ p > part => files["next"][p] = evaluation
            /\ p = part => IF pc = "copy" THEN files["next"][p] = evaluation
                                          ELSE files["current"][p] = evaluation

\* A command that runs has published nothing, and one that ended all or nothing.
Ended ==
    /\ published <= evaluation /\ (pc # "idle" => published < evaluation)
    /\ JustPublished =>
        Is("current", evaluation) /\ Is("next", Absent) /\ Preserved(Len(Parts))

\* Until a command ends early: `current` is the latest evaluation's or, while a
\* command runs, the one's before, or was when the command found it.
Orderly ==
    cuts = 0 =>
        /\ pc = "idle" /\ evaluation > 0 => Is("current", evaluation)
        /\ pc \in {"evaluate", "check", "preserve"} /\ evaluation > 1 =>
                Is("current", evaluation - 1)
        /\ pc \in {"copy", "remove"} /\ evaluation > 1 =>
                \A p \in Part : found[p] = evaluation - 1

IInv == Typed /\ Evaluated /\ Preserving /\ Replacing /\ Ended /\ Orderly

-----------------------------------------------------------------------------
LEMMA PartFacts ==
    /\ Len(Parts) \in Nat /\ Len(Parts) > 0
    /\ Part = 1..Len(Parts) /\ 1 \in Part /\ Len(Parts) \in Part
BY PublicationAssumption DEF Part

LEMMA ValueFacts ==
    /\ Absent \notin Nat /\ Torn \notin Nat /\ Absent # Torn
    /\ Absent \in Values /\ Torn \in Values /\ Nat \subseteq Values
BY PublicationAssumption DEF Values

LEMMA LabelFacts ==
    /\ "previous" \in Labels /\ "current" \in Labels /\ "next" \in Labels
    /\ "previous" # "current" /\ "previous" # "next" /\ "current" # "next"
BY DEF Labels

\* One file is written.
LEMMA Written ==
    ASSUME Typed, NEW label \in Labels, NEW value \in Values, Write(label, value)
    PROVE  /\ files' \in [Labels -> Contents]
           /\ files'[label][part] = value
           /\ \A p \in Part : p # part => files'[label][p] = files[label][p]
           /\ \A l \in Labels : l # label => files'[l] = files[l]
BY DEF Typed, Write, Contents

\* The loop goes on, or to the next one.
LEMMA Advanced ==
    ASSUME Typed, NEW next, Advance(next)
    PROVE  /\ part' \in Part
           /\ \/ /\ part = Len(Parts) /\ pc' = next /\ part' = 1
                 /\ \A p \in Part : p <= part
              \/ part # Len(Parts) /\ pc' = pc /\ part' = part + 1
BY PartFacts DEF Typed, Advance

LEMMA InitInv == Init => IInv
<1> SUFFICES ASSUME Init PROVE IInv
  OBVIOUS
<1>1. /\ pc = "idle" /\ part = 1 /\ evaluation = 0 /\ cuts = 0 /\ published = 0
      /\ found = Nothing /\ files = [l \in Labels |-> Nothing]
  BY DEF Init
<1>2. Nothing \in Contents
  BY ValueFacts DEF Nothing, Contents
<1>3. Typed
  BY <1>1, <1>2, PartFacts DEF Typed
<1>4. QED
  BY <1>1, <1>3 DEF IInv, Evaluated, Preserving, Replacing, Ended, Orderly, JustPublished

-----------------------------------------------------------------------------
(***************************************************************************)
(* The steps.                                                              *)
(***************************************************************************)
LEMMA BeginInv ==
    ASSUME IInv, NEW command \in {"evaluate", "replace"}, Begin(command)
    PROVE  IInv'
<1>1. /\ pc = "idle" /\ pc' = command /\ part' = 1 /\ evaluation' = evaluation + 1
      /\ UNCHANGED <<files, cuts, found, published>>
  BY DEF Begin
<1>2. Typed /\ evaluation \in Nat /\ published \in Nat /\ published <= evaluation
  BY DEF IInv, Typed, Ended
<1>3. Typed'
  BY <1>1, <1>2, PartFacts DEF Typed, Loops
<1>4. Evaluated' /\ Preserving' /\ Replacing'
  BY <1>1, PartFacts DEF Evaluated, Preserving, Replacing
<1>5. Ended'
  BY <1>1, <1>2 DEF Ended, JustPublished
<1>6. Orderly'
  <2>1. evaluation' - 1 = evaluation /\ (evaluation' > 1 => evaluation > 0)
    BY <1>1, <1>2
  <2>2. QED
    BY <1>1, <2>1 DEF IInv, Orderly, Is
<1>7. QED
  BY <1>3, <1>4, <1>5, <1>6 DEF IInv

LEMMA EvaluateInv ==
    ASSUME IInv, Evaluate
    PROVE  IInv'
<1>1. /\ pc = "evaluate" /\ Write("next", evaluation) /\ Advance("check")
      /\ UNCHANGED <<evaluation, answers, cuts, found, published>>
  BY DEF Evaluate
<1>2. Typed /\ evaluation \in Values /\ published < evaluation /\ published # evaluation
  BY <1>1, ValueFacts DEF IInv, Typed, Ended
<1>3. /\ files' \in [Labels -> Contents] /\ files'["next"][part] = evaluation
      /\ \A p \in Part : p # part => files'["next"][p] = files["next"][p]
      /\ files'["current"] = files["current"]
  BY <1>1, <1>2, LabelFacts, Written
<1>4. /\ part' \in Part
      /\ \/ /\ part = Len(Parts) /\ pc' = "check" /\ part' = 1
            /\ \A p \in Part : p <= part
         \/ part # Len(Parts) /\ pc' = "evaluate" /\ part' = part + 1
  BY <1>1, <1>2, Advanced
<1>5. Typed'
  BY <1>1, <1>2, <1>3, <1>4 DEF Typed, Loops
<1>6. \A p \in Part : p <= part => files'["next"][p] = evaluation
  BY <1>1, <1>2, <1>3, PartFacts DEF IInv, Evaluated, Typed
<1>7. Evaluated'
  BY <1>1, <1>2, <1>4, <1>6, PartFacts DEF Evaluated, Is, Typed
<1>8. Preserving' /\ Replacing' /\ Ended'
  BY <1>1, <1>2, <1>4 DEF IInv, Preserving, Replacing, Ended, JustPublished
<1>9. Orderly'
  BY <1>1, <1>3, <1>4 DEF IInv, Orderly, Is
<1>10. QED
  BY <1>5, <1>7, <1>8, <1>9 DEF IInv

LEMMA EvaluateInPlaceInv ==
    ASSUME IInv, EvaluateInPlace
    PROVE  IInv'
<1>1. /\ pc = "replace" /\ Write("current", evaluation) /\ Advance("idle")
      /\ UNCHANGED <<evaluation, answers, cuts, found, published>>
  BY DEF EvaluateInPlace
<1>2. Typed /\ evaluation \in Values /\ published < evaluation /\ published # evaluation
  BY <1>1, ValueFacts DEF IInv, Typed, Ended
<1>3. /\ files' \in [Labels -> Contents] /\ files'["current"][part] = evaluation
      /\ \A p \in Part : p # part => files'["current"][p] = files["current"][p]
  BY <1>1, <1>2, LabelFacts, Written
<1>4. /\ part' \in Part
      /\ \/ /\ part = Len(Parts) /\ pc' = "idle" /\ part' = 1
            /\ \A p \in Part : p <= part
         \/ part # Len(Parts) /\ pc' = "replace" /\ part' = part + 1
  BY <1>1, <1>2, Advanced
<1>5. Typed'
  BY <1>1, <1>2, <1>3, <1>4 DEF Typed, Loops
<1>6. \A p \in Part : p <= part => files'["current"][p] = evaluation
  BY <1>1, <1>2, <1>3, PartFacts DEF IInv, Evaluated, Typed
<1>7. Evaluated'
  BY <1>1, <1>2, <1>4, <1>6, PartFacts DEF Evaluated, Typed
<1>8. Preserving' /\ Replacing' /\ Ended'
  BY <1>1, <1>2, <1>4 DEF IInv, Preserving, Replacing, Ended, JustPublished
<1>9. Orderly'
  BY <1>1, <1>4, <1>6 DEF Orderly, Is
<1>10. QED
  BY <1>5, <1>7, <1>8, <1>9 DEF IInv

LEMMA CheckInv ==
    ASSUME IInv, Check
    PROVE  IInv'
<1>1. /\ pc = "check" /\ found' = files["current"]
      /\ pc' = IF \A p \in Part : files["next"][p] # Absent THEN "preserve" ELSE "idle"
      /\ UNCHANGED <<files, part, evaluation, answers, cuts, published>>
  BY DEF Check
<1>2. /\ Typed /\ Is("next", evaluation) /\ part = 1
      /\ published < evaluation /\ published # evaluation /\ evaluation # Absent
  BY <1>1, ValueFacts DEF IInv, Typed, Ended, Evaluated
<1>3. pc' = "preserve"
  BY <1>1, <1>2 DEF Is
<1>4. Typed'
  BY <1>1, <1>2, <1>3, LabelFacts DEF Typed, Loops
<1>5. Evaluated' /\ Replacing'
  BY <1>3 DEF Evaluated, Replacing
<1>6. Preserving'
  BY <1>1, <1>2, PartFacts DEF Preserving, Preserved, Is
<1>7. Ended'
  BY <1>1, <1>2, <1>3 DEF IInv, Ended, JustPublished
<1>8. Orderly'
  BY <1>1, <1>3 DEF IInv, Orderly, Is
<1>9. QED
  BY <1>4, <1>5, <1>6, <1>7, <1>8 DEF IInv

LEMMA PreserveInv ==
    ASSUME IInv, Preserve
    PROVE  IInv'
<1>1. /\ pc = "preserve" /\ Advance("copy")
      /\ UNCHANGED <<evaluation, answers, cuts, found, published>>
      /\ IF files["current"][part] = Absent
         THEN UNCHANGED files
         ELSE Write("previous", files["current"][part])
  BY DEF Preserve
<1>2. /\ Typed /\ Is("next", evaluation) /\ found = files["current"] /\ Preserved(part - 1)
      /\ published < evaluation /\ published # evaluation
  BY <1>1 DEF IInv, Typed, Ended, Preserving
<1>3. files["current"][part] \in Values
  BY <1>2, LabelFacts DEF Typed, Contents
<1>4. /\ files' \in [Labels -> Contents]
      /\ files'["next"] = files["next"] /\ files'["current"] = files["current"]
      /\ \A p \in Part : p # part => files'["previous"][p] = files["previous"][p]
      /\ found[part] # Absent => files'["previous"][part] = found[part]
  <2>1. CASE files["current"][part] = Absent
    BY <1>1, <1>2, <2>1 DEF Typed
  <2>2. CASE files["current"][part] # Absent
    BY <1>1, <1>2, <1>3, <2>2, LabelFacts, Written
  <2>3. QED
    BY <2>1, <2>2
<1>5. /\ part' \in Part
      /\ \/ /\ part = Len(Parts) /\ pc' = "copy" /\ part' = 1
            /\ \A p \in Part : p <= part
         \/ part # Len(Parts) /\ pc' = "preserve" /\ part' = part + 1
  BY <1>1, <1>2, Advanced
<1>6. Typed'
  BY <1>1, <1>2, <1>4, <1>5 DEF Typed, Loops
<1>7. \A p \in Part :
        p <= part /\ found[p] # Absent => files'["previous"][p] = found[p]
  <2>1. \A p \in Part : p <= part => p = part \/ p <= part - 1
    BY <1>2, PartFacts DEF Typed
  <2>2. QED
    BY <1>2, <1>4, <2>1 DEF Preserved
<1>8. Evaluated'
  BY <1>5 DEF Evaluated
<1>9. Preserving'
  <2>1. (part + 1) - 1 = part
    BY <1>2, PartFacts DEF Typed
  <2>2. QED
    BY <1>1, <1>2, <1>4, <1>5, <1>7, <2>1 DEF Preserving, Preserved, Is
<1>10. Replacing'
  <2>1. SUFFICES ASSUME pc' = "copy" PROVE Replacing'
    BY <1>5 DEF Replacing
  <2>2. part' = 1 /\ \A p \in Part : p <= part
    BY <1>5, <2>1
  <2>3. Preserved(Len(Parts))'
    BY <1>1, <1>7, <2>2 DEF Preserved
  <2>4. \A p \in Part : ~(p < 1) /\ files'["next"][p] = evaluation
    BY <1>2, <1>4, PartFacts DEF Is
  <2>5. QED
    BY <1>1, <2>1, <2>2, <2>3, <2>4 DEF Replacing
<1>11. Ended'
  BY <1>1, <1>2, <1>5 DEF IInv, Ended, JustPublished
<1>12. Orderly'
  BY <1>1, <1>2, <1>4, <1>5 DEF IInv, Orderly, Is
<1>13. QED
  BY <1>6, <1>8, <1>9, <1>10, <1>11, <1>12 DEF IInv

LEMMA CopyInv ==
    ASSUME IInv, Copy
    PROVE  IInv'
<1>1. /\ pc = "copy" /\ pc' = "remove" /\ Write("current", files["next"][part])
      /\ UNCHANGED <<part, evaluation, answers, cuts, found, published>>
  BY DEF Copy
<1>2. /\ Typed /\ Preserved(Len(Parts))
      /\ \A p \in Part :
            /\ p < part => files["current"][p] = evaluation /\ files["next"][p] = Absent
            /\ p > part => files["next"][p] = evaluation
            /\ p = part => files["next"][p] = evaluation
      /\ published < evaluation
  BY <1>1 DEF IInv, Replacing, Ended
<1>3. files["next"][part] = evaluation /\ evaluation \in Values /\ published # evaluation
  BY <1>2, ValueFacts DEF Typed
<1>4. /\ files' \in [Labels -> Contents] /\ files'["current"][part] = evaluation
      /\ \A p \in Part : p # part => files'["current"][p] = files["current"][p]
      /\ files'["next"] = files["next"] /\ files'["previous"] = files["previous"]
  BY <1>1, <1>2, <1>3, LabelFacts, Written
<1>5. Typed'
  BY <1>1, <1>2, <1>4 DEF Typed, Loops
<1>6. Preserved(Len(Parts))'
  BY <1>1, <1>2, <1>4 DEF Preserved
<1>7. \A p \in Part :
        /\ p < part => files'["current"][p] = evaluation /\ files'["next"][p] = Absent
        /\ p > part => files'["next"][p] = evaluation
        /\ p = part => files'["current"][p] = evaluation
  <2>1. \A p \in Part : p < part => p # part
    BY <1>2, PartFacts DEF Typed
  <2>2. QED
    BY <1>2, <1>4, <2>1
<1>8. Replacing'
  BY <1>1, <1>6, <1>7 DEF Replacing
<1>9. Evaluated' /\ Preserving' /\ Ended'
  BY <1>1, <1>2, <1>3 DEF IInv, Evaluated, Preserving, Ended, JustPublished
<1>10. Orderly'
  BY <1>1 DEF IInv, Orderly
<1>11. QED
  BY <1>5, <1>8, <1>9, <1>10 DEF IInv

LEMMA RemoveInv ==
    ASSUME IInv, Remove
    PROVE  IInv'
<1>1. /\ pc = "remove" /\ Write("next", Absent)
      /\ UNCHANGED <<evaluation, answers, cuts, found>>
      /\ \/ part = Len(Parts) /\ pc' = "idle" /\ part' = 1 /\ published' = evaluation
         \/ part # Len(Parts) /\ pc' = "copy" /\ part' = part + 1 /\ published' = published
  BY DEF Remove
<1>2. /\ Typed /\ Preserved(Len(Parts))
      /\ \A p \in Part :
            /\ p < part => files["current"][p] = evaluation /\ files["next"][p] = Absent
            /\ p > part => files["next"][p] = evaluation
            /\ p = part => files["current"][p] = evaluation
      /\ published < evaluation
  BY <1>1 DEF IInv, Replacing, Ended
<1>3. /\ files' \in [Labels -> Contents] /\ files'["next"][part] = Absent
      /\ \A p \in Part : p # part => files'["next"][p] = files["next"][p]
      /\ files'["current"] = files["current"] /\ files'["previous"] = files["previous"]
  BY <1>1, <1>2, ValueFacts, LabelFacts, Written
<1>4. Typed'
  BY <1>1, <1>2, <1>3, PartFacts DEF Typed, Loops
<1>5. Preserved(Len(Parts))'
  BY <1>1, <1>2, <1>3 DEF Preserved
<1>6. \A p \in Part :
        /\ p <= part => files'["current"][p] = evaluation /\ files'["next"][p] = Absent
        /\ p > part => files'["next"][p] = evaluation
  <2>1. \A p \in Part : /\ p <= part => p < part \/ p = part
                        /\ p < part => p # part
                        /\ p > part => p # part
    BY <1>2, PartFacts DEF Typed
  <2>2. QED
    BY <1>2, <1>3, <2>1
<1>7. CASE part = Len(Parts)
  <2>1. /\ pc' = "idle" /\ published' = evaluation /\ evaluation' = evaluation
        /\ evaluation \in Nat
    BY <1>1, <1>2, <1>7 DEF Typed
  <2>2. \A p \in Part : p <= part
    BY <1>7, PartFacts
  <2>3. Is("current", evaluation)' /\ Is("next", Absent)'
    BY <1>6, <2>1, <2>2 DEF Is
  <2>4. Evaluated' /\ Preserving' /\ Replacing'
    BY <2>1 DEF Evaluated, Preserving, Replacing
  <2>5. Ended'
    BY <1>5, <2>1, <2>3 DEF Ended
  <2>6. Orderly'
    BY <2>1, <2>3 DEF Orderly
  <2>7. QED
    BY <1>4, <2>4, <2>5, <2>6 DEF IInv
<1>8. CASE part # Len(Parts)
  <2>1. /\ pc' = "copy" /\ published' = published /\ evaluation' = evaluation
        /\ part' = part + 1 /\ published # evaluation
    BY <1>1, <1>2, <1>8 DEF Typed
  <2>2. \A p \in Part : /\ p < part + 1 => p <= part
                        /\ p > part + 1 \/ p = part + 1 => p > part
    BY <1>2, PartFacts DEF Typed
  <2>3. Replacing'
    BY <1>5, <1>6, <2>1, <2>2 DEF Replacing
  <2>4. Evaluated' /\ Preserving'
    BY <2>1 DEF Evaluated, Preserving
  <2>5. Ended'
    BY <1>2, <2>1 DEF IInv, Ended, JustPublished
  <2>6. Orderly'
    BY <1>1, <2>1 DEF IInv, Orderly
  <2>7. QED
    BY <1>4, <2>3, <2>4, <2>5, <2>6 DEF IInv
<1>9. QED
  BY <1>7, <1>8

LEMMA CutInv ==
    ASSUME IInv, Cut
    PROVE  IInv'
<1>1. /\ pc # "idle" /\ pc' = "idle" /\ part' = 1 /\ cuts' = cuts + 1
      /\ UNCHANGED <<evaluation, answers, found, published>>
      /\ UNCHANGED files \/ Write(Target, Torn)
  BY DEF Cut
<1>2. Typed /\ published < evaluation /\ published # evaluation /\ cuts \in Nat
  BY <1>1 DEF IInv, Typed, Ended
<1>3. Target \in Labels
  BY LabelFacts DEF Target
<1>4. files' \in [Labels -> Contents]
  <2>1. CASE UNCHANGED files
    BY <1>2, <2>1 DEF Typed
  <2>2. CASE Write(Target, Torn)
    BY <1>2, <1>3, <2>2, ValueFacts, Written
  <2>3. QED
    BY <1>1, <2>1, <2>2
<1>5. Typed'
  BY <1>1, <1>2, <1>4, PartFacts DEF Typed
<1>6. Evaluated' /\ Preserving' /\ Replacing'
  BY <1>1 DEF Evaluated, Preserving, Replacing
<1>7. Ended'
  BY <1>1, <1>2 DEF IInv, Ended, JustPublished
<1>8. Orderly'
  <2>1. cuts' # 0
    BY <1>1, <1>2
  <2>2. QED
    BY <2>1 DEF Orderly
<1>9. QED
  BY <1>5, <1>6, <1>7, <1>8 DEF IInv

LEMMA Invariant == Spec => []IInv
<1>1. IInv /\ [Next]_vars => IInv'
  <2> SUFFICES ASSUME IInv, [Next]_vars PROVE IInv'
    OBVIOUS
  <2>1. ASSUME NEW command \in {"evaluate", "replace"}, Begin(command) PROVE IInv'
    BY <2>1, BeginInv
  <2>2. CASE Evaluate \/ EvaluateInPlace
    BY <2>2, EvaluateInv, EvaluateInPlaceInv
  <2>3. CASE Check \/ Preserve
    BY <2>3, CheckInv, PreserveInv
  <2>4. CASE Copy \/ Remove \/ Cut
    BY <2>4, CopyInv, RemoveInv, CutInv
  <2>5. CASE UNCHANGED vars
    BY <2>5 DEF vars, IInv, Typed, Evaluated, Preserving, Preserved, Replacing, Ended,
                Orderly, JustPublished, Is
  <2>6. QED
    BY <2>1, <2>2, <2>3, <2>4, <2>5 DEF Next
<1>2. QED
  BY <1>1, InitInv, PTL DEF Spec

-----------------------------------------------------------------------------
\* Invariant PublishedWhole (promote_current_evaluation, evaluate_state_with_skips):
\* a publication that ends publishes its own evaluation, and leaves nothing of it.
THEOREM Whole == Spec => []PublishedWhole
<1>1. IInv => PublishedWhole
  BY DEF IInv, Ended, PublishedWhole
<1>2. QED
  BY <1>1, Invariant, PTL

\* Invariant FormerKept (promote_current_evaluation): every file of what was
\* `current` is in `previous`.
THEOREM Former == Spec => []FormerKept
<1>1. IInv => FormerKept
  <2>1. \A p \in Part : p <= Len(Parts)
    BY PartFacts
  <2>2. QED
    BY <2>1 DEF IInv, Ended, Preserved, FormerKept
<1>2. QED
  BY <1>1, Invariant, PTL

\* Invariant WholeSomewhere (promote_current_evaluation): until a command ends early,
\* `current` or `previous` holds one evaluation.
THEOREM Somewhere == Spec => []WholeSomewhere
<1>1. IInv => WholeSomewhere
  <2> SUFFICES ASSUME IInv, cuts = 0, published > 0, pc # "replace"
               PROVE  \E n \in 1..evaluation : Is("current", n) \/ Is("previous", n)
    BY DEF WholeSomewhere
  <2>1. /\ Typed /\ Orderly /\ evaluation \in Nat /\ published \in Nat
        /\ published <= evaluation /\ (pc # "idle" => published < evaluation)
    BY DEF IInv, Ended, Typed
  <2>2. CASE pc = "idle"
    <3>1. evaluation > 0 /\ evaluation \in 1..evaluation
      BY <2>1
    <3>2. QED
      BY <2>1, <2>2, <3>1 DEF Orderly
  <2>3. CASE pc # "idle"
    <3>1. evaluation > 1 /\ evaluation - 1 \in 1..evaluation /\ evaluation - 1 \in Nat
      BY <2>1, <2>3
    <3>2. CASE pc \in {"evaluate", "check", "preserve"}
      BY <2>1, <3>1, <3>2 DEF Orderly
    <3>3. CASE pc \in {"copy", "remove"}
      <4>1. \A p \in Part : found[p] = evaluation - 1 /\ found[p] # Absent
        BY <2>1, <3>1, <3>3, ValueFacts DEF Orderly
      <4>2. Preserved(Len(Parts)) /\ \A p \in Part : p <= Len(Parts)
        BY <3>3, PartFacts DEF IInv, Replacing
      <4>3. Is("previous", evaluation - 1)
        BY <4>1, <4>2 DEF Is, Preserved
      <4>4. QED
        BY <3>1, <4>3
    <3>4. QED
      BY <2>1, <2>3, <3>2, <3>3 DEF Typed, Loops
  <2>4. QED
    BY <2>2, <2>3
<1>2. QED
  BY <1>1, Invariant, PTL

-----------------------------------------------------------------------------
(***************************************************************************)
(* What a review says of two evaluations that answer each claim once.      *)
(***************************************************************************)
LEMMA SameKey ==
    ASSUME NEW a, NEW b
    PROVE  ReviewKey(a) = ReviewKey(b) <=> Asked(a, b)
BY DEF ReviewKey, Asked

LEMMA KeyedOnce ==
    ASSUME NEW n, AnswersOnce(n)
    PROVE  ByKey(answers[n]) = Reviewed(n)
BY SameKey DEF ByKey, Reviewed, AnswersOnce

LEMMA ChangesTold ==
    ASSUME NEW m, NEW n, AnswersOnce(m), AnswersOnce(n),
           NEW a \in Reviewed(m), NEW b \in Reviewed(n)
    PROVE  LET changes == Changes(answers[m], answers[n])
           IN  /\ Asked(a, b) => (a.outcome # b.outcome <=> <<a, b>> \in changes)
               /\ <<a, b>> \in changes /\ b.outcome = "InsufficientEvidence"
                    => b \in CoverageRegressions(changes)
<1> DEFINE changes == Changes(answers[m], answers[n])
<1>1. <<a, b>> \in ByKey(answers[m]) \X ByKey(answers[n])
  BY KeyedOnce
<1>2. <<a, b>> \in changes <=> ReviewKey(a) = ReviewKey(b) /\ a.outcome # b.outcome
  BY <1>1 DEF Changes
<1> HIDE DEF changes
<1>3. ASSUME <<a, b>> \in changes, b.outcome = "InsufficientEvidence"
      PROVE  b \in CoverageRegressions(changes)
  <2>1. a.outcome # "InsufficientEvidence"
    BY <1>2, <1>3
  <2>2. <<a, b>> \in {c \in changes : /\ c[2].outcome = "InsufficientEvidence"
                                      /\ c[1].outcome # "InsufficientEvidence"}
    BY <1>3, <2>1
  <2>3. <<a, b>>[2] = b
    OBVIOUS
  <2>4. QED
    BY <2>2, <2>3 DEF CoverageRegressions
<1>4. QED
  BY <1>2, <1>3, SameKey DEF changes

LEMMA GapsTold ==
    ASSUME NEW m, NEW n, NEW b \in Reviewed(n), NEW requirement \in b.missing \ Missed(m, b)
    PROVE  <<b.kind, b.subject, requirement>> \in NewGaps(answers[m], answers[n])
<1>1. <<b.kind, b.subject, requirement>> \in Gaps(answers[n])
  BY DEF Gaps, Reviewed
<1>2. ASSUME <<b.kind, b.subject, requirement>> \in Gaps(answers[m]) PROVE FALSE
  <2>1. PICK i \in ReviewAssertions(answers[m]) : \E r \in answers[m][i].missing :
            <<b.kind, b.subject, requirement>> = <<answers[m][i].kind, answers[m][i].subject, r>>
    BY <1>2 DEF Gaps
  <2>2. /\ answers[m][i].kind = b.kind /\ answers[m][i].subject = b.subject
        /\ requirement \in answers[m][i].missing
    BY <2>1
  <2>3. answers[m][i] \in Reviewed(m)
    BY DEF Reviewed
  <2>4. requirement \in Missed(m, b)
    BY <2>2, <2>3 DEF Missed
  <2>5. QED
    BY <2>4
<1>3. QED
  BY <1>1, <1>2 DEF NewGaps

\* Invariant ReviewTellsWhatMoved (promote_current_evaluation, isms_update): a review
\* compares the evaluation that was current with the one that is, and tells what moved.
THEOREM Moved == Spec => []ReviewTellsWhatMoved
<1>1. IInv => ReviewTellsWhatMoved
  <2> SUFFICES ASSUME IInv, JustPublished, found[1] \in Nat,
                      AnswersOnce(found[1]), AnswersOnce(evaluation)
               PROVE
        /\ \A a \in Reviewed(found[1]), b \in Reviewed(evaluation) :
            /\ Asked(a, b) => (a.outcome # b.outcome <=> <<a, b>> \in Review.changes)
            /\ <<a, b>> \in Review.changes /\ b.outcome = "InsufficientEvidence"
                    => b \in Review.regressions
        /\ \A b \in Reviewed(evaluation) :
            \A requirement \in b.missing \ Missed(found[1], b) :
                <<b.kind, b.subject, requirement>> \in Review.newGaps
    BY DEF ReviewTellsWhatMoved
  <2>1. files["current"][1] = evaluation
    BY PartFacts DEF IInv, Ended, Is
  <2>2. files["previous"][1] = found[1]
    <3>1. found[1] # Absent /\ 1 <= Len(Parts)
      BY ValueFacts, PartFacts
    <3>2. QED
      BY <3>1, PartFacts DEF IInv, Ended, Preserved
  <2>3. LET changes == Changes(answers[found[1]], answers[evaluation])
        IN  /\ Review.changes = changes
            /\ Review.newGaps = NewGaps(answers[found[1]], answers[evaluation])
            /\ Review.regressions = CoverageRegressions(changes)
    BY <2>1, <2>2 DEF Review, IsmsUpdate
  <2>4. QED
    BY <2>3, ChangesTold, GapsTold
<1>2. QED
  BY <1>1, Invariant, PTL

-----------------------------------------------------------------------------
(***************************************************************************)
(* The call of a pack.  What a reader holds, what is in its pipe and what  *)
(* is still to be written add up to what was written.                      *)
(***************************************************************************)
\* What was written to a stream was read from it or is still in it.
Conserved ==
    \A s \in Streams :
        /\ reader[s] = "none" => received[s] = 0
        /\ received[s] + pipe[s] = emitted[s]

\* A stream that ended stays ended: its pipe is empty and nobody holds it.
StreamsEnded ==
    \A s \in Streams : reader[s] = "sent" => pipe[s] = 0 /\ holders[s] = {}

\* What the place of the call says of the pack and of the readers.
Placed ==
    /\ host = "start" =>
        /\ pack = "none"
        /\ \A f \in Pipes : holders[f] = {}
    /\ host \in {"start", "write"} => \A s \in Streams : reader[s] = "none"
    /\ host \in {"write", "poll", "killing"} => pack \in {"running", "exited"}
    /\ host \in {"stdout", "stderr", "conclude"} => pack = "waited for"
    /\ host \in {"stderr", "conclude"} => reader["stdout"] = "sent"
    /\ host = "conclude" => reader["stderr"] = "sent"
    /\ host = "returned" => pack \in {"none", "waited for"}

\* What an accepted answer rests on.
Answered ==
    /\ host # "returned" => outcome = "none"
    /\ outcome = "accepted" =>
        /\ host = "returned" /\ pack = "waited for"
        /\ status = "success" /\ written = RequestSize
        /\ \A s \in Streams : reader[s] = "sent"

CallInv == TypeOK /\ Conserved /\ StreamsEnded /\ Placed /\ Answered

-----------------------------------------------------------------------------
LEMMA Sizes ==
    /\ RequestSize \in Nat /\ PipeCapacity \in Nat /\ MaxOutput \in Nat /\ Timeout \in Nat
    /\ 0 \in 0 .. RequestSize /\ 0 \in 0 .. PipeCapacity /\ 0 \in 0 .. MaxOutput
    /\ Timeout \in 0 .. Timeout
BY PackInvokeAssumption

\* The numbers of a typed state.
LEMMA Counts ==
    ASSUME TypeOK
    PROVE  /\ written \in Nat /\ written <= RequestSize
           /\ remaining \in Nat /\ remaining <= Timeout
           /\ \A f \in Pipes : pipe[f] \in Nat /\ pipe[f] <= PipeCapacity
           /\ \A s \in Streams :
                /\ s \in Pipes
                /\ emitted[s] \in Nat /\ emitted[s] <= MaxOutput
                /\ received[s] \in Nat /\ received[s] <= MaxOutput
<1>1. written \in 0 .. RequestSize /\ remaining \in 0 .. Timeout
  BY DEF TypeOK
<1>2. \A f \in Pipes : pipe[f] \in 0 .. PipeCapacity
  BY DEF TypeOK
<1>3. \A s \in Streams : emitted[s] \in 0 .. MaxOutput /\ received[s] \in 0 .. MaxOutput
  BY DEF TypeOK
<1>4. QED
  BY <1>1, <1>2, <1>3, Sizes DEF Pipes

LEMMA CallInvInit == CallInit => CallInv
<1> SUFFICES ASSUME CallInit PROVE CallInv
  OBVIOUS
<1> USE Sizes
<1>1. TypeOK
  BY DEF CallInit, TypeOK, Pipes, Streams, Programs
<1>2. Conserved
  BY DEF CallInit, Conserved, Pipes, Streams, Programs
<1>3. StreamsEnded
  BY DEF CallInit, StreamsEnded, Pipes, Streams, Programs
<1>4. Placed
  BY DEF CallInit, Placed, Pipes, Streams, Programs
<1>5. Answered
  BY DEF CallInit, Answered, Pipes, Streams, Programs
<1>6. QED
  BY <1>1, <1>2, <1>3, <1>4, <1>5 DEF CallInv

LEMMA CallInvNext == CallInv /\ [CallNext]_callVars => CallInv'
<1> SUFFICES ASSUME CallInv, [CallNext]_callVars PROVE CallInv'
  OBVIOUS
<1> USE Sizes
<1>1. CASE Reject
  <2>1. TypeOK'
    BY <1>1 DEF Reject, Return, programVars, readerVars, TypeOK, CallInv,
       Pipes, Streams, Programs
  <2>2. Conserved'
    BY <1>1 DEF Reject, Return, programVars, readerVars, TypeOK, Conserved, CallInv,
       Pipes, Streams, Programs
  <2>3. StreamsEnded'
    BY <1>1 DEF Reject, Return, programVars, readerVars, TypeOK, StreamsEnded, Placed, CallInv,
       Pipes, Streams, Programs
  <2>4. Placed'
    BY <1>1 DEF Reject, Return, programVars, readerVars, TypeOK, Placed, CallInv,
       Pipes, Streams, Programs
  <2>5. Answered'
    BY <1>1 DEF Reject, Return, programVars, readerVars, TypeOK, Placed, Answered, CallInv,
       Pipes, Streams, Programs
  <2>6. QED
    BY <2>1, <2>2, <2>3, <2>4, <2>5 DEF CallInv
<1>2. CASE Spawn
  <2>1. TypeOK'
    BY <1>2 DEF Spawn, readerVars, TypeOK, CallInv,
       Pipes, Streams, Programs
  <2>2. Conserved'
    BY <1>2 DEF Spawn, readerVars, TypeOK, Conserved, CallInv,
       Pipes, Streams, Programs
  <2>3. StreamsEnded'
    BY <1>2 DEF Spawn, readerVars, TypeOK, StreamsEnded, Placed, CallInv,
       Pipes, Streams, Programs
  <2>4. Placed'
    BY <1>2 DEF Spawn, readerVars, TypeOK, Placed, CallInv,
       Pipes, Streams, Programs
  <2>5. Answered'
    BY <1>2 DEF Spawn, readerVars, TypeOK, Placed, Answered, CallInv,
       Pipes, Streams, Programs
  <2>6. QED
    BY <2>1, <2>2, <2>3, <2>4, <2>5 DEF CallInv
<1>3. CASE WriteRequest
  <2>1. TypeOK'
    <3>1. written + 1 \in 0 .. RequestSize /\ pipe["stdin"] + 1 \in 0 .. PipeCapacity
      BY <1>3, Counts DEF WriteRequest, CallInv, Pipes
    <3>2. QED
      BY <3>1, <1>3 DEF WriteRequest, readerVars, TypeOK, CallInv
  <2>2. Conserved'
    BY <1>3 DEF WriteRequest, readerVars, TypeOK, Conserved, CallInv,
       Pipes, Streams, Programs
  <2>3. StreamsEnded'
    BY <1>3 DEF WriteRequest, readerVars, TypeOK, StreamsEnded, Placed, CallInv,
       Pipes, Streams, Programs
  <2>4. Placed'
    BY <1>3 DEF WriteRequest, readerVars, TypeOK, Placed, CallInv,
       Pipes, Streams, Programs
  <2>5. Answered'
    BY <1>3 DEF WriteRequest, readerVars, TypeOK, Placed, Answered, CallInv,
       Pipes, Streams, Programs
  <2>6. QED
    BY <2>1, <2>2, <2>3, <2>4, <2>5 DEF CallInv
<1>4. CASE StartReaders
  <2>1. TypeOK'
    BY <1>4 DEF StartReaders, programVars, TypeOK, CallInv,
       Pipes, Streams, Programs
  <2>2. Conserved'
    BY <1>4 DEF StartReaders, programVars, TypeOK, Conserved, CallInv,
       Pipes, Streams, Programs
  <2>3. StreamsEnded'
    BY <1>4 DEF StartReaders, programVars, TypeOK, StreamsEnded, Placed, CallInv,
       Pipes, Streams, Programs
  <2>4. Placed'
    BY <1>4 DEF StartReaders, programVars, TypeOK, Placed, CallInv,
       Pipes, Streams, Programs
  <2>5. Answered'
    BY <1>4 DEF StartReaders, programVars, TypeOK, Placed, Answered, CallInv,
       Pipes, Streams, Programs
  <2>6. QED
    BY <2>1, <2>2, <2>3, <2>4, <2>5 DEF CallInv
<1>5. CASE PackExited
  <2>1. TypeOK'
    BY <1>5 DEF PackExited, programVars, readerVars, TypeOK, CallInv,
       Pipes, Streams, Programs
  <2>2. Conserved'
    BY <1>5 DEF PackExited, programVars, readerVars, TypeOK, Conserved, CallInv,
       Pipes, Streams, Programs
  <2>3. StreamsEnded'
    BY <1>5 DEF PackExited, programVars, readerVars, TypeOK, StreamsEnded, Placed, CallInv,
       Pipes, Streams, Programs
  <2>4. Placed'
    BY <1>5 DEF PackExited, programVars, readerVars, TypeOK, Placed, CallInv,
       Pipes, Streams, Programs
  <2>5. Answered'
    BY <1>5 DEF PackExited, programVars, readerVars, TypeOK, Placed, Answered, CallInv,
       Pipes, Streams, Programs
  <2>6. QED
    BY <2>1, <2>2, <2>3, <2>4, <2>5 DEF CallInv
<1>6. CASE KillPack
  <2>1. TypeOK'
    BY <1>6 DEF KillPack, programVars, readerVars, TypeOK, CallInv,
       Pipes, Streams, Programs
  <2>2. Conserved'
    BY <1>6 DEF KillPack, programVars, readerVars, TypeOK, Conserved, CallInv,
       Pipes, Streams, Programs
  <2>3. StreamsEnded'
    BY <1>6 DEF KillPack, programVars, readerVars, TypeOK, StreamsEnded, Placed, CallInv,
       Pipes, Streams, Programs
  <2>4. Placed'
    BY <1>6 DEF KillPack, programVars, readerVars, TypeOK, Placed, CallInv,
       Pipes, Streams, Programs
  <2>5. Answered'
    BY <1>6 DEF KillPack, programVars, readerVars, TypeOK, Placed, Answered, CallInv,
       Pipes, Streams, Programs
  <2>6. QED
    BY <2>1, <2>2, <2>3, <2>4, <2>5 DEF CallInv
<1>7. CASE Killed
  <2>1. TypeOK'
    BY <1>7 DEF Killed, Return, programVars, readerVars, TypeOK, CallInv,
       Pipes, Streams, Programs
  <2>2. Conserved'
    BY <1>7 DEF Killed, Return, programVars, readerVars, TypeOK, Conserved, CallInv,
       Pipes, Streams, Programs
  <2>3. StreamsEnded'
    BY <1>7 DEF Killed, Return, programVars, readerVars, TypeOK, StreamsEnded, Placed, CallInv,
       Pipes, Streams, Programs
  <2>4. Placed'
    BY <1>7 DEF Killed, Return, programVars, readerVars, TypeOK, Placed, CallInv,
       Pipes, Streams, Programs
  <2>5. Answered'
    BY <1>7 DEF Killed, Return, programVars, readerVars, TypeOK, Placed, Answered, CallInv,
       Pipes, Streams, Programs
  <2>6. QED
    BY <2>1, <2>2, <2>3, <2>4, <2>5 DEF CallInv
<1>8. CASE Receive("stdout", "stderr")
  <2>1. TypeOK'
    BY <1>8 DEF Receive, programVars, readerVars, TypeOK, CallInv,
       Pipes, Streams, Programs
  <2>2. Conserved'
    BY <1>8 DEF Receive, programVars, readerVars, TypeOK, Conserved, CallInv,
       Pipes, Streams, Programs
  <2>3. StreamsEnded'
    BY <1>8 DEF Receive, programVars, readerVars, TypeOK, StreamsEnded, Placed, CallInv,
       Pipes, Streams, Programs
  <2>4. Placed'
    BY <1>8 DEF Receive, programVars, readerVars, TypeOK, Placed, CallInv,
       Pipes, Streams, Programs
  <2>5. Answered'
    BY <1>8 DEF Receive, programVars, readerVars, TypeOK, Placed, Answered, CallInv,
       Pipes, Streams, Programs
  <2>6. QED
    BY <2>1, <2>2, <2>3, <2>4, <2>5 DEF CallInv
<1>9. CASE Receive("stderr", "conclude")
  <2>1. TypeOK'
    BY <1>9 DEF Receive, programVars, readerVars, TypeOK, CallInv,
       Pipes, Streams, Programs
  <2>2. Conserved'
    BY <1>9 DEF Receive, programVars, readerVars, TypeOK, Conserved, CallInv,
       Pipes, Streams, Programs
  <2>3. StreamsEnded'
    BY <1>9 DEF Receive, programVars, readerVars, TypeOK, StreamsEnded, Placed, CallInv,
       Pipes, Streams, Programs
  <2>4. Placed'
    BY <1>9 DEF Receive, programVars, readerVars, TypeOK, Placed, CallInv,
       Pipes, Streams, Programs
  <2>5. Answered'
    BY <1>9 DEF Receive, programVars, readerVars, TypeOK, Placed, Answered, CallInv,
       Pipes, Streams, Programs
  <2>6. QED
    BY <2>1, <2>2, <2>3, <2>4, <2>5 DEF CallInv
<1>10. ASSUME NEW s \in Streams, OutputTimeout(s) PROVE CallInv'
  <2>1. TypeOK'
    BY <1>10 DEF OutputTimeout, Return, programVars, readerVars, TypeOK, CallInv,
       Pipes, Streams, Programs
  <2>2. Conserved'
    BY <1>10 DEF OutputTimeout, Return, programVars, readerVars, TypeOK, Conserved, CallInv,
       Pipes, Streams, Programs
  <2>3. StreamsEnded'
    BY <1>10 DEF OutputTimeout, Return, programVars, readerVars, TypeOK, StreamsEnded, Placed, CallInv,
       Pipes, Streams, Programs
  <2>4. Placed'
    BY <1>10 DEF OutputTimeout, Return, programVars, readerVars, TypeOK, Placed, CallInv,
       Pipes, Streams, Programs
  <2>5. Answered'
    BY <1>10 DEF OutputTimeout, Return, programVars, readerVars, TypeOK, Placed, Answered, CallInv,
       Pipes, Streams, Programs
  <2>6. QED
    BY <2>1, <2>2, <2>3, <2>4, <2>5 DEF CallInv
<1>11. CASE Conclude
  <2>1. TypeOK'
    BY <1>11 DEF Conclude, Accepted, Return, programVars, readerVars, TypeOK, CallInv,
       Pipes, Streams, Programs
  <2>2. Conserved'
    BY <1>11 DEF Conclude, Accepted, Return, programVars, readerVars, TypeOK, Conserved, CallInv,
       Pipes, Streams, Programs
  <2>3. StreamsEnded'
    BY <1>11 DEF Conclude, Accepted, Return, programVars, readerVars, TypeOK, StreamsEnded, Placed, CallInv,
       Pipes, Streams, Programs
  <2>4. Placed'
    BY <1>11 DEF Conclude, Accepted, Return, programVars, readerVars, TypeOK, Placed, CallInv,
       Pipes, Streams, Programs
  <2>5. Answered'
    BY <1>11 DEF Conclude, Accepted, Return, programVars, readerVars, TypeOK, Placed, Answered, CallInv,
       Pipes, Streams, Programs
  <2>6. QED
    BY <2>1, <2>2, <2>3, <2>4, <2>5 DEF CallInv
<1>12. CASE Tick
  <2>1. TypeOK'
    <3>1. remaining - 1 \in 0 .. Timeout
      BY <1>12, Counts DEF Tick, CallInv
    <3>2. QED
      BY <3>1, <1>12 DEF Tick, programVars, readerVars, TypeOK, CallInv
  <2>2. Conserved'
    BY <1>12 DEF Tick, Waiting, programVars, readerVars, TypeOK, Conserved, CallInv,
       Pipes, Streams, Programs
  <2>3. StreamsEnded'
    BY <1>12 DEF Tick, Waiting, programVars, readerVars, TypeOK, StreamsEnded, Placed, CallInv,
       Pipes, Streams, Programs
  <2>4. Placed'
    BY <1>12 DEF Tick, Waiting, programVars, readerVars, TypeOK, Placed, CallInv,
       Pipes, Streams, Programs
  <2>5. Answered'
    BY <1>12 DEF Tick, Waiting, programVars, readerVars, TypeOK, Placed, Answered, CallInv,
       Pipes, Streams, Programs
  <2>6. QED
    BY <2>1, <2>2, <2>3, <2>4, <2>5 DEF CallInv
<1>13. ASSUME NEW s \in Streams, Read(s) PROVE CallInv'
  <2>1. TypeOK'
    <3>1. pipe[s] \in 0 .. PipeCapacity /\ received[s] \in 0 .. MaxOutput
          /\ emitted[s] \in 0 .. MaxOutput
      BY DEF TypeOK, CallInv, Pipes
    <3>2. received[s] + pipe[s] = emitted[s] /\ pipe[s] > 0
      BY <1>13 DEF Read, Conserved, CallInv
    <3>3. pipe[s] - 1 \in 0 .. PipeCapacity /\ received[s] + 1 \in 0 .. MaxOutput
      BY <3>1, <3>2
    <3>4. QED
      BY <3>3, <1>13 DEF Read, TypeOK, CallInv
  <2>2. Conserved'
    <3> SUFFICES ASSUME NEW t \in Streams
                 PROVE  /\ reader'[t] = "none" => received'[t] = 0
                        /\ received'[t] + pipe'[t] = emitted'[t]
      BY DEF Conserved
    <3>1. received[t] \in Nat /\ pipe[t] \in Nat /\ emitted[t] \in Nat
      BY Counts DEF CallInv
    <3>2. received[t] + pipe[t] = emitted[t]
          /\ (reader[t] = "none" => received[t] = 0)
      BY DEF Conserved, CallInv
    <3>3. CASE t = s
      <4>1. received'[t] = received[t] + 1 /\ pipe'[t] = pipe[t] - 1 /\ emitted'[t] = emitted[t]
        BY <3>3, <1>13 DEF Read, TypeOK, CallInv, Pipes
      <4>2. reader'[t] = reader[t] /\ reader[t] # "none"
        BY <3>3, <1>13 DEF Read
      <4>3. QED
        BY <4>1, <4>2, <3>1, <3>2
    <3>4. CASE t # s
      <4>1. /\ pipe'[t] = pipe[t] /\ emitted'[t] = emitted[t]
            /\ received'[t] = received[t] /\ reader'[t] = reader[t]
        BY <3>4, <1>13 DEF Read, TypeOK, CallInv, Pipes
      <4>2. QED
        BY <4>1, <3>2
    <3>5. QED
      BY <3>3, <3>4
  <2>3. StreamsEnded'
    BY <1>13 DEF Read, TypeOK, StreamsEnded, Placed, CallInv,
       Pipes, Streams, Programs
  <2>4. Placed'
    BY <1>13 DEF Read, TypeOK, Placed, CallInv,
       Pipes, Streams, Programs
  <2>5. Answered'
    BY <1>13 DEF Read, TypeOK, Placed, Answered, CallInv,
       Pipes, Streams, Programs
  <2>6. QED
    BY <2>1, <2>2, <2>3, <2>4, <2>5 DEF CallInv
<1>14. ASSUME NEW s \in Streams, EndOfFile(s) PROVE CallInv'
  <2>1. TypeOK'
    BY <1>14 DEF EndOfFile, programVars, TypeOK, CallInv,
       Pipes, Streams, Programs
  <2>2. Conserved'
    BY <1>14 DEF EndOfFile, programVars, TypeOK, Conserved, CallInv,
       Pipes, Streams, Programs
  <2>3. StreamsEnded'
    BY <1>14 DEF EndOfFile, programVars, TypeOK, StreamsEnded, Placed, CallInv,
       Pipes, Streams, Programs
  <2>4. Placed'
    BY <1>14 DEF EndOfFile, programVars, TypeOK, Placed, CallInv,
       Pipes, Streams, Programs
  <2>5. Answered'
    BY <1>14 DEF EndOfFile, programVars, TypeOK, Placed, Answered, CallInv,
       Pipes, Streams, Programs
  <2>6. QED
    BY <2>1, <2>2, <2>3, <2>4, <2>5 DEF CallInv
<1>15. ASSUME NEW p \in Programs, ReadInput(p) PROVE CallInv'
  <2>1. TypeOK'
    <3>1. pipe["stdin"] - 1 \in 0 .. PipeCapacity
      BY <1>15, Counts DEF ReadInput, CallInv, Pipes
    <3>2. QED
      BY <3>1, <1>15 DEF ReadInput, readerVars, TypeOK, CallInv
  <2>2. Conserved'
    BY <1>15 DEF ReadInput, readerVars, TypeOK, Conserved, CallInv,
       Pipes, Streams, Programs
  <2>3. StreamsEnded'
    BY <1>15 DEF ReadInput, readerVars, TypeOK, StreamsEnded, Placed, CallInv,
       Pipes, Streams, Programs
  <2>4. Placed'
    BY <1>15 DEF ReadInput, readerVars, TypeOK, Placed, CallInv,
       Pipes, Streams, Programs
  <2>5. Answered'
    BY <1>15 DEF ReadInput, readerVars, TypeOK, Placed, Answered, CallInv,
       Pipes, Streams, Programs
  <2>6. QED
    BY <2>1, <2>2, <2>3, <2>4, <2>5 DEF CallInv
<1>16. ASSUME NEW p \in Programs, NEW s \in Streams, WriteOutput(p, s) PROVE CallInv'
  <2>1. TypeOK'
    <3>1. pipe[s] + 1 \in 0 .. PipeCapacity /\ emitted[s] + 1 \in 0 .. MaxOutput
      BY <1>16, Counts DEF WriteOutput, CallInv
    <3>2. QED
      BY <3>1, <1>16 DEF WriteOutput, readerVars, TypeOK, CallInv
  <2>2. Conserved'
    <3> SUFFICES ASSUME NEW t \in Streams
                 PROVE  /\ reader'[t] = "none" => received'[t] = 0
                        /\ received'[t] + pipe'[t] = emitted'[t]
      BY DEF Conserved
    <3>1. received[t] \in Nat /\ pipe[t] \in Nat /\ emitted[t] \in Nat
      BY Counts DEF CallInv
    <3>2. received[t] + pipe[t] = emitted[t]
          /\ (reader[t] = "none" => received[t] = 0)
      BY DEF Conserved, CallInv
    <3>3. CASE t = s
      <4>1. pipe'[t] = pipe[t] + 1 /\ emitted'[t] = emitted[t] + 1
        BY <3>3, <1>16 DEF WriteOutput, TypeOK, CallInv, Pipes
      <4>2. reader'[t] = reader[t] /\ received'[t] = received[t]
        BY <3>3, <1>16 DEF WriteOutput, readerVars
      <4>3. QED
        BY <4>1, <4>2, <3>1, <3>2
    <3>4. CASE t # s
      <4>1. /\ pipe'[t] = pipe[t] /\ emitted'[t] = emitted[t]
            /\ received'[t] = received[t] /\ reader'[t] = reader[t]
        BY <3>4, <1>16 DEF WriteOutput, readerVars, TypeOK, CallInv, Pipes
      <4>2. QED
        BY <4>1, <3>2
    <3>5. QED
      BY <3>3, <3>4
  <2>3. StreamsEnded'
    BY <1>16 DEF WriteOutput, readerVars, TypeOK, StreamsEnded, Placed, CallInv,
       Pipes, Streams, Programs
  <2>4. Placed'
    BY <1>16 DEF WriteOutput, readerVars, TypeOK, Placed, CallInv,
       Pipes, Streams, Programs
  <2>5. Answered'
    BY <1>16 DEF WriteOutput, readerVars, TypeOK, Placed, Answered, CallInv,
       Pipes, Streams, Programs
  <2>6. QED
    BY <2>1, <2>2, <2>3, <2>4, <2>5 DEF CallInv
<1>17. ASSUME NEW p \in Programs, NEW f \in Pipes, ClosePipe(p, f) PROVE CallInv'
  <2>1. TypeOK'
    BY <1>17 DEF ClosePipe, readerVars, TypeOK, CallInv,
       Pipes, Streams, Programs
  <2>2. Conserved'
    BY <1>17 DEF ClosePipe, readerVars, TypeOK, Conserved, CallInv,
       Pipes, Streams, Programs
  <2>3. StreamsEnded'
    BY <1>17 DEF ClosePipe, readerVars, TypeOK, StreamsEnded, Placed, CallInv,
       Pipes, Streams, Programs
  <2>4. Placed'
    BY <1>17 DEF ClosePipe, readerVars, TypeOK, Placed, CallInv,
       Pipes, Streams, Programs
  <2>5. Answered'
    BY <1>17 DEF ClosePipe, readerVars, TypeOK, Placed, Answered, CallInv,
       Pipes, Streams, Programs
  <2>6. QED
    BY <2>1, <2>2, <2>3, <2>4, <2>5 DEF CallInv
<1>18. CASE Fork
  <2>1. TypeOK'
    BY <1>18 DEF Fork, readerVars, TypeOK, CallInv,
       Pipes, Streams, Programs
  <2>2. Conserved'
    BY <1>18 DEF Fork, readerVars, TypeOK, Conserved, CallInv,
       Pipes, Streams, Programs
  <2>3. StreamsEnded'
    BY <1>18 DEF Fork, readerVars, TypeOK, StreamsEnded, Placed, CallInv,
       Pipes, Streams, Programs
  <2>4. Placed'
    BY <1>18 DEF Fork, readerVars, TypeOK, Placed, CallInv,
       Pipes, Streams, Programs
  <2>5. Answered'
    BY <1>18 DEF Fork, readerVars, TypeOK, Placed, Answered, CallInv,
       Pipes, Streams, Programs
  <2>6. QED
    BY <2>1, <2>2, <2>3, <2>4, <2>5 DEF CallInv
<1>19. ASSUME NEW code \in {"success", "failure"}, Exit(code) PROVE CallInv'
  <2>1. TypeOK'
    BY <1>19 DEF Exit, readerVars, TypeOK, CallInv,
       Pipes, Streams, Programs
  <2>2. Conserved'
    BY <1>19 DEF Exit, readerVars, TypeOK, Conserved, CallInv,
       Pipes, Streams, Programs
  <2>3. StreamsEnded'
    BY <1>19 DEF Exit, readerVars, TypeOK, StreamsEnded, Placed, CallInv,
       Pipes, Streams, Programs
  <2>4. Placed'
    BY <1>19 DEF Exit, readerVars, TypeOK, Placed, CallInv,
       Pipes, Streams, Programs
  <2>5. Answered'
    BY <1>19 DEF Exit, readerVars, TypeOK, Placed, Answered, CallInv,
       Pipes, Streams, Programs
  <2>6. QED
    BY <2>1, <2>2, <2>3, <2>4, <2>5 DEF CallInv
<1>20. CASE Die
  BY <1>20, <1>19 DEF Die
<1>21. CASE UNCHANGED callVars
  <2>1. TypeOK'
    BY <1>21 DEF callVars, TypeOK, CallInv,
       Pipes, Streams, Programs
  <2>2. Conserved'
    BY <1>21 DEF callVars, TypeOK, Conserved, CallInv,
       Pipes, Streams, Programs
  <2>3. StreamsEnded'
    BY <1>21 DEF callVars, TypeOK, StreamsEnded, Placed, CallInv,
       Pipes, Streams, Programs
  <2>4. Placed'
    BY <1>21 DEF callVars, TypeOK, Placed, CallInv,
       Pipes, Streams, Programs
  <2>5. Answered'
    BY <1>21 DEF callVars, TypeOK, Placed, Answered, CallInv,
       Pipes, Streams, Programs
  <2>6. QED
    BY <2>1, <2>2, <2>3, <2>4, <2>5 DEF CallInv
<1>22. QED
  BY <1>1, <1>2, <1>3, <1>4, <1>5, <1>6, <1>7, <1>8, <1>9, <1>10, <1>11, <1>12, <1>13, <1>14, <1>15, <1>16, <1>17, <1>18, <1>19, <1>20, <1>21
     DEF CallNext, Host, Reader, Program

LEMMA CallInvariant == CallSpec => []CallInv
  BY CallInvInit, CallInvNext, PTL DEF CallSpec

-----------------------------------------------------------------------------
\* Every reachable state of a call is well typed.
THEOREM CallTypeCorrect == CallSpec => []TypeOK
<1>1. CallInv => TypeOK
  BY DEF CallInv
<1>2. QED
  BY CallInvariant, <1>1, PTL

\* An accepted answer is everything that was and can be written, from a pack
\* that had the whole request and succeeded.
THEOREM ReadWhole == CallSpec => []AnswerWhole
<1>1. ASSUME CallInv, outcome = "accepted", NEW s \in Streams
      PROVE  received[s] = emitted[s] /\ pipe[s] = 0 /\ holders[s] = {}
  <2>1. pipe[s] = 0 /\ holders[s] = {}
    BY <1>1 DEF CallInv, Answered, StreamsEnded
  <2>2. received[s] \in Nat /\ received[s] + pipe[s] = emitted[s]
    BY <1>1, Counts DEF CallInv, Conserved
  <2>3. QED
    BY <2>1, <2>2
<1>2. CallInv => AnswerWhole
  BY <1>1 DEF CallInv, Answered, AnswerWhole
<1>3. QED
  BY CallInvariant, <1>2, PTL

\* No call returns before the pack it started was waited for.
THEOREM NoneLeft == CallSpec => []NoPackLeft
<1>1. CallInv => NoPackLeft
  BY DEF CallInv, Placed, NoPackLeft
<1>2. QED
  BY CallInvariant, <1>1, PTL

=============================================================================
