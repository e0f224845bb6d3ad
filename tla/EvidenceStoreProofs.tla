--------------------------- MODULE EvidenceStoreProofs ---------------------------
(***************************************************************************)
(* Collections that run one after the other, for every number of           *)
(* collections, every plan and every number of crashes.                    *)
(*                                                                         *)
(* The argument: one collection runs at a time (Serial), so the corpus it  *)
(* read is still the corpus when it writes (Writer), and a file it is      *)
(* about to create is still absent (Fresh).  Whole files therefore stay    *)
(* whole, and what the corpus names stays on disk (Named).                 *)
(***************************************************************************)
EXTENDS EvidenceStore, TLAPS

Serial == \A c, d \in Running : c = d

\* Where a collection's place among its files stands to the corpus.
Place ==
    \A c \in Collections :
        /\ pc[c] \in {"ready", "preflight"} => at[c] <= Len(Plan[c])
        /\ pc[c] \in {"merge", "corpus", "corpusFill"} => at[c] = Len(Plan[c]) + 1
        /\ pc[c] \in {"exists", "create", "fill"} =>
               /\ at[c] <= Len(Plan[c]) + 1
               /\ at[c] > Len(Plan[c]) => c \in holds
        /\ c \in holds =>
               /\ at[c] > Len(Plan[c])
               /\ pc[c] \notin {"merge", "corpus", "corpusFill"}

Fresh == \A c \in Collections : pc[c] = "create" => disk[File(c)] = "absent"

\* The corpus between a collection's merge and the end of its write.
Writer ==
    \A c \in Running :
        /\ pc[c] # "corpusFill" => writing = {}
        /\ pc[c] = "corpusFill" => writing = {c}
        /\ pc[c] \in {"corpus", "corpusFill"} =>
               base[c] = holds /\ Provenance(c) \subseteq Whole

Recorded == committed = holds

\* What the corpus holds is on disk, also while corpus.json is torn.
Named == Linked(holds, Whole)

\* A cycle is written after the corpus, a configuration before everything.
Cycled ==
    \A c \in Collections :
        /\ disk[CycleOf[c]] # "absent" => c \in holds
        /\ at[c] > 1 => disk[Plan[c][1]] = "whole"

\* Until its evidence passed, a collection has written none of it.
Unsaved ==
    \A c \in Collections : at[c] = 1 \/ pc[c] \in {"preflight", "invalid"} =>
        \A f \in Provenance(c) :
            disk[f] = "absent" \/ \E d \in Collections \ {c} : f \in Provenance(d)

Inv ==
    /\ TypeOK /\ Serial /\ Place /\ Fresh /\ Writer
    /\ Recorded /\ Named /\ Cycled /\ Unsaved

-----------------------------------------------------------------------------
LEMMA PlanFacts ==
    ASSUME NEW c \in Collections
    PROVE  /\ Len(Plan[c]) \in Nat /\ Len(Plan[c]) > 1
           /\ DOMAIN Plan[c] = 1..Len(Plan[c])
           /\ \A i \in 1..Len(Plan[c]) :
                  /\ Plan[c][i] \in Configs \cup Evidence
                  /\ Plan[c][i] \in Configs <=> i = 1
                  /\ i > 1 => Plan[c][i] \in Provenance(c)
           /\ Provenance(c) \subseteq Evidence
           /\ CycleOf[c] \in Cycles
<1>1. Plan[c] \in Seq(Configs \cup Evidence)
  BY StoreAssumption
<1>2. /\ Len(Plan[c]) \in Nat /\ Len(Plan[c]) > 1
      /\ DOMAIN Plan[c] = 1..Len(Plan[c])
      /\ \A i \in 1..Len(Plan[c]) : Plan[c][i] \in Configs \cup Evidence
  BY <1>1, StoreAssumption
<1>3. \A i \in 1..Len(Plan[c]) : Plan[c][i] \in Configs <=> i = 1
  BY <1>2, StoreAssumption
<1>4. \A i \in 1..Len(Plan[c]) : i > 1 => Plan[c][i] \in Provenance(c)
  BY <1>2, <1>3 DEF Provenance, Contents
<1> QED
  BY <1>2, <1>3, <1>4, StoreAssumption DEF Provenance

\* What the file is that a collection is at.
LEMMA FileFacts ==
    ASSUME TypeOK, NEW c \in Collections
    PROVE  /\ at[c] \in Nat /\ at[c] >= 1
           /\ File(c) \in Files
           /\ at[c] = 1 => File(c) = Plan[c][1] /\ File(c) \in Configs
           /\ at[c] > 1 /\ at[c] <= Len(Plan[c]) =>
                  File(c) \in Provenance(c) /\ File(c) \in Evidence
           /\ at[c] > Len(Plan[c]) => File(c) = CycleOf[c] /\ File(c) \in Cycles
<1>1. at[c] \in Nat /\ at[c] >= 1
  BY DEF TypeOK
<1>2. at[c] <= Len(Plan[c]) => File(c) = Plan[c][at[c]] /\ at[c] \in 1..Len(Plan[c])
  BY <1>1, PlanFacts DEF File
<1>3. at[c] > Len(Plan[c]) => File(c) = CycleOf[c]
  BY <1>1, PlanFacts DEF File
<1> QED
  BY <1>1, <1>2, <1>3, PlanFacts DEF Files

LEMMA InitInv == Init => Inv
<1> SUFFICES ASSUME Init PROVE Inv
  OBVIOUS
<1>1. TypeOK
  BY PlanFacts DEF Init, TypeOK, Labels
<1>2. Serial /\ Fresh /\ Writer
  BY DEF Init, Serial, Fresh, Writer, Running
<1>3. Place
  BY PlanFacts DEF Init, Place
<1>4. Recorded /\ Named
  BY DEF Init, Recorded, Named, Linked
<1>5. Cycled
  BY PlanFacts DEF Init, Cycled, Files
<1>6. Unsaved
  BY PlanFacts DEF Init, Unsaved, Files
<1> QED
  BY <1>1, <1>2, <1>3, <1>4, <1>5, <1>6 DEF Inv

-----------------------------------------------------------------------------
\* No other collection runs beside one that does.
LEMMA Alone ==
    ASSUME Inv, NEW c \in Running
    PROVE  \A d \in Collections : d # c => d \notin Running
BY DEF Inv, Serial

LEMMA StartStep ==
    ASSUME ~Overlapping, Inv, NEW c \in Collections, Start(c)
    PROVE  Inv'
<1> USE DEF Inv
<1>1. /\ Running = {} /\ pc[c] = "ready"
      /\ pc' = [pc EXCEPT ![c] = IF Readable THEN "exists" ELSE "refused"]
      /\ UNCHANGED <<disk, at, holds, writing, base, committed>>
  BY DEF Start, Goto, Stay
<1>2. TypeOK'
  BY <1>1 DEF TypeOK, Labels
<1>3. \A d \in Collections : d # c => pc'[d] = pc[d]
  BY <1>1 DEF TypeOK
<1>4. pc'[c] \in {"exists", "refused"} /\ (pc'[c] = "exists" => writing = {})
  BY <1>1 DEF TypeOK, Readable
<1>5. \A d \in Running' : d = c
  BY <1>1, <1>3 DEF Running
<1>6. Serial'
  BY <1>5 DEF Serial
<1>7. Place'
  <2> SUFFICES ASSUME NEW d \in Collections PROVE Place!(d)'
    BY DEF Place
  <2> QED
    BY <1>1, <1>3, <1>4, PlanFacts, FileFacts DEF Place
<1>8. Fresh'
  BY <1>1, <1>3, <1>4 DEF Fresh, File
<1>9. Writer'
  BY <1>1, <1>4, <1>5 DEF Writer, Running
<1>10. Recorded' /\ Named' /\ Cycled'
  BY <1>1 DEF Recorded, Named, Linked, Whole, Cycled
<1>11. Unsaved'
  BY <1>1, <1>3, <1>4 DEF Unsaved
<1> QED
  BY <1>2, <1>6, <1>7, <1>8, <1>9, <1>10, <1>11

LEMMA ExistsStep ==
    ASSUME Inv, NEW c \in Collections, Exists(c)
    PROVE  Inv'
<1> USE DEF Inv
<1>1. /\ pc[c] = "exists" /\ c \in Running
      /\ UNCHANGED <<disk, holds, writing, base, committed>>
  BY DEF Exists, Stay, Running
<1>2. /\ \A d \in Collections : d # c => pc'[d] = pc[d] /\ at'[d] = at[d]
      /\ \/ /\ disk[File(c)] = "whole"
            /\ pc'[c] = After(c) /\ at'[c] = at[c] + 1
         \/ pc'[c] = "refused" /\ at'[c] = at[c]
         \/ /\ pc'[c] = "create" /\ at'[c] = at[c]
            /\ disk[File(c)] = "absent"
  <2> pc \in [Collections -> Labels] /\ at \in [Collections -> Nat]
    BY DEF TypeOK
  <2>1. CASE disk[File(c)] = "whole" /\ Goto(c, After(c)) /\ at' = [at EXCEPT ![c] = @ + 1]
    BY <2>1 DEF Goto
  <2>2. CASE Goto(c, "refused") /\ UNCHANGED at
    BY <2>2 DEF Goto
  <2>3. CASE disk[File(c)] = "absent" /\ Goto(c, "create") /\ UNCHANGED at
    BY <2>3 DEF Goto
  <2> QED
    BY <2>1, <2>2, <2>3 DEF Exists
<1>3. After(c) \in Labels
  BY DEF After, Labels
<1>4. at[c] <= Len(Plan[c]) + 1 /\ (at[c] > Len(Plan[c]) => c \in holds)
  BY <1>1 DEF Place
<1>5. TypeOK'
  <2>1. pc' \in [Collections -> Labels] /\ at' \in [Collections -> Nat]
    <3>1. "create" \in Labels /\ "refused" \in Labels
      BY DEF Labels
    <3>2. \E label \in Labels : Goto(c, label)
      BY <1>3, <3>1 DEF Exists
    <3>3. UNCHANGED at \/ at' = [at EXCEPT ![c] = @ + 1]
      BY DEF Exists
    <3> QED
      BY <3>2, <3>3 DEF Goto, TypeOK
  <2>2. \A d \in Collections : at'[d] \in 1..(Len(Plan[d]) + 2)
    BY <1>2, <1>4, PlanFacts, FileFacts DEF TypeOK
  <2> QED
    BY <1>1, <2>1, <2>2 DEF TypeOK
<1>6. \A d \in Running' : d = c
  BY <1>1, <1>2, Alone DEF Running
<1>7. Serial'
  BY <1>6 DEF Serial
<1>8. Place'
  <2> SUFFICES ASSUME NEW d \in Collections PROVE Place!(d)'
    BY DEF Place
  <2>1. CASE d # c
    BY <1>1, <1>2, <2>1 DEF Place
  <2>2. CASE d = c
    BY <1>1, <1>2, <1>4, <2>2, PlanFacts, FileFacts DEF Place, After
  <2> QED
    BY <2>1, <2>2
<1>9. Fresh'
  <2> SUFFICES ASSUME NEW d \in Collections, pc'[d] = "create"
               PROVE  disk'[File(d)'] = "absent"
    BY DEF Fresh
  <2>1. CASE d # c
    BY <1>1, <1>2, <2>1 DEF Fresh, File
  <2>2. CASE d = c
    <3>1. pc'[c] # After(c)
      BY <2>2 DEF After
    <3>2. File(c)' = File(c) /\ disk[File(c)] = "absent"
      BY <1>2, <2>2, <3>1 DEF File
    <3> QED
      BY <1>1, <2>2, <3>2
  <2> QED
    BY <2>1, <2>2
<1>10. Writer'
  <2>1. writing = {}
    BY <1>1 DEF Writer
  <2>2. pc'[c] \notin {"corpus", "corpusFill"}
    BY <1>2 DEF After
  <2> QED
    BY <1>1, <1>6, <2>1, <2>2 DEF Writer, Running
<1>11. Recorded' /\ Named'
  BY <1>1 DEF Recorded, Named, Linked, Whole
<1>12. Cycled'
  <2> SUFFICES ASSUME NEW d \in Collections PROVE Cycled!(d)'
    BY DEF Cycled
  <2>1. CASE d # c
    BY <1>1, <1>2, <2>1 DEF Cycled
  <2>2. CASE d = c
    BY <1>1, <1>2, <2>2, FileFacts DEF Cycled
  <2> QED
    BY <2>1, <2>2
<1>13. Unsaved'
  <2> SUFFICES ASSUME NEW d \in Collections,
                      at'[d] = 1 \/ pc'[d] \in {"preflight", "invalid"}
               PROVE  at[d] = 1 \/ pc[d] \in {"preflight", "invalid"}
    BY <1>1 DEF Unsaved
  <2>1. CASE d # c
    BY <1>2, <2>1
  <2>2. CASE d = c
    BY <1>2, <2>2, FileFacts DEF After
  <2> QED
    BY <2>1, <2>2
<1> QED
  BY <1>5, <1>7, <1>8, <1>9, <1>10, <1>11, <1>12, <1>13

LEMMA CreateStep ==
    ASSUME Inv, NEW c \in Collections, Create(c)
    PROVE  Inv'
<1> USE DEF Inv
<1>1. /\ pc[c] = "create" /\ c \in Running /\ writing = {}
      /\ UNCHANGED <<at, holds, writing, base, committed>>
  BY DEF Create, Stay, Running, Writer
<1>2. /\ \A d \in Collections : d # c => pc'[d] = pc[d] /\ d \notin Running
      /\ pc'[c] = "fill"
  BY <1>1, Alone DEF Create, Goto, TypeOK
<1>3. /\ disk[File(c)] = "absent"
      /\ disk' = [disk EXCEPT ![File(c)] = "torn"]
      /\ File(c) \in Files
  BY <1>1, FileFacts DEF Create, Fresh
<1>4. Whole' = Whole
  BY <1>3 DEF Whole, TypeOK
<1>5. TypeOK'
  BY <1>1, <1>3 DEF Create, Goto, TypeOK, Labels
<1>6. Serial' /\ Fresh' /\ Writer'
  BY <1>1, <1>2 DEF Serial, Fresh, Writer, Running
<1>7. Place'
  <2> SUFFICES ASSUME NEW d \in Collections PROVE Place!(d)'
    BY DEF Place
  <2> QED
    BY <1>1, <1>2 DEF Place
<1>8. Recorded' /\ Named'
  BY <1>1, <1>4 DEF Recorded, Named, Linked
<1>9. Cycled'
  <2> SUFFICES ASSUME NEW d \in Collections PROVE Cycled!(d)'
    BY DEF Cycled
  <2>1. at'[d] > 1 => disk'[Plan[d][1]] = "whole"
    BY <1>1, <1>3, PlanFacts DEF Cycled, Files, TypeOK
  <2>2. CASE CycleOf[d] # File(c)
    BY <1>1, <1>3, <2>1, <2>2, PlanFacts DEF Cycled, Files, TypeOK
  <2>3. CASE CycleOf[d] = File(c)
    <3>1. at[c] > Len(Plan[c]) /\ d = c
      BY <2>3, FileFacts, PlanFacts, StoreAssumption
    <3> QED
      BY <1>1, <2>1, <3>1 DEF Place
  <2> QED
    BY <2>2, <2>3
<1>10. Unsaved'
  <2> SUFFICES ASSUME NEW d \in Collections,
                      at[d] = 1 \/ pc[d] \in {"preflight", "invalid"},
                      NEW f \in Provenance(d)
               PROVE  \/ disk'[f] = "absent"
                      \/ \E e \in Collections \ {d} : f \in Provenance(e)
    BY <1>1, <1>2 DEF Unsaved
  <2>1. CASE f # File(c)
    BY <1>3, <2>1, PlanFacts DEF Unsaved, Files, TypeOK
  <2>2. CASE f = File(c)
    <3>1. f \in Evidence /\ f \in Provenance(c)
      BY <2>2, FileFacts, PlanFacts, StoreAssumption
    <3>2. d # c
      BY <1>1, <2>2, <3>1, FileFacts, StoreAssumption
    <3> QED
      BY <3>1, <3>2
  <2> QED
    BY <2>1, <2>2
<1> QED
  BY <1>5, <1>6, <1>7, <1>8, <1>9, <1>10

LEMMA FillStep ==
    ASSUME Inv, NEW c \in Collections, Fill(c)
    PROVE  Inv'
<1> USE DEF Inv
<1>1. /\ pc[c] = "fill" /\ c \in Running /\ writing = {}
      /\ UNCHANGED <<holds, writing, base, committed>>
  BY DEF Fill, Stay, Running, Writer
<1>2. /\ \A d \in Collections : d # c =>
             pc'[d] = pc[d] /\ at'[d] = at[d] /\ d \notin Running
      /\ pc'[c] = After(c) /\ at'[c] = at[c] + 1
  BY <1>1, Alone DEF Fill, Goto, TypeOK
<1>3. /\ disk' = [disk EXCEPT ![File(c)] = "whole"]
      /\ File(c) \in Files
  BY FileFacts DEF Fill
<1>4. Whole \subseteq Whole'
  BY <1>3 DEF Whole, TypeOK
<1>5. at[c] <= Len(Plan[c]) + 1 /\ (at[c] > Len(Plan[c]) => c \in holds)
  BY <1>1 DEF Place
<1>6. TypeOK'
  <2>1. After(c) \in Labels
    BY DEF After, Labels
  <2>2. /\ disk' \in [Files -> {"absent", "torn", "whole"}]
        /\ pc' \in [Collections -> Labels] /\ at' \in [Collections -> Nat]
    BY <1>3, <2>1 DEF Fill, Goto, TypeOK
  <2>3. \A d \in Collections : at'[d] \in 1..(Len(Plan[d]) + 2)
    BY <1>2, <1>5, PlanFacts, FileFacts DEF TypeOK
  <2> QED
    BY <1>1, <2>2, <2>3 DEF TypeOK
<1>7. \A d \in Running' : d = c
  BY <1>2 DEF Running
<1>8. Serial'
  BY <1>7 DEF Serial
<1>9. Place'
  <2> SUFFICES ASSUME NEW d \in Collections PROVE Place!(d)'
    BY DEF Place
  <2>1. CASE d # c
    BY <1>1, <1>2, <2>1 DEF Place
  <2>2. CASE d = c
    BY <1>1, <1>2, <1>5, <2>2, PlanFacts, FileFacts DEF Place, After
  <2> QED
    BY <2>1, <2>2
<1>10. Fresh'
  BY <1>2 DEF Fresh, After, Running
<1>11. Writer'
  <2>1. pc'[c] \notin {"corpus", "corpusFill"}
    BY <1>2 DEF After
  <2> QED
    BY <1>1, <1>7, <2>1 DEF Writer, Running
<1>12. Recorded' /\ Named'
  BY <1>1, <1>4 DEF Recorded, Named, Linked
<1>13. Cycled'
  <2> SUFFICES ASSUME NEW d \in Collections PROVE Cycled!(d)'
    BY DEF Cycled
  <2>1. at'[d] > 1 => disk'[Plan[d][1]] = "whole"
    <3>1. CASE Plan[d][1] = File(c)
      BY <1>3, <3>1 DEF TypeOK
    <3>2. CASE Plan[d][1] # File(c)
      <4>1. disk'[Plan[d][1]] = disk[Plan[d][1]]
        BY <1>3, <3>2 DEF TypeOK
      <4>2. d = c => at[d] # 1
        BY <3>2, FileFacts
      <4> QED
        BY <1>2, <4>1, <4>2, FileFacts DEF Cycled
    <3> QED
      BY <3>1, <3>2
  <2>2. CASE CycleOf[d] # File(c)
    BY <1>1, <1>3, <2>1, <2>2, PlanFacts DEF Cycled, Files, TypeOK
  <2>3. CASE CycleOf[d] = File(c)
    <3>1. at[c] > Len(Plan[c]) /\ d = c
      BY <2>3, FileFacts, PlanFacts, StoreAssumption
    <3> QED
      BY <1>1, <1>5, <2>1, <3>1
  <2> QED
    BY <2>2, <2>3
<1>14. Unsaved'
  <2> SUFFICES ASSUME NEW d \in Collections,
                      at'[d] = 1 \/ pc'[d] \in {"preflight", "invalid"},
                      NEW f \in Provenance(d)
               PROVE  \/ disk'[f] = "absent"
                      \/ \E e \in Collections \ {d} : f \in Provenance(e)
    BY DEF Unsaved
  <2>1. at[d] = 1 \/ pc[d] \in {"preflight", "invalid"}
    <3>1. CASE d # c
      BY <1>2, <3>1
    <3>2. CASE d = c
      BY <1>2, <3>2, FileFacts DEF After
    <3> QED
      BY <3>1, <3>2
  <2>2. CASE f # File(c)
    BY <1>3, <2>1, <2>2, PlanFacts DEF Unsaved, Files, TypeOK
  <2>3. CASE f = File(c)
    <3>1. f \in Evidence /\ f \in Provenance(c)
      BY <2>3, FileFacts, PlanFacts, StoreAssumption
    <3>2. d # c
      BY <1>1, <2>1, <2>3, <3>1, FileFacts, StoreAssumption
    <3> QED
      BY <3>1, <3>2
  <2> QED
    BY <2>2, <2>3
<1> QED
  BY <1>6, <1>8, <1>9, <1>10, <1>11, <1>12, <1>13, <1>14

\* A collection that only moves, from a place where it runs, to a place where
\* it neither creates a file nor writes the corpus.
LEMMA MoveStep ==
    ASSUME Inv, NEW c \in Running, NEW label \in Labels, Goto(c, label),
           UNCHANGED <<disk, at, holds, writing, base, committed>>,
           \/ label \in {"refused", "crashed"}
           \/ /\ pc[c] = "preflight" /\ label \in {"exists", "invalid"}
    PROVE  Inv'
<1> USE DEF Inv
<1>1. c \in Collections
  BY DEF Running
<1>2. /\ \A d \in Collections : d # c => pc'[d] = pc[d] /\ d \notin Running
      /\ pc'[c] = label
  BY <1>1, Alone DEF Goto, TypeOK
<1>3. TypeOK'
  BY <1>1 DEF TypeOK, Goto
<1>4. Serial' /\ Fresh'
  BY <1>1, <1>2 DEF Serial, Fresh, Running
<1>5. Writer'
  BY <1>1, <1>2 DEF Writer, Running
<1>6. Place'
  <2> SUFFICES ASSUME NEW d \in Collections PROVE Place!(d)'
    BY DEF Place
  <2>1. CASE d # c
    BY <1>2, <2>1 DEF Place
  <2>2. CASE d = c
    BY <1>2, <2>2, PlanFacts, FileFacts DEF Place
  <2> QED
    BY <2>1, <2>2
<1>7. Recorded' /\ Named' /\ Cycled'
  BY DEF Recorded, Named, Linked, Whole, Cycled
<1>8. Unsaved'
  BY <1>1, <1>2 DEF Unsaved
<1> QED
  BY <1>3, <1>4, <1>5, <1>6, <1>7, <1>8

LEMMA PreflightStep ==
    ASSUME Inv, NEW c \in Collections, Preflight(c)
    PROVE  Inv'
<1>1. /\ c \in Running /\ pc[c] = "preflight"
      /\ UNCHANGED <<disk, at, holds, writing, base, committed>>
  BY DEF Preflight, Stay, Running
<1>2. Goto(c, "exists") \/ Goto(c, "invalid")
  BY DEF Preflight
<1>3. "exists" \in Labels /\ "invalid" \in Labels
  BY DEF Labels
<1> QED
  BY <1>1, <1>2, <1>3, MoveStep

LEMMA CrashStep ==
    ASSUME Inv, NEW c \in Collections, Crash(c)
    PROVE  Inv'
<1>1. /\ c \in Running /\ Goto(c, "crashed")
      /\ UNCHANGED <<disk, at, holds, writing, base, committed>>
  BY DEF Crash, Stay
<1>2. "crashed" \in Labels
  BY DEF Labels
<1> QED
  BY <1>1, <1>2, MoveStep

\* The corpus as the collection found it: linked with the new one, it is
\* written next.
LEMMA MergeStep ==
    ASSUME Inv, NEW c \in Collections, Merge(c)
    PROVE  Inv'
<1> USE DEF Inv
<1>1. /\ pc[c] = "merge" /\ c \in Running
      /\ UNCHANGED <<disk, at, holds, writing, committed>>
  BY DEF Merge, Running
<1>2. CASE Goto(c, "refused") /\ UNCHANGED base
  <2>1. "refused" \in Labels
    BY DEF Labels
  <2> QED
    BY <1>1, <1>2, <2>1, MoveStep
<1>3. CASE /\ Linked(holds \cup {c}, Whole)
           /\ Goto(c, "corpus") /\ base' = [base EXCEPT ![c] = holds]
  <2>1. /\ \A d \in Collections : d # c => pc'[d] = pc[d] /\ d \notin Running
        /\ pc'[c] = "corpus" /\ base'[c] = holds
    BY <1>1, <1>3, Alone DEF Goto, TypeOK
  <2>2. TypeOK'
    BY <1>1, <1>3 DEF Goto, TypeOK, Labels
  <2>3. Serial' /\ Fresh'
    BY <1>1, <2>1 DEF Serial, Fresh, Running, File
  <2>4. Writer'
    <3>1. writing = {} /\ Provenance(c) \subseteq Whole
      BY <1>1, <1>3 DEF Writer, Linked
    <3>2. \A d \in Running' : d = c
      BY <2>1 DEF Running
    <3> QED
      BY <1>1, <2>1, <3>1, <3>2 DEF Writer, Whole
  <2>5. Place'
    <3> SUFFICES ASSUME NEW d \in Collections PROVE Place!(d)'
      BY DEF Place
    <3>1. CASE d # c
      BY <1>1, <2>1, <3>1 DEF Place
    <3>2. CASE d = c
      BY <1>1, <2>1, <3>2, PlanFacts DEF Place
    <3> QED
      BY <3>1, <3>2
  <2>6. Recorded' /\ Named' /\ Cycled'
    BY <1>1 DEF Recorded, Named, Linked, Whole, Cycled
  <2>7. Unsaved'
    BY <1>1, <2>1 DEF Unsaved
  <2> QED
    BY <2>2, <2>3, <2>4, <2>5, <2>6, <2>7
<1> QED
  BY <1>2, <1>3 DEF Merge

LEMMA TruncateCorpusStep ==
    ASSUME Inv, NEW c \in Collections, TruncateCorpus(c)
    PROVE  Inv'
<1> USE DEF Inv
<1>1. /\ pc[c] = "corpus" /\ c \in Running
      /\ writing = {} /\ writing' = {c}
      /\ UNCHANGED <<disk, at, holds, base, committed>>
  BY DEF TruncateCorpus, Running, Writer
<1>2. /\ \A d \in Collections : d # c => pc'[d] = pc[d] /\ d \notin Running
      /\ pc'[c] = "corpusFill"
  BY <1>1, Alone DEF TruncateCorpus, Goto, TypeOK
<1>3. TypeOK'
  BY <1>1 DEF TruncateCorpus, Goto, TypeOK, Labels
<1>4. Serial' /\ Fresh'
  BY <1>1, <1>2 DEF Serial, Fresh, Running, File
<1>5. Writer'
  <2>1. \A d \in Running' : d = c
    BY <1>2 DEF Running
  <2> QED
    BY <1>1, <1>2, <2>1 DEF Writer, Whole
<1>6. Place'
  <2> SUFFICES ASSUME NEW d \in Collections PROVE Place!(d)'
    BY DEF Place
  <2> QED
    BY <1>1, <1>2 DEF Place
<1>7. Recorded' /\ Named' /\ Cycled'
  BY <1>1 DEF Recorded, Named, Linked, Whole, Cycled
<1>8. Unsaved'
  BY <1>1, <1>2 DEF Unsaved
<1> QED
  BY <1>3, <1>4, <1>5, <1>6, <1>7, <1>8

LEMMA WriteCorpusStep ==
    ASSUME Inv, NEW c \in Collections, WriteCorpus(c)
    PROVE  Inv'
<1> USE DEF Inv
<1>1. /\ pc[c] = "corpusFill" /\ c \in Running
      /\ writing = {c} /\ base[c] = holds
      /\ Provenance(c) \subseteq Whole
  BY DEF WriteCorpus, Running, Writer
<1>2. /\ holds' = holds \cup {c} /\ writing' = {}
      /\ committed' = committed \cup {c}
      /\ UNCHANGED <<disk, at, base>>
  BY <1>1 DEF WriteCorpus
<1>3. /\ \A d \in Collections : d # c => pc'[d] = pc[d] /\ d \notin Running
      /\ pc'[c] = "exists"
  BY <1>1, Alone DEF WriteCorpus, Goto, TypeOK
<1>4. TypeOK'
  BY <1>2 DEF WriteCorpus, Goto, TypeOK, Labels
<1>5. \A d \in Running' : d = c
  BY <1>3 DEF Running
<1>6. Serial' /\ Fresh' /\ Writer'
  BY <1>2, <1>3, <1>5 DEF Serial, Fresh, Writer, Running, File
<1>7. Place'
  <2> SUFFICES ASSUME NEW d \in Collections PROVE Place!(d)'
    BY DEF Place
  <2>1. CASE d # c
    BY <1>2, <1>3, <2>1 DEF Place
  <2>2. CASE d = c
    BY <1>1, <1>2, <1>3, <2>2, PlanFacts DEF Place
  <2> QED
    BY <2>1, <2>2
<1>8. Recorded' /\ Named' /\ Cycled'
  BY <1>1, <1>2 DEF Recorded, Named, Linked, Whole, Cycled
<1>9. Unsaved'
  BY <1>1, <1>2, <1>3 DEF Unsaved
<1> QED
  BY <1>4, <1>6, <1>7, <1>8, <1>9

LEMMA StutterStep == Inv /\ UNCHANGED vars => Inv'
BY DEF Inv, vars, TypeOK, Serial, Running, Place, Fresh, File, Writer, Whole,
       Recorded, Named, Linked, Cycled, Unsaved

-----------------------------------------------------------------------------
\* Collections that run one after the other keep the invariant.
THEOREM Invariant == ASSUME ~Overlapping PROVE Spec => []Inv
<1>1. Inv /\ [Next]_vars => Inv'
  BY StartStep, ExistsStep, CreateStep, FillStep, PreflightStep, MergeStep,
     TruncateCorpusStep, WriteCorpusStep, CrashStep, StutterStep DEF Next
<1> QED
  BY <1>1, InitInv, PTL DEF Spec

\* Every state of the store is well typed.
THEOREM TypeCorrect == ASSUME ~Overlapping PROVE Spec => []TypeOK
<1>1. Inv => TypeOK
  BY DEF Inv
<1> QED
  BY <1>1, Invariant, PTL

\* Whatever the corpus names is on disk, complete, wherever a collection died.
\* (commit_collections, accumulate_with_executions)
THEOREM Closed == ASSUME ~Overlapping PROVE Spec => []CorpusClosed
<1>1. Inv => CorpusClosed
  BY DEF Inv, Named, CorpusClosed
<1> QED
  BY <1>1, Invariant, PTL

\* A retained cycle speaks of a collection the corpus holds and of a stored
\* configuration.  (store_collection_cycle)
THEOREM CyclesKept == ASSUME ~Overlapping PROVE Spec => []CyclesClosed
<1>1. Inv => CyclesClosed
  <2> SUFFICES ASSUME Inv, NEW c \in Collections, disk[CycleOf[c]] = "whole"
               PROVE  c \in holds /\ disk[Plan[c][1]] = "whole"
    BY DEF CyclesClosed
  <2>1. c \in holds /\ at[c] > Len(Plan[c])
    BY DEF Inv, Cycled, Place
  <2> QED
    BY <2>1, PlanFacts, FileFacts DEF Inv, Cycled
<1> QED
  BY <1>1, Invariant, PTL

\* A collection once added to the corpus stays in it.
\* (accumulate_with_executions, merge)
THEOREM Kept == ASSUME ~Overlapping PROVE Spec => []CommittedKept
<1>1. Inv => CommittedKept
  BY DEF Inv, Recorded, CommittedKept
<1> QED
  BY <1>1, Invariant, PTL

\* A collection refused for its evidence leaves none of it behind.
\* (preflight_collections before store_pack_invocations)
THEOREM Refused == ASSUME ~Overlapping PROVE Spec => []RefusedSavesNothing
<1>1. Inv => RefusedSavesNothing
  BY DEF Inv, Unsaved, RefusedSavesNothing
<1> QED
  BY <1>1, Invariant, PTL

-----------------------------------------------------------------------------
(***************************************************************************)
(* Until a collection dies, nothing is torn but what is being written, and *)
(* what is stored is stored in order.                                      *)
(***************************************************************************)
NoCrash == \A c \in Collections : pc[c] # "crashed"

Stored ==
    \A c \in Collections :
        /\ \A i \in 1..Len(Plan[c]) : i < at[c] => disk[Plan[c][i]] = "whole"
        /\ pc[c] = "done" => at[c] > Len(Plan[c])
        /\ pc[c] = "ready" => at[c] = 1

Uncut ==
    NoCrash =>
        /\ \A f \in Files : disk[f] = "torn" =>
                \E c \in Collections : pc[c] = "fill" /\ File(c) = f
        /\ \A c \in writing : pc[c] = "corpusFill"
        /\ \A c \in Collections : pc[c] # "refused"

\* While a collection runs that is not filling a file, no file is torn.
LEMMA NothingTorn ==
    ASSUME Inv, Uncut, NoCrash,
           Running = {} \/ \E c \in Running : pc[c] # "fill"
    PROVE  \A f \in Files : disk[f] # "torn"
<1>1. ASSUME NEW d \in Collections, pc[d] = "fill" PROVE FALSE
  <2>1. d \in Running
    BY <1>1 DEF Running
  <2>2. QED
    BY <1>1, <2>1 DEF Inv, Serial
<1>2. QED
  BY <1>1 DEF Uncut

\* A collection that has stored all its files has stored its provenance.
LEMMA ProvenanceStored ==
    ASSUME Stored, NEW c \in Collections, at[c] > Len(Plan[c]), TypeOK
    PROVE  Provenance(c) \subseteq Whole
<1>1. SUFFICES ASSUME NEW f \in Provenance(c) PROVE f \in Whole
  OBVIOUS
<1>2. PICK i \in DOMAIN Plan[c] : f = Plan[c][i]
  BY DEF Provenance, Contents
<1>3. i \in 1..Len(Plan[c]) /\ i < at[c] /\ f \in Files
  BY <1>1, <1>2, PlanFacts, FileFacts DEF Files
<1>4. QED
  BY <1>2, <1>3 DEF Stored, Whole

LEMMA CrashLasts ==
    ASSUME Inv, Next, NoCrash'
    PROVE  NoCrash
<1>1. \A c \in Collections : pc[c] = "crashed" => pc'[c] = "crashed"
  BY DEF Inv, TypeOK, Next, Start, Exists, Create, Fill, Preflight, Merge, TruncateCorpus,
         WriteCorpus, Crash, Goto, Running
<1>2. QED
  BY <1>1 DEF NoCrash

\* Whole files stay whole.
LEMMA StoredStays ==
    ASSUME Inv, Stored, Next
    PROVE  Stored'
<1>1. PICK c \in Collections :
        \/ Start(c) \/ Preflight(c) \/ Merge(c) \/ TruncateCorpus(c) \/ WriteCorpus(c)
        \/ Crash(c) \/ Exists(c) \/ Create(c) \/ Fill(c)
  BY DEF Next
<1>2. TypeOK /\ File(c) \in Files /\ at[c] \in Nat
  BY FileFacts DEF Inv
<1>3. \A d \in Collections : \A i \in 1..Len(Plan[d]) : Plan[d][i] \in Files
  BY PlanFacts DEF Files
<1>4. ASSUME UNCHANGED <<disk, at>>, \A d \in Collections : pc'[d] \in {"done", "ready"} => pc'[d] = pc[d]
      PROVE  Stored'
  BY <1>4 DEF Stored
<1>5. CASE Start(c) \/ Preflight(c) \/ Merge(c) \/ TruncateCorpus(c) \/ WriteCorpus(c) \/ Crash(c)
  BY <1>2, <1>4, <1>5 DEF TypeOK, Start, Preflight, Merge, TruncateCorpus, WriteCorpus, Crash,
                          Goto
<1>6. ASSUME disk[File(c)] = "whole" \/ Fill(c), pc' = [pc EXCEPT ![c] = After(c)],
             at' = [at EXCEPT ![c] = @ + 1],
             \A f \in Files : disk[f] = "whole" => disk'[f] = "whole",
             disk'[File(c)] = "whole"
      PROVE  Stored'
  <2>1. /\ at'[c] = at[c] + 1 /\ pc'[c] = After(c)
        /\ \A d \in Collections : d # c => at'[d] = at[d] /\ pc'[d] = pc[d]
    BY <1>2, <1>6 DEF TypeOK
  <2>2. \A d \in Collections : d # c =>
            /\ \A i \in 1..Len(Plan[d]) : i < at'[d] => disk'[Plan[d][i]] = "whole"
            /\ pc'[d] = "done" => at'[d] > Len(Plan[d])
            /\ pc'[d] = "ready" => at'[d] = 1
    BY <1>3, <1>6, <2>1 DEF Stored
  <2>3. ASSUME NEW i \in 1..Len(Plan[c]), i < at'[c] PROVE disk'[Plan[c][i]] = "whole"
    <3>1. i < at[c] \/ i = at[c]
      BY <1>2, <2>1, <2>3
    <3>2. CASE i < at[c]
      BY <1>3, <1>6, <3>2 DEF Stored
    <3>3. CASE i = at[c]
      <4>1. File(c) = Plan[c][i]
        BY <3>3, PlanFacts DEF File
      <4>2. QED
        BY <1>6, <4>1
    <3>4. QED
      BY <3>1, <3>2, <3>3
  <2>4. pc'[c] # "ready" /\ (pc'[c] = "done" => at'[c] > Len(Plan[c]))
    BY <1>2, <2>1, PlanFacts DEF After
  <2>5. QED
    BY <2>2, <2>3, <2>4 DEF Stored
<1>7. CASE Exists(c)
  <2>1. CASE disk[File(c)] = "whole"
    BY <1>2, <1>6, <1>7, <2>1 DEF Exists, Goto, TypeOK
  <2>2. CASE disk[File(c)] # "whole"
    BY <1>2, <1>4, <1>7, <2>2 DEF Exists, Goto, TypeOK
  <2>3. QED
    BY <2>1, <2>2
<1>8. CASE Create(c)
  <2>1. disk[File(c)] = "absent" /\ disk' = [disk EXCEPT ![File(c)] = "torn"]
    BY <1>8 DEF Create, Inv, Fresh
  <2>2. \A f \in Files : disk[f] = "whole" => disk'[f] = "whole"
    BY <1>2, <2>1 DEF TypeOK
  <2>3. at' = at /\ \A d \in Collections : pc'[d] \in {"done", "ready"} => pc'[d] = pc[d]
    BY <1>2, <1>8 DEF Create, Goto, TypeOK
  <2>4. QED
    BY <1>3, <2>2, <2>3 DEF Stored
<1>9. CASE Fill(c)
  <2>1. /\ disk' = [disk EXCEPT ![File(c)] = "whole"]
        /\ pc' = [pc EXCEPT ![c] = After(c)] /\ at' = [at EXCEPT ![c] = @ + 1]
    BY <1>9 DEF Fill, Goto
  <2>2. /\ \A f \in Files : disk[f] = "whole" => disk'[f] = "whole"
        /\ disk'[File(c)] = "whole"
    BY <1>2, <2>1 DEF TypeOK
  <2>3. QED
    BY <1>6, <1>9, <2>1, <2>2
<1>10. QED
  BY <1>1, <1>5, <1>7, <1>8, <1>9

LEMMA UncutStays ==
    ASSUME ~Overlapping, Inv, Inv', Stored, Uncut, Next
    PROVE  Uncut'
<1> SUFFICES ASSUME NoCrash, NoCrash'
             PROVE  /\ \A f \in Files : disk'[f] = "torn" =>
                            \E d \in Collections : pc'[d] = "fill" /\ File(d)' = f
                    /\ \A d \in writing' : pc'[d] = "corpusFill"
                    /\ \A d \in Collections : pc'[d] # "refused"
  BY CrashLasts DEF Uncut
<1>1. /\ TypeOK /\ TypeOK' /\ Writer
      /\ \A d \in writing : pc[d] = "corpusFill"
      /\ \A d \in Collections : pc[d] # "refused"
  BY DEF Inv, Uncut
<1>2. PICK c \in Collections :
        \/ Start(c) \/ Exists(c) \/ Create(c) \/ Fill(c)
        \/ Preflight(c) \/ Merge(c) \/ TruncateCorpus(c) \/ WriteCorpus(c)
        \/ Crash(c)
  BY DEF Next
<1>3. File(c) \in Files
  BY <1>1, FileFacts
<1>4. CASE Crash(c)
  BY <1>1, <1>4 DEF Crash, Goto, TypeOK, NoCrash
<1>5. CASE Start(c)
  <2>1. Running = {} /\ UNCHANGED <<disk, writing>>
    BY <1>5 DEF Start, Stay
  <2>2. \A f \in Files : disk[f] # "torn"
    BY <2>1, NothingTorn
  <2>3. writing = {}
    <3>1. \A d \in writing : d \in Collections /\ pc[d] = "corpusFill"
      BY <1>1 DEF TypeOK
    <3>2. \A d \in writing : d \in Running
      BY <3>1 DEF Running
    <3>3. QED
      BY <2>1, <3>2
  <2>4. pc' = [pc EXCEPT ![c] = "exists"]
    BY <1>5, <2>3 DEF Start, Goto, Readable
  <2>5. QED
    BY <1>1, <2>1, <2>2, <2>3, <2>4 DEF TypeOK
<1>6. CASE Exists(c)
  <2>1. c \in Running /\ pc[c] = "exists" /\ UNCHANGED <<disk, writing>> /\ writing = {}
    BY <1>1, <1>6 DEF Exists, Stay, Running, Writer
  <2>2. \A f \in Files : disk[f] # "torn"
    BY <2>1, NothingTorn
  <2>3. \E label : label # "refused" /\ pc' = [pc EXCEPT ![c] = label]
    BY <1>3, <1>6, <2>2 DEF Exists, Goto, After
  <2>4. QED
    BY <1>1, <2>1, <2>2, <2>3 DEF TypeOK
<1>7. CASE Create(c)
  <2>1. /\ c \in Running /\ pc[c] = "create" /\ writing' = {} /\ at' = at
        /\ disk' = [disk EXCEPT ![File(c)] = "torn"]
        /\ pc' = [pc EXCEPT ![c] = "fill"]
    BY <1>1, <1>7 DEF Create, Stay, Running, Writer, Goto
  <2>2. \A f \in Files : disk[f] # "torn"
    BY <2>1, NothingTorn
  <2>3. \A f \in Files : disk'[f] = "torn" => f = File(c)
    BY <1>1, <2>1, <2>2 DEF TypeOK
  <2>4. File(c)' = File(c) /\ pc'[c] = "fill"
    BY <1>1, <2>1 DEF File, TypeOK
  <2>5. QED
    BY <1>1, <2>1, <2>3, <2>4 DEF TypeOK
<1>8. CASE Fill(c)
  <2>1. /\ c \in Running /\ pc[c] = "fill" /\ writing' = {}
        /\ disk' = [disk EXCEPT ![File(c)] = "whole"]
        /\ pc' = [pc EXCEPT ![c] = After(c)]
    BY <1>1, <1>8 DEF Fill, Stay, Running, Writer, Goto
  <2>2. \A d \in Collections : pc[d] = "fill" => d = c
    BY <2>1 DEF Inv, Serial, Running
  <2>3. \A f \in Files : disk[f] = "torn" => f = File(c)
    BY <2>2 DEF Uncut
  <2>4. \A f \in Files : disk'[f] # "torn"
    BY <1>1, <2>1, <2>3 DEF TypeOK
  <2>5. After(c) # "refused"
    BY DEF After
  <2>6. QED
    BY <1>1, <2>1, <2>4, <2>5 DEF TypeOK
<1>9. CASE Preflight(c)
  <2>1. c \in Running /\ pc[c] = "preflight" /\ UNCHANGED <<disk, writing>> /\ writing = {}
    BY <1>1, <1>9 DEF Preflight, Stay, Running, Writer
  <2>2. \A f \in Files : disk[f] # "torn"
    BY <2>1, NothingTorn
  <2>3. \E label : label # "refused" /\ pc' = [pc EXCEPT ![c] = label]
    BY <1>9 DEF Preflight, Goto
  <2>4. QED
    BY <1>1, <2>1, <2>2, <2>3 DEF TypeOK
<1>10. CASE Merge(c)
  <2>1. c \in Running /\ pc[c] = "merge" /\ UNCHANGED <<disk, writing>> /\ writing = {}
    BY <1>1, <1>10 DEF Merge, Running, Writer
  <2>2. \A f \in Files : disk[f] # "torn"
    BY <2>1, NothingTorn
  <2>3. at[c] > Len(Plan[c])
    BY <2>1, PlanFacts DEF Inv, Place
  <2>4. Provenance(c) \subseteq Whole
    BY <1>1, <2>3, ProvenanceStored
  <2>5. Readable /\ EvidenceReadable /\ Linked(holds \cup {c}, Whole)
    BY <2>1, <2>2, <2>4 DEF Readable, EvidenceReadable, Files, Inv, Named, Linked
  <2>6. pc' = [pc EXCEPT ![c] = "corpus"]
    BY <1>10, <2>5 DEF Merge, Goto
  <2>7. QED
    BY <1>1, <2>1, <2>2, <2>6 DEF TypeOK
<1>11. CASE TruncateCorpus(c)
  <2>1. /\ c \in Running /\ pc[c] = "corpus" /\ UNCHANGED disk /\ writing' = {c}
        /\ pc' = [pc EXCEPT ![c] = "corpusFill"]
    BY <1>1, <1>11 DEF TruncateCorpus, Running, Writer, Goto
  <2>2. \A f \in Files : disk[f] # "torn"
    BY <2>1, NothingTorn
  <2>3. QED
    BY <1>1, <2>1, <2>2 DEF TypeOK
<1>12. CASE WriteCorpus(c)
  <2>1. /\ c \in Running /\ pc[c] = "corpusFill" /\ UNCHANGED disk /\ writing' = {}
        /\ pc' = [pc EXCEPT ![c] = "exists"]
    BY <1>1, <1>12 DEF WriteCorpus, Running, Writer, Goto
  <2>2. \A f \in Files : disk[f] # "torn"
    BY <2>1, NothingTorn
  <2>3. QED
    BY <1>1, <2>1, <2>2 DEF TypeOK
<1>13. QED
  BY <1>2, <1>4, <1>5, <1>6, <1>7, <1>8, <1>9, <1>10, <1>11, <1>12

\* After collections that all came to their own end, `verify` passes. (verify_state)
THEOREM Orderly == ASSUME ~Overlapping PROVE Spec => []OrderlyVerifies
<1>1. Init => Stored /\ Uncut
  BY PlanFacts DEF Init, Stored, Uncut
<1>2. Inv /\ Inv' /\ Stored /\ Uncut /\ [Next]_vars => Stored' /\ Uncut'
  <2>1. CASE UNCHANGED vars
    BY <2>1 DEF vars, Stored, Uncut, NoCrash, File
  <2>2. QED
    BY <2>1, StoredStays, UncutStays
<1>3. Inv /\ Stored /\ Uncut => OrderlyVerifies
  <2> SUFFICES ASSUME Inv, Stored, Uncut,
                      \A c \in Collections : pc[c] \in {"ready", "done", "refused", "invalid"}
               PROVE  Verified
    BY DEF OrderlyVerifies
  <2>1. NoCrash /\ Running = {}
    BY DEF NoCrash, Running
  <2>2. \A f \in Files : disk[f] # "torn"
    BY <2>1, NothingTorn
  <2>3. \A c \in Collections : pc[c] \in {"ready", "done", "invalid"}
    BY <2>1 DEF Uncut
  <2>4. Readable
    <3>1. \A c \in writing : c \in Collections /\ pc[c] = "corpusFill"
      BY <2>1 DEF Uncut, Inv, TypeOK
    <3>2. QED
      BY <2>3, <3>1 DEF Readable
  <2>5. EvidenceReadable
    BY <2>2 DEF EvidenceReadable, Files
  <2>6. CorpusClosed /\ CyclesClosed
    <3>1. ASSUME NEW c \in Collections, disk[CycleOf[c]] = "whole"
          PROVE  c \in holds /\ disk[Plan[c][1]] = "whole"
      <4>1. c \in holds /\ at[c] > Len(Plan[c])
        BY <3>1 DEF Inv, Cycled, Place
      <4>2. QED
        BY <4>1, PlanFacts, FileFacts DEF Inv, Cycled
    <3>2. QED
      BY <3>1 DEF Inv, Named, CorpusClosed, CyclesClosed
  <2>7. ASSUME NEW c \in Collections, NEW f \in Provenance(c), disk[f] = "whole",
               \A d \in Collections \ {c} : f \notin Provenance(d)
        PROVE  Provenance(c) \subseteq Whole
    <3>1. pc[c] # "invalid" /\ at[c] # 1
      BY <2>7 DEF Inv, Unsaved
    <3>2. CASE pc[c] = "done"
      BY <3>2, ProvenanceStored DEF Inv, Stored
    <3>3. CASE pc[c] = "ready"
      BY <3>1, <3>3 DEF Stored
    <3>4. QED
      BY <2>3, <3>1, <3>2, <3>3
  <2>8. QED
    BY <2>4, <2>5, <2>6, <2>7 DEF Verified
<1>4. QED
  BY <1>1, <1>2, <1>3, Invariant, PTL DEF Spec

-----------------------------------------------------------------------------
\* A collection that opens the corpus is not in it yet and opens it alone.
LEMMA OpenRefined ==
    ASSUME Inv, NEW c \in Collections, TruncateCorpus(c)
    PROVE  Ledger!Open(c)
<1>1. pc[c] = "corpus" /\ c \in Running /\ writing' = writing \cup {c} /\ UNCHANGED holds
  BY DEF TruncateCorpus, Running
<1>2. writing = {} /\ c \notin holds
  BY <1>1 DEF Inv, Writer, Place
<1> QED
  BY <1>1, <1>2 DEF Ledger!Open

LEMMA AddRefined ==
    ASSUME Inv, NEW c \in Collections, WriteCorpus(c)
    PROVE  Ledger!Add(c)
<1>1. /\ pc[c] = "corpusFill" /\ c \in Running
      /\ holds' = base[c] \cup {c} /\ writing' = writing \ {c}
  BY DEF WriteCorpus, Running
<1>2. writing = {c} /\ base[c] = holds
  BY <1>1 DEF Inv, Writer
<1> QED
  BY <1>1, <1>2 DEF Ledger!Add

\* The store implements the append-only ledger: every step of a collection,
\* its death included, is a step of the ledger or leaves it alone.
THEOREM LedgerImplemented == ASSUME ~Overlapping PROVE Spec => LedgerKept
<1>1. Init => Ledger!Init
  BY DEF Init, Ledger!Init
<1>2. Inv /\ [Next]_vars => [Ledger!Next]_Ledger!ledger
  <2> SUFFICES ASSUME Inv, [Next]_vars
               PROVE  Ledger!Next \/ UNCHANGED <<holds, writing>>
    BY DEF Ledger!ledger
  <2>1. CASE UNCHANGED vars
    BY <2>1 DEF vars
  <2>2. ASSUME NEW c \in Collections, TruncateCorpus(c)
        PROVE  Ledger!Next
    BY <2>2, OpenRefined DEF Ledger!Next
  <2>3. ASSUME NEW c \in Collections, WriteCorpus(c)
        PROVE  Ledger!Next
    BY <2>3, AddRefined DEF Ledger!Next
  <2>4. ASSUME NEW c \in Collections,
               \/ Start(c) \/ Exists(c) \/ Create(c) \/ Fill(c)
               \/ Preflight(c) \/ Merge(c) \/ Crash(c)
        PROVE  UNCHANGED <<holds, writing>>
    BY <2>4 DEF Start, Exists, Create, Fill, Preflight, Merge, Crash, Stay
  <2> QED
    BY <2>1, <2>2, <2>3, <2>4 DEF Next
<1> QED
  BY <1>1, <1>2, Invariant, PTL DEF Spec, LedgerKept, Ledger!Spec

=============================================================================
