------------------------------ MODULE EvidenceStore ------------------------------
(***************************************************************************)
(* The evidence state on disk while collections add to it: the order in    *)
(* which `collect_configured`, `commit_collections` and                    *)
(* `accumulate_with_executions` write files, what each write does when the *)
(* file is already there, and what is left when a collection dies.         *)
(*                                                                         *)
(* A file is named by its content or by a hash of it, so it has one proper *)
(* content: on disk it is absent, torn (created or truncated, not written  *)
(* to its end) or whole.  `fs::write` is a truncation and a write.  The    *)
(* files a collection writes before the corpus are a sequence: its project *)
(* configuration, then per pack invocation the executable and the          *)
(* invocation, then acquisitions, then outputs and executions.             *)
(* Collections may share the configuration and blobs.                      *)
(***************************************************************************)
EXTENDS Naturals, Sequences, FiniteSets

CONSTANTS
    Collections,    \* collect commands
    Configs,        \* project-configs/<digest>.yaml
    Evidence,       \* files of blobs/, pack-invocations/, acquisitions/, executions/
    Cycles,         \* collection-cycles/<id>.json
    Plan,           \* [Collections -> Seq]: the files of each, in order
    CycleOf,        \* [Collections -> Cycles]
    Overlapping,    \* TRUE: collections may run at the same time
    MaxCrashes      \* bound on the collections that die

Files == Configs \cup Evidence \cup Cycles
Contents(s) == {s[i] : i \in DOMAIN s}

ASSUME StoreAssumption ==
    /\ Plan \in [Collections -> Seq(Configs \cup Evidence)]
    /\ \A c \in Collections :
        /\ Len(Plan[c]) > 1
        /\ \A i \in DOMAIN Plan[c] : Plan[c][i] \in Configs <=> i = 1
    /\ CycleOf \in [Collections -> Cycles]
    /\ \A c, d \in Collections : CycleOf[c] = CycleOf[d] => c = d
    /\ Configs \cap Evidence = {} /\ Configs \cap Cycles = {}
    /\ Evidence \cap Cycles = {}
    /\ Overlapping \in BOOLEAN
    /\ MaxCrashes \in Nat

VARIABLES
    disk,           \* the state of every file but the corpus
    holds,          \* the collections whose observations the corpus holds
    writing,        \* the collections with corpus.json truncated
    pc, at,         \* where each collection is; `at` counts its files
    base,           \* the corpus a collection read before it merged
    committed       \* history: the collections whose corpus write ended

vars == <<disk, holds, writing, pc, at, base, committed>>

Running == {c \in Collections : pc[c] \notin 
                                 {"ready", "done", "refused", "invalid", "crashed"}}

\* corpus.json parses.
Readable == writing = {}

\* The file a collection is at: its plan, and its cycle after the corpus.
File(c) == IF at[c] <= Len(Plan[c]) THEN Plan[c][at[c]] ELSE CycleOf[c]

Init ==
    /\ disk = [f \in Files |-> "absent"]
    /\ holds = {} /\ writing = {} /\ committed = {}
    /\ pc = [c \in Collections |-> "ready"]
    /\ at = [c \in Collections |-> 1]
    /\ base = [c \in Collections |-> {}]

Goto(c, label) == pc' = [pc EXCEPT ![c] = label]
Stay == UNCHANGED <<holds, writing, base, committed>>

-----------------------------------------------------------------------------
\* The command reads the corpus it will add to, and its sources.
Start(c) ==
    /\ pc[c] = "ready"
    /\ Overlapping \/ Running = {}
    /\ Goto(c, IF Readable THEN "exists" ELSE "refused")
    /\ UNCHANGED <<disk, at>> /\ Stay

\* Slip: the evidence is checked once its invocation is stored.
AfterCheckingLate(c) ==
    IF at[c] = 3 THEN "preflight"
    ELSE IF at[c] = Len(Plan[c]) THEN "merge"
    ELSE IF at[c] > Len(Plan[c]) THEN "done"
    ELSE "exists"

\* Slip: the cycle is stored before the corpus.
AfterCycleFirst(c) ==
    IF at[c] = 1 THEN "preflight"
    ELSE IF at[c] = Len(Plan[c]) + 1 THEN "merge"
    ELSE IF at[c] > Len(Plan[c]) + 1 THEN "done"
    ELSE "exists"

\* Where a stored file leads: the evidence is checked after the configuration
\* is stored, the corpus is merged after the last file.
After(c) ==
    IF at[c] = 1 THEN "preflight"
    ELSE IF at[c] = Len(Plan[c]) THEN "merge"
    ELSE IF at[c] > Len(Plan[c]) THEN "done"
    ELSE "exists"

\* Slip: a file that is there is written again.
ExistsRewritten(c) ==
    /\ pc[c] = "exists"
    /\ Goto(c, "create")
    /\ UNCHANGED <<disk, at>> /\ Stay

\* The file is there: an equal one is used again, another is a collision.
Exists(c) ==
    /\ pc[c] = "exists"
    /\ \/ /\ disk[File(c)] = "whole"
          /\ Goto(c, After(c)) /\ at' = [at EXCEPT ![c] = @ + 1]
       \/ /\ disk[File(c)] = "torn"
          /\ Goto(c, "refused") /\ UNCHANGED at
       \/ /\ disk[File(c)] = "absent"
          /\ Goto(c, "create") /\ UNCHANGED at
    /\ UNCHANGED disk /\ Stay

Create(c) ==
    /\ pc[c] = "create"
    /\ disk' = [disk EXCEPT ![File(c)] = "torn"]
    /\ Goto(c, "fill")
    /\ UNCHANGED at /\ Stay

Fill(c) ==
    /\ pc[c] = "fill"
    /\ disk' = [disk EXCEPT ![File(c)] = "whole"]
    /\ Goto(c, After(c))
    /\ at' = [at EXCEPT ![c] = @ + 1]
    /\ Stay

-----------------------------------------------------------------------------
\* The provenance of a collection's observations.
Provenance(c) == Contents(Plan[c]) \cap Evidence

\* Every object of the evidence directories can be read.
EvidenceReadable == \A f \in Evidence : disk[f] # "torn"

\* verify_collection_links, verify_execution_links, verify_observation_links.
Linked(collections, files) ==
    \A c \in collections : Provenance(c) \subseteq files

Whole == {f \in Files : disk[f] = "whole"}

\* `preflight_collections`: the merged corpus with the new objects in memory.
\* The evidence itself may fail validation.
Preflight(c) ==
    /\ pc[c] = "preflight"
    /\ \/ /\ Readable /\ EvidenceReadable
          /\ Linked(holds \cup {c}, Whole \cup Provenance(c))
          /\ Goto(c, "exists")
       \/ Goto(c, "invalid")
    /\ UNCHANGED <<disk, at>> /\ Stay

\* `accumulate_with_executions`: read, merge and check again, from disk.
Merge(c) ==
    /\ pc[c] = "merge"
    /\ IF Readable /\ EvidenceReadable /\ Linked(holds \cup {c}, Whole)
       THEN Goto(c, "corpus") /\ base' = [base EXCEPT ![c] = holds]
       ELSE Goto(c, "refused") /\ UNCHANGED base
    /\ UNCHANGED <<disk, at, holds, writing, committed>>

TruncateCorpus(c) ==
    /\ pc[c] = "corpus"
    /\ writing' = writing \cup {c}
    /\ Goto(c, "corpusFill")
    /\ UNCHANGED <<disk, at, holds, base, committed>>

\* Slip: the increment alone is written.
WriteCorpusIncrement(c) ==
    /\ pc[c] = "corpusFill"
    /\ holds' = {c}
    /\ writing' = writing \ {c}
    /\ committed' = committed \cup {c}
    /\ Goto(c, "exists")
    /\ UNCHANGED <<disk, at, base>>

\* Slip: the corpus that was read is written, without the increment.
WriteCorpusBase(c) ==
    /\ pc[c] = "corpusFill"
    /\ holds' = base[c]
    /\ writing' = writing \ {c}
    /\ committed' = committed \cup {c}
    /\ Goto(c, "exists")
    /\ UNCHANGED <<disk, at, base>>

WriteCorpus(c) ==
    /\ pc[c] = "corpusFill"
    /\ holds' = base[c] \cup {c}
    /\ writing' = writing \ {c}
    /\ committed' = committed \cup {c}
    /\ Goto(c, "exists")
    /\ UNCHANGED <<disk, at, base>>

\* The process is killed, or a write fails: what it was writing stays torn.
Crash(c) ==
    /\ c \in Running
    /\ Cardinality({d \in Collections : pc[d] = "crashed"}) < MaxCrashes
    /\ Goto(c, "crashed")
    /\ UNCHANGED <<disk, at>> /\ Stay

Next ==
    \E c \in Collections :
        \/ Start(c)
        \/ Exists(c) \/ Create(c) \/ Fill(c)
        \/ Preflight(c) \/ Merge(c) \/ TruncateCorpus(c) \/ WriteCorpus(c)
        \/ Crash(c)

Spec == Init /\ [][Next]_vars

-----------------------------------------------------------------------------
Labels == {"ready", "exists", "create", "fill", "preflight", "merge", "corpus",
           "corpusFill", "done", "refused", "invalid", "crashed"}

TypeOK ==
    /\ disk \in [Files -> {"absent", "torn", "whole"}]
    /\ holds \subseteq Collections
    /\ writing \subseteq Collections
    /\ committed \subseteq Collections
    /\ pc \in [Collections -> Labels]
    /\ at \in [Collections -> Nat]
    /\ \A c \in Collections : at[c] \in 1..(Len(Plan[c]) + 2)
    /\ base \in [Collections -> SUBSET Collections]

\* Whatever the corpus names is on disk, complete: its executables,
\* invocations, acquisitions and executions were written to their end before
\* it, and nothing truncates them again, wherever a collection died.
\* (commit_collections, accumulate_with_executions)
CorpusClosed == Readable => Linked(holds, Whole)

\* A retained collection cycle speaks of a collection that the corpus holds
\* and of a configuration that is on disk: `verify` finds what it names.
\* (store_collection_cycle after commit_collections; verify_references)
CyclesClosed ==
    \A c \in Collections : disk[CycleOf[c]] = "whole" =>
        /\ Readable => c \in holds
        /\ disk[Plan[c][1]] = "whole"

\* A collection once added stays: the corpus is unreadable or holds every
\* collection whose write ended.  (accumulate_with_executions, merge; "the
\* accumulated, append-only evidence record", src/model.rs)
CommittedKept == Readable => committed \subseteq holds

\* A collection refused for its evidence leaves no file of its own: what it
\* stored, if anything, is the project configuration.  (preflight_collections
\* before store_pack_invocations)
RefusedSavesNothing ==
    \A c \in Collections : pc[c] = "invalid" =>
        \A f \in Provenance(c) :
            disk[f] = "absent" \/ \E d \in Collections \ {c} : f \in Provenance(d)

\* After collections that all came to their own end, `verify` passes: nothing
\* is torn, and no invocation, corpus or cycle names a missing object.
\* (verify_state)
Verified ==
    /\ Readable /\ EvidenceReadable /\ CorpusClosed /\ CyclesClosed
    /\ \A c \in Collections :
        (\E f \in Provenance(c) : disk[f] = "whole" /\
            \A d \in Collections \ {c} : f \notin Provenance(d))
        => Provenance(c) \subseteq Whole

OrderlyVerifies ==
    (\A c \in Collections : pc[c] \in {"ready", "done", "refused", "invalid"}) => Verified

\* The corpus is the ledger's record.
Ledger == INSTANCE EvidenceLedger WITH entries <- holds, adding <- writing
LedgerKept == Ledger!Spec

=============================================================================
