----------------------------- MODULE EvidenceLedger -----------------------------
(***************************************************************************)
(* What the evidence state promises of its corpus: a record that only      *)
(* grows.  While a collection is being added the record cannot be read; a  *)
(* collection that dies then leaves it unreadable, and no later one        *)
(* replaces what it cannot read.                                           *)
(***************************************************************************)
CONSTANTS Collections

VARIABLES
    entries,        \* the collections the record holds
    adding          \* the collections being added: at most one

ledger == <<entries, adding>>

Init == entries = {} /\ adding = {}

Open(c) ==
    /\ adding = {}
    /\ c \notin entries
    /\ adding' = {c}
    /\ UNCHANGED entries

Add(c) ==
    /\ adding = {c}
    /\ entries' = entries \cup {c}
    /\ adding' = {}

Next == \E c \in Collections : Open(c) \/ Add(c)

Spec == Init /\ [][Next]_ledger

=============================================================================
