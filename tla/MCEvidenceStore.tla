---------------------------- MODULE MCEvidenceStore ----------------------------
(***************************************************************************)
(* Three collections with one project configuration and one pack: two read *)
(* a remote source, one runs a local program.                              *)
(***************************************************************************)
EXTENDS EvidenceStore

CONSTANTS monday, tuesday, wednesday, shared

MCCollections == {monday, tuesday, wednesday}
TwoCollections == {monday, tuesday}

MCConfigs == {<<"configuration", shared>>}
MCEvidence == {<<"pack", shared>>} \cup {"invocation", "acquisition", "output", "execution"} \X Collections
MCCycles == {"cycle"} \X Collections
MCCycleOf == [c \in Collections |-> <<"cycle", c>>]
Common == <<<<"configuration", shared>>, <<"pack", shared>>>>

MCPlan ==
    [c \in Collections |->
        IF c = tuesday
        THEN Common \o <<<<"invocation", c>>, <<"output", c>>, <<"execution", c>>>>
        ELSE Common \o <<<<"invocation", c>>, <<"acquisition", c>>>>]

=============================================================================
