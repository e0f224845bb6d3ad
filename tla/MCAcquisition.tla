------------------------------ MODULE MCAcquisition ------------------------------
(***************************************************************************)
(* Two heads, two pull requests, one of which was merged under another     *)
(* commit than its head.                                                   *)
(***************************************************************************)
EXTENDS Acquisition

Two == {1, 2}
MCRevisionsOf == 1 :> {1} @@ 2 :> {1, 2}
MCMaxLinks ==
    [c \in Contracts |-> IF c = "build_validation_history" THEN 1 ELSE 2]

=============================================================================
