----------------------------- MODULE MCPublication -----------------------------
(***************************************************************************)
(* Three of the five files: a first, one in the middle and a last one.     *)
(* Evaluations answer one claim of core, one that no review selects, and   *)
(* one claim of a pack about two periods.                                  *)
(***************************************************************************)
EXTENDS Publication

MCParts == <<"assertions.json", "dossier.json", "dossier.md">>
MCCore == {"every_main_change_reviewed"}
MCPack == {"current_revision_checks"}

Claim(kind, from, n, outcome, missing) ==
    [kind |-> kind, subject |-> "main", from |-> from, until |-> n,
     outcome |-> outcome, missing |-> missing]

MCEvaluations(n) ==
    {<<Claim("configured_review_requirement", n, n, o[1], o[2]),
       Claim("every_main_change_reviewed", 0, n, o[1], o[2]),
       Claim("current_revision_checks", 0, n, o[3], {}),
       Claim("current_revision_checks", 1 + (n % 2), n, o[1], o[2])>> :
        o \in {<<"Supported", {}, "Contradicted">>,
               <<"InsufficientEvidence", {"coverage"}, "Contradicted">>,
               <<"Contradicted", {"coverage"}, "Supported">>}}

=============================================================================
