---------------------------- MODULE MCReleaseReviews ----------------------------
(***************************************************************************)
(* Two pull requests of an author, two reviewers, a policy of none or two  *)
(* approvals, and a release whose tag may move.                            *)
(***************************************************************************)
EXTENDS ReleaseReviews, TLC

CONSTANTS fix, feature, alice, bob, carol

MCPulls == {fix, feature}
MCActors == {alice, bob, carol}
Symmetry == Permutations(MCPulls) \cup Permutations({bob, carol})

\* One pull request, with exports of its reviews before and after its events or
\* of its policy; both pull requests, under a release published again; and the
\* records of both revisions.
DeepWideOrAgain ==
    {[pulls |-> 1, events |-> 2, publications |-> 1,
      membership |-> 1, reviews |-> 2, policy |-> 1],
     [pulls |-> 1, events |-> 1, publications |-> 1,
      membership |-> 1, reviews |-> 1, policy |-> 2],
     [pulls |-> 2, events |-> 1, publications |-> 2,
      membership |-> 1, reviews |-> 1, policy |-> 1],
     [pulls |-> 2, events |-> 0, publications |-> 2,
      membership |-> 1, reviews |-> 2, policy |-> 1]}

=============================================================================
