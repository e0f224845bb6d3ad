----------------------------- MODULE MCReviewHistory -----------------------------
(***************************************************************************)
(* Two changes, an author and a reviewer, pages of one entry, and a feed   *)
(* that forgets what is older than an instant.                             *)
(***************************************************************************)
EXTENDS ReviewHistory, TLC

CONSTANTS fix, feature, alice, bob, repo, main, mutations, reviewsOf

MCChanges == {fix, feature}
MCActors == {alice, bob}
MCSubjects == {repo}
MCPropositions == {mutations, reviewsOf}
MCBranches == {main}
MCTime == 0..MaxTime
Whole == {[from |-> 0, until |-> MaxTime]}
Prefixes == {[from |-> 0, until |-> t] : t \in 1..MaxTime}
\* Deep into one change, or wide over both.
DeepOrWide == {[changes |-> 1, reviews |-> 2, captures |-> 3],
               [changes |-> 2, reviews |-> 1, captures |-> 2]}
NoReviews == {[changes |-> 2, reviews |-> 0, captures |-> 3]}
Symmetry == Permutations(MCChanges)

=============================================================================
