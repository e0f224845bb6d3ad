-------------------------------- MODULE MCRelease --------------------------------
(***************************************************************************)
(* Three tags on four commits: a trunk and a branch that is merged.  The   *)
(* SBOM of one release has two builds.  At first the releases are in line. *)
(***************************************************************************)
EXTENDS Release, TLC

CONSTANTS v1, v2, v3, c1, c2, c3, c4, a1, a2, b2, a3, d1, d2, t1, t2

MCAncestorsOf ==
    c1 :> {c1} @@ c2 :> {c1, c2} @@ c3 :> {c1, c3} @@ c4 :> {c1, c2, c3, c4}
MCIdentifies == a1 :> v1 @@ a2 :> v2 @@ b2 :> v2 @@ a3 :> v3
MCFirstSboms == v1 :> a1 @@ v2 :> a2 @@ v3 :> a3
MCFirstTags == v1 :> c1 @@ v2 :> c2 @@ v3 :> c4

\* What is printed and which build of the tool prints it.
Renamed == {p @@ q : p \in Permutations({d1, d2}), q \in Permutations({t1, t2})}

=============================================================================
