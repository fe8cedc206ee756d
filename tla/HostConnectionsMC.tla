------------------------- MODULE HostConnectionsMC -------------------------
(* HostConnections with two connections for each of two hosts. *)
EXTENDS HostConnections, TLC

CONSTANTS box, run, b1, b2, r1, r2

MCHostOf == b1 :> box @@ b2 :> box @@ r1 :> run @@ r2 :> run

\* One host alone, with three connections.
CONSTANTS s1, s2, s3
OneHostOf == s1 :> run @@ s2 :> run @@ s3 :> run

Symmetry == Permutations({b1, b2}) \cup Permutations({r1, r2})
OneSymmetry == Permutations({s1, s2, s3})
=============================================================================
