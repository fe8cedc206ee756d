---------------------------- MODULE AdmissionMC ----------------------------
(***************************************************************************)
(* A pin each of two people, one bound to a name; or a ticket of each kind *)
(* of one person, of which the second takes the place of the first.  Two   *)
(* machines may present any of them, or type a code that is no pin.        *)
(***************************************************************************)
EXTENDS Admission, TLC

CONSTANTS p1, p2, j1, v1, m1, m2, alice, bob, box, desk

MCOwnerOf == (p1 :> alice) @@ (p2 :> bob) @@ (j1 :> bob) @@ (v1 :> bob)
MCBoundTo == (p1 :> AnyName) @@ (p2 :> box)
MCTTL     == [c \in Creds |-> 2]
MCMixes   == {{p1, p2}, {j1, v1}}
Machinery == Permutations(Machines)
=============================================================================
