--------------------------- MODULE ReplayCacheMC ---------------------------
(* Small instances of ReplayCache for TLC: the ids are model values. *)
EXTENDS ReplayCache, TLC

MCStamps == {1, 3}

\* The ids of mutating intents are interchangeable; the read is not one.
Starts == Permutations(MutatingIds)
=============================================================================
