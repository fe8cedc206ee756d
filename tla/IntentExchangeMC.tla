-------------------------- MODULE IntentExchangeMC -------------------------
(* Small instances of IntentExchange for TLC. *)
EXTENDS IntentExchange, TLC

Symmetry == Permutations(Hosts)
=============================================================================
