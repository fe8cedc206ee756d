----------------------------- MODULE SingleUse -----------------------------
(***************************************************************************)
(* What the three doors of the coordinator promise of pins and tickets     *)
(* (enrollment.js, runner-tickets.js, docs/coordinator.md), whatever       *)
(* happens to memory, storage and the handlers between them:               *)
(*                                                                         *)
(*  - what admits a machine was good until then, and is good no more;      *)
(*  - what was withdrawn, has lapsed or was lost never admits anybody.     *)
(*                                                                         *)
(* A credential that is not good any more does not become so again: it     *)
(* only ever leaves `good`, by whatever made it.  Admission is shown to    *)
(* implement this module.                                                  *)
(***************************************************************************)
CONSTANTS Creds, Machines

VARIABLES
    unissued,   \* credentials nobody has been given yet
    good,       \* those that would still admit somebody
    redeeming,  \* <<credential, machine>>, at most one: taken, and not answered yet
    given,      \* <<credential, machine>>: answered
    withdrawn   \* cancelled, or of somebody who was removed

vars == <<unissued, good, redeeming, given, withdrawn>>

Init ==
    /\ unissued = Creds
    /\ good = {} /\ redeeming = {} /\ given = {} /\ withdrawn = {}

\* A new one is given out, and others may give way to it.
Issue(c) ==
    /\ c \in unissued /\ redeeming = {}
    /\ unissued' = unissued \ {c}
    /\ good' \subseteq good \cup {c}
    /\ UNCHANGED <<redeeming, given, withdrawn>>

\* One is taken from what is good before anybody is told, or with the answer.
Redeem(c, m) ==
    /\ c \in good /\ redeeming = {}
    /\ good' \subseteq good \ {c}
    /\ \/ redeeming' = {<<c, m>>} /\ given' = given
       \/ redeeming' = {} /\ given' = given \cup {<<c, m>>}
    /\ UNCHANGED <<unissued, withdrawn>>

Answer ==
    /\ redeeming # {} /\ redeeming' = {}
    /\ given' = given \cup redeeming
    /\ good' \subseteq good
    /\ UNCHANGED <<unissued, withdrawn>>

\* Of those that were given out.
Withdraw(S) ==
    /\ S \cap unissued = {} /\ redeeming = {}
    /\ withdrawn' = withdrawn \cup S
    /\ good' \subseteq good \ S
    /\ UNCHANGED <<unissued, redeeming, given>>

\* Time, a limit, a refusal or the end of the object.
Lapse ==
    /\ good' \subseteq good
    /\ redeeming' \in {redeeming, {}}
    /\ UNCHANGED <<unissued, given, withdrawn>>

Next ==
    \/ Lapse \/ Answer
    \/ \E c \in Creds : Issue(c) \/ \E m \in Machines : Redeem(c, m)
    \/ \E S \in SUBSET Creds : Withdraw(S)

Spec == Init /\ [][Next]_vars
=============================================================================
