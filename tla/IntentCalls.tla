---------------------------- MODULE IntentCalls ----------------------------
(***************************************************************************)
(* What the coordinator promises whoever asks it to send an intent,        *)
(* whatever happens to sockets, timers and retries in between              *)
(* (CoordinatorCore#send and docs/coordinator.md):                         *)
(*                                                                         *)
(*  - a call is settled at most once, and a settled call stays as it is;   *)
(*  - an answer comes only from the host the call was sent to, and only    *)
(*    after that host has run that id.                                     *)
(*                                                                         *)
(* IntentExchange is shown to implement this module.                       *)
(***************************************************************************)
EXTENDS Naturals, Sequences

CONSTANTS Hosts, Ids

VARIABLES
    calls,      \* every call made, in order: [id, host, state]
    ran         \* which hosts have run which ids

vars == <<calls, ran>>

Call == [id : Ids, host : Hosts, state : {"waiting", "answered", "failed"}]

Init == calls = <<>> /\ ran = {}

\* A call is made; it waits for its host, or is turned away at once.
Open(id, h, state) ==
    /\ state \in {"waiting", "failed"}
    /\ calls' = Append(calls, [id |-> id, host |-> h, state |-> state])
    /\ UNCHANGED ran

\* A host does what an id asks, or does it again.
Run(h, id) ==
    /\ ran' = ran \cup {<<h, id>>}
    /\ UNCHANGED calls

Answer(c) ==
    /\ calls[c].state = "waiting"
    /\ <<calls[c].host, calls[c].id>> \in ran
    /\ calls' = [calls EXCEPT ![c].state = "answered"]
    /\ UNCHANGED ran

\* Some waiting calls fail together: one timer, or a coordinator going away.
Fail(C) ==
    /\ \A c \in C : calls[c].state = "waiting"
    /\ calls' = [c \in DOMAIN calls |->
          IF c \in C THEN [calls[c] EXCEPT !.state = "failed"] ELSE calls[c]]
    /\ UNCHANGED ran

Next ==
    \/ \E id \in Ids, h \in Hosts, s \in {"waiting", "failed"} : Open(id, h, s)
    \/ \E id \in Ids, h \in Hosts : Run(h, id)
    \/ \E c \in DOMAIN calls : Answer(c)
    \/ \E C \in SUBSET DOMAIN calls : Fail(C)

Spec == Init /\ [][Next]_vars
=============================================================================
