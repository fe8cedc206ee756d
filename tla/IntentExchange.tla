-------------------------- MODULE IntentExchange ---------------------------
(***************************************************************************)
(* One intent's way from a caller to a host and back:                      *)
(*   - CoordinatorCore#send and the reply half of #onHostMessage           *)
(*     (src/src/fleet/coordinator/core.js): a waiter per intent id, a      *)
(*     timer per waiter, the host the waiter belongs to;                   *)
(*   - Sidecar#handle (src/src/fleet/host/sidecar.js): the reply of a      *)
(*     mutating intent is remembered by id, so a retry is replayed.        *)
(*                                                                         *)
(* An id may be used again: the caller owns the idempotency key and a      *)
(* phone that lost an answer sends the same id again, which placement may  *)
(* give to another host.  So replies can be late (their waiter timed out), *)
(* early for somebody else (the id is waiting on another host by now), and *)
(* repeated.  A frame to a host is lost with its socket; a reply is lost   *)
(* by never arriving.  When the cache of a host forgets is ReplayCache's   *)
(* subject; here it may forget at any time.                                *)
(***************************************************************************)
EXTENDS Naturals, Sequences, FiniteSets

CONSTANTS
    Hosts,          \* boxes in the fleet
    Ids,            \* idempotency keys
    MutatingIds,    \* those whose verb is mutating
    MaxCalls        \* bound: calls in a behaviour

ASSUME ExchangeAssumption == MutatingIds \subseteq Ids /\ MaxCalls \in Nat

VARIABLES
    \* the coordinator
    calls,      \* every send(): what its promise has become
    pending,    \* this.pending by id: the call waiting under it, 0 for none
    up,         \* hosts whose registry entry has a socket to send on
    \* the sockets
    wire,       \* calls whose frame is on its way to its host
    replies,    \* replies on their way back: which call's frame, which run
    \* the hosts
    runs,       \* every #run, in order: where and of what
    cache,      \* this.replay of each host: the run remembered under an id
    forgotten   \* history: runs a cache has let go

vars == <<calls, pending, up, wire, replies, runs, cache, forgotten>>

coordVars == <<calls, pending>>
hostVars  == <<runs, cache, forgotten>>

States == {"waiting", "answered", "timedout", "inuse", "unsent", "refused", "cut"}
Failed == States \ {"waiting", "answered"}

Call  == [id : Ids, host : Hosts, state : States, answer : Nat]
Run   == [host : Hosts, id : Ids]
Reply == [call : Nat, run : Nat]

TypeOK ==
    /\ calls \in Seq(Call) /\ Len(calls) <= MaxCalls
    /\ runs \in Seq(Run)
    /\ pending \in [Ids -> 0..Len(calls)]
    /\ up \subseteq Hosts
    /\ wire \subseteq DOMAIN calls
    /\ replies \subseteq [call : DOMAIN calls, run : DOMAIN runs]
    /\ cache \in [Hosts -> [MutatingIds -> 0..Len(runs)]]
    /\ forgotten \subseteq DOMAIN runs
    /\ \A c \in DOMAIN calls : calls[c].answer \in 0..Len(runs)

---------------------------------------------------------------------------
(* The coordinator *)

NewCall(id, h, state) ==
    Append(calls, [id |-> id, host |-> h, state |-> state, answer |-> 0])

\* send(): the box takes only signed intents and this one is not, so the
\* refusal is made here and nothing is sent.
RefuseUnsigned(id, h) ==
    /\ Len(calls) < MaxCalls
    /\ calls' = NewCall(id, h, "refused")
    /\ UNCHANGED <<pending, up, wire, replies, hostVars>>

\* send(): "an intent with id ... is already in flight".
RejectInUse(id, h) ==
    /\ Len(calls) < MaxCalls
    /\ pending[id] # 0
    /\ calls' = NewCall(id, h, "inuse")
    /\ UNCHANGED <<pending, up, wire, replies, hostVars>>

\* send(): host.send threw, so the waiter just made is taken away again.
RejectUnsent(id, h) ==
    /\ Len(calls) < MaxCalls
    /\ pending[id] = 0
    /\ h \notin up
    /\ calls' = NewCall(id, h, "unsent")
    /\ UNCHANGED <<pending, up, wire, replies, hostVars>>

\* Mutant: the waiter is numbered past the call it is for.
SendMisnumbered(id, h) ==
    /\ Len(calls) < MaxCalls
    /\ pending[id] = 0
    /\ h \in up
    /\ calls' = NewCall(id, h, "waiting")
    /\ pending' = [pending EXCEPT ![id] = Len(calls) + 2]
    /\ wire' = wire \cup {Len(calls) + 1}
    /\ UNCHANGED <<up, replies, hostVars>>

\* Mutant: no look at what is in flight under the id.
SendOverWaiter(id, h) ==
    /\ Len(calls) < MaxCalls
    /\ h \in up
    /\ calls' = NewCall(id, h, "waiting")
    /\ pending' = [pending EXCEPT ![id] = Len(calls) + 1]
    /\ wire' = wire \cup {Len(calls) + 1}
    /\ UNCHANGED <<up, replies, hostVars>>

\* send(): a waiter under the id, and the frame on the host's socket.
Send(id, h) ==
    /\ Len(calls) < MaxCalls
    /\ pending[id] = 0
    /\ h \in up
    /\ calls' = NewCall(id, h, "waiting")
    /\ pending' = [pending EXCEPT ![id] = Len(calls) + 1]
    /\ wire' = wire \cup {Len(calls) + 1}
    /\ UNCHANGED <<up, replies, hostVars>>

\* Mutant: the timer leaves its waiter behind.
TimeOutKeepsWaiter(id) ==
    /\ pending[id] # 0
    /\ calls' = [calls EXCEPT ![pending[id]].state = "timedout"]
    /\ UNCHANGED <<pending, up, wire, replies, hostVars>>

\* The waiter's timer.
TimeOut(id) ==
    /\ pending[id] # 0
    /\ calls' = [calls EXCEPT ![pending[id]].state = "timedout"]
    /\ pending' = [pending EXCEPT ![id] = 0]
    /\ UNCHANGED <<up, wire, replies, hostVars>>

\* onHostMessage: "late reply ... nothing was waiting".
DropLateReply(m) ==
    /\ pending[runs[m.run].id] = 0
    /\ replies' = replies \ {m}
    /\ UNCHANGED <<coordVars, up, wire, hostVars>>

\* onHostMessage: the waiter under this id belongs to another host; the
\* reply is ignored and the waiter is left for its own.
IgnoreOtherHost(m) ==
    LET c == pending[runs[m.run].id]
    IN  /\ c # 0
        /\ calls[c].host # runs[m.run].host
        /\ replies' = replies \ {m}
        /\ UNCHANGED <<coordVars, up, wire, hostVars>>

\* Mutant: whichever host answers first.
TakeAnyReply(m) ==
    LET c == pending[runs[m.run].id]
    IN  /\ c # 0
        /\ calls' = [calls EXCEPT ![c].state = "answered", ![c].answer = m.run]
        /\ pending' = [pending EXCEPT ![runs[m.run].id] = 0]
        /\ replies' = replies \ {m}
        /\ UNCHANGED <<up, wire, hostVars>>

\* onHostMessage: the waiter is taken out, its timer cleared, its promise
\* resolved with this reply.
TakeReply(m) ==
    LET id == runs[m.run].id
        c  == pending[id]
    IN  /\ c # 0
        /\ calls[c].host = runs[m.run].host
        /\ calls' = [calls EXCEPT ![c].state = "answered", ![c].answer = m.run]
        /\ pending' = [pending EXCEPT ![id] = 0]
        /\ replies' = replies \ {m}
        /\ UNCHANGED <<up, wire, hostVars>>

\* A host dials in.
Connect(h) ==
    /\ h \notin up
    /\ up' = up \cup {h}
    /\ UNCHANGED <<coordVars, wire, replies, hostVars>>

\* A host's socket ends; what was on it has gone.  The waiters are not
\* settled by it: each is left to its timer.
Disconnect(h) ==
    /\ h \in up
    /\ up' = up \ {h}
    /\ wire' = {c \in wire : calls[c].host # h}
    /\ UNCHANGED <<coordVars, replies, hostVars>>

\* The coordinator is replaced (a deploy): its waiters and the requests they
\* answer go with it, and every socket is cut.
Redeploy ==
    /\ calls' = [c \in DOMAIN calls |->
          IF calls[c].state = "waiting" THEN [calls[c] EXCEPT !.state = "cut"]
          ELSE calls[c]]
    /\ pending' = [id \in Ids |-> 0]
    /\ up' = {}
    /\ wire' = {}
    /\ UNCHANGED <<replies, hostVars>>

---------------------------------------------------------------------------
(* The hosts *)

\* handle(): a mutating id that is remembered is answered from memory.
HandleReplay(c) ==
    LET id == calls[c].id
        h  == calls[c].host
    IN  /\ id \in MutatingIds
        /\ cache[h][id] # 0
        /\ wire' = wire \ {c}
        /\ replies' = replies \cup {[call |-> c, run |-> cache[h][id]]}
        /\ UNCHANGED <<coordVars, up, hostVars>>

\* Mutant: a remembered id is run again.
HandleRunAgain(c) ==
    LET id == calls[c].id
        h  == calls[c].host
        n  == Len(runs) + 1
    IN  /\ runs' = Append(runs, [host |-> h, id |-> id])
        /\ cache' = IF id \in MutatingIds THEN [cache EXCEPT ![h][id] = n] ELSE cache
        /\ wire' = wire \ {c}
        /\ replies' = replies \cup {[call |-> c, run |-> n]}
        /\ UNCHANGED <<coordVars, up, forgotten>>

\* handle(): otherwise it is run, and a mutating one remembered.
HandleRun(c) ==
    LET id == calls[c].id
        h  == calls[c].host
        n  == Len(runs) + 1
    IN  /\ id \in MutatingIds => cache[h][id] = 0
        /\ runs' = Append(runs, [host |-> h, id |-> id])
        /\ cache' = IF id \in MutatingIds THEN [cache EXCEPT ![h][id] = n] ELSE cache
        /\ wire' = wire \ {c}
        /\ replies' = replies \cup {[call |-> c, run |-> n]}
        /\ UNCHANGED <<coordVars, up, forgotten>>

\* The memory of one id runs out (REPLAY_TTL_MS) or is evicted (REPLAY_MAX).
Forget(h, id) ==
    /\ cache[h][id] # 0
    /\ cache' = [cache EXCEPT ![h][id] = 0]
    /\ forgotten' = forgotten \cup {cache[h][id]}
    /\ UNCHANGED <<coordVars, up, wire, replies, runs>>

\* The sidecar process is restarted: its memory is only memory.
RestartSidecar(h) ==
    /\ cache' = [cache EXCEPT ![h] = [id \in MutatingIds |-> 0]]
    /\ forgotten' = forgotten \cup ({cache[h][id] : id \in MutatingIds} \ {0})
    /\ up' = up \ {h}
    /\ wire' = {c \in wire : calls[c].host # h}
    /\ UNCHANGED <<coordVars, replies, runs>>

---------------------------------------------------------------------------
(* Specification *)

Init ==
    /\ calls = <<>> /\ pending = [id \in Ids |-> 0]
    /\ up = {} /\ wire = {} /\ replies = {}
    /\ runs = <<>> /\ cache = [h \in Hosts |-> [id \in MutatingIds |-> 0]]
    /\ forgotten = {}

Next ==
    \/ \E id \in Ids, h \in Hosts :
          RefuseUnsigned(id, h) \/ RejectInUse(id, h) \/ RejectUnsent(id, h) \/ Send(id, h)
    \/ \E id \in Ids : TimeOut(id)
    \/ \E m \in replies : DropLateReply(m) \/ IgnoreOtherHost(m) \/ TakeReply(m)
    \/ \E h \in Hosts : Connect(h) \/ Disconnect(h) \/ RestartSidecar(h)
    \/ Redeploy
    \/ \E c \in wire : HandleReplay(c) \/ HandleRun(c)
    \/ \E h \in Hosts, id \in MutatingIds : Forget(h, id)

Spec == Init /\ [][Next]_vars

---------------------------------------------------------------------------
(* Properties *)

\* NO WAITER IS CLOBBERED (core.js:3805, "the silent overwrite was a
\* fleet-wide outage").  A waiting call is the one its id leads to, and a
\* waiter leads to a call that waits: nobody starves under a lost entry.
WaiterPerCall ==
    /\ \A c \in DOMAIN calls : calls[c].state = "waiting" => pending[calls[c].id] = c
    /\ \A id \in Ids : pending[id] # 0 =>
          /\ calls[pending[id]].state = "waiting"
          /\ calls[pending[id]].id = id

\* ONLY FROM THE HOST IT WAS SENT TO (core.js:1098).  An answer is a run of
\* the call's own id on the call's own host, however late, repeated or
\* re-placed the id was.
AnswerFromOwnHost ==
    \A c \in DOMAIN calls : calls[c].state = "answered" =>
        /\ calls[c].answer # 0
        /\ runs[calls[c].answer] = [host |-> calls[c].host, id |-> calls[c].id]

\* A RETRY GETS THE ORIGINAL OUTCOME from a host that still remembers it: two
\* answers one host gave under one mutating id are the same run, unless its
\* cache let the earlier one go.
RetryGetsOriginal ==
    \A c, d \in DOMAIN calls :
        (/\ calls[c].state = "answered" /\ calls[d].state = "answered"
         /\ calls[c].id = calls[d].id /\ calls[c].host = calls[d].host
         /\ calls[c].id \in MutatingIds
         /\ calls[c].answer < calls[d].answer)
            => calls[c].answer \in forgotten

\* What docs/coordinator.md:92 and fleet-do.js:1516 say of an id a phone uses
\* again: the original outcome "rather than a second session".  One mutating
\* id is run on one host.
OneHostPerId ==
    \A i, j \in DOMAIN runs :
        (runs[i].id = runs[j].id /\ runs[i].id \in MutatingIds)
            => runs[i].host = runs[j].host

---------------------------------------------------------------------------
(* Refinement: the exchange keeps the promise of IntentCalls *)

Outcome(state) == IF state \in Failed THEN "failed" ELSE state

\* What the caller of each call sees of it, and which hosts ran which ids.
CallView == [c \in DOMAIN calls |->
    [id |-> calls[c].id, host |-> calls[c].host, state |-> Outcome(calls[c].state)]]

RanView == {<<runs[r].host, runs[r].id>> : r \in DOMAIN runs}

Promise == INSTANCE IntentCalls WITH calls <- CallView, ran <- RanView

KeepsPromise == Promise!Spec
=============================================================================
