---------------------------- MODULE ReplayCache ----------------------------
(***************************************************************************)
(* How one host's sidecar process decides what to do with each intent it   *)
(* receives: src/src/fleet/host/sidecar.js, `handle`, `#recall` and        *)
(* `#remember`, with the freshness rule of `validateIntent`                *)
(* (src/src/fleet/protocol/intents.js).                                    *)
(*                                                                         *)
(* A mutating intent (start, stop, reboot, ...) carries an idempotency key,*)
(* its id.  The first delivery of an id starts a run and the PROMISE of    *)
(* its reply is kept; a later delivery is given that promise instead of    *)
(* starting a second session.  The memory is bounded in time (ReplayTTL)   *)
(* and in number (ReplayMax), and deliveries are also refused when their   *)
(* `issuedAt` is too far from the host's clock (MaxSkew).  Between that    *)
(* freshness check and the look at the cache the handler awaits            *)
(* `intentKeys.check`, so the two are separate actions here and other      *)
(* deliveries are handled in between.                                      *)
(*                                                                         *)
(* The module is the life of ONE process: the cache is memory only, and a  *)
(* restarted sidecar starts again from Init (IntentExchange has restarts). *)
(***************************************************************************)
EXTENDS Integers, Sequences, FiniteSets

CONSTANTS
    Ids,            \* idempotency keys
    MutatingIds,    \* those whose verb changes something (isMutating)
    MaxSkew,        \* maxSkewMs; 0 means freshness is not checked
    ReplayTTL,      \* REPLAY_TTL_MS
    ReplayMax,      \* REPLAY_MAX
    MaxCheck,       \* longest `await intentKeys.check` keeps an intent
    Stamps,         \* values of issuedAt: the clock of whoever issued it
    MaxFrames,      \* bound: deliveries in a behaviour
    MaxClock        \* bound: the host's clock

ASSUME MutatingAssumption == MutatingIds \subseteq Ids
ASSUME StampsAssumption   == Stamps \subseteq Int

\* Sidecar's constructor throws unless maxSkewMs < REPLAY_TTL_MS.
ASSUME WindowAssumption ==
    /\ MaxSkew \in Nat /\ ReplayTTL \in Nat /\ MaxSkew < ReplayTTL
    /\ ReplayMax \in Nat \ {0}
    /\ MaxCheck \in Nat
    /\ MaxFrames \in Nat /\ MaxClock \in Nat

VARIABLES
    now,        \* Date.now() on the host
    frames,     \* every intent delivered to handle(), in order of arrival
    runs,       \* every #run of a mutating intent, in order of starting
    replay      \* this.replay: the runs whose replies are remembered

vars == <<now, frames, runs, replay>>

Phases == {"checking", "running", "waiting", "answered", "refused"}

\* What handle() knows of one delivery.  `at` is when it passed the
\* freshness check; `run` is the run whose reply it is given, 0 when none.
Frame == [id : Ids, stamp : Stamps, at : 0..MaxClock, phase : Phases, run : Nat]

\* A run is what reaches the session manager: its number is its index.
Run == [id : MutatingIds, stamp : Stamps, at : 0..MaxClock, done : BOOLEAN]

TypeOK ==
    /\ now \in 0..MaxClock
    /\ frames \in Seq(Frame)
    /\ Len(frames) <= MaxFrames
    /\ runs \in Seq(Run)
    /\ replay \subseteq DOMAIN runs
    /\ \A f \in DOMAIN frames : frames[f].run \in 0..Len(runs)

---------------------------------------------------------------------------
(* Helpers *)

\* Mutant: only an intent from the future is refused.
FreshOneSided(stamp, t) == MaxSkew = 0 \/ stamp - t <= MaxSkew

Fresh(stamp, t) == MaxSkew = 0 \/ (t - stamp <= MaxSkew /\ stamp - t <= MaxSkew)

\* Mutant: forgotten one tick early.
ExpiredEarly(r) == now - runs[r].at >= ReplayTTL

\* #recall's deletion test: `Date.now() - hit.at > REPLAY_TTL_MS`.
Expired(r) == now - runs[r].at > ReplayTTL

\* The entries of the Map under this id; there is at most one (OneEntryPerId).
Hits(id) == {r \in replay : runs[r].id = id}

\* Mutant: one entry too many is kept.
EvictLate(S) ==
    IF Cardinality(S) > ReplayMax + 1 THEN {r \in S : \E s \in S : s < r} ELSE S

\* #remember's eviction.  Map order is insertion order, and an entry is only
\* ever inserted by the newest run, so the front of the Map is the smallest
\* run: past ReplayMax, every entry stays that has an older one before it.
Evict(S) ==
    IF Cardinality(S) > ReplayMax THEN {r \in S : \E s \in S : s < r} ELSE S

---------------------------------------------------------------------------
(* Actions *)

\* A frame arrives and validateIntent judges its freshness: stale is answered
\* with a refusal at once, anything else goes on to the signature check.
Receive(id, stamp) ==
    /\ Len(frames) < MaxFrames
    /\ frames' = Append(frames,
          [id |-> id, stamp |-> stamp, at |-> now, run |-> 0,
           phase |-> IF Fresh(stamp, now) THEN "checking" ELSE "refused"])
    /\ UNCHANGED <<now, runs, replay>>

\* The check came back and the box enforces signatures: signature_required,
\* and nothing is remembered.
Refuse(f) ==
    /\ frames[f].phase = "checking"
    /\ frames' = [frames EXCEPT ![f].phase = "refused"]
    /\ UNCHANGED <<now, runs, replay>>

\* Mutant: a read is given a run to wait on as well.
RunReadAsMutating(f) ==
    /\ frames[f].phase = "checking"
    /\ frames[f].id \notin MutatingIds
    /\ frames' = [frames EXCEPT ![f].phase = "running", ![f].run = Len(runs) + 1]
    /\ UNCHANGED <<now, runs, replay>>

\* A verb that changes nothing is run afresh each time and never remembered.
RunRead(f) ==
    /\ frames[f].phase = "checking"
    /\ frames[f].id \notin MutatingIds
    /\ frames' = [frames EXCEPT ![f].phase = "running"]
    /\ UNCHANGED <<now, runs, replay>>

\* Mutant: the remembered promise is not awaited.
ReplayUnawaited(f) ==
    /\ frames[f].phase = "checking"
    /\ frames[f].id \in MutatingIds
    /\ \E r \in Hits(frames[f].id) :
          /\ ~Expired(r)
          /\ frames' = [frames EXCEPT ![f].phase = "answered", ![f].run = r]
    /\ UNCHANGED <<now, runs, replay>>

\* #recall found a reply that is still remembered: wait for that promise.
Replay(f) ==
    /\ frames[f].phase = "checking"
    /\ frames[f].id \in MutatingIds
    /\ \E r \in Hits(frames[f].id) :
          /\ ~Expired(r)
          /\ frames' = [frames EXCEPT
                ![f].phase = IF runs[r].done THEN "answered" ELSE "waiting",
                ![f].run = r]
    /\ UNCHANGED <<now, runs, replay>>

\* #recall found nothing, or an entry past its time, which it deletes: start
\* the run and remember its promise, in one turn of the event loop.
RunMutating(f) ==
    LET id == frames[f].id
        n  == Len(runs) + 1
    IN  /\ frames[f].phase = "checking"
        /\ id \in MutatingIds
        /\ \A r \in Hits(id) : Expired(r)
        /\ runs' = Append(runs, [id |-> id, stamp |-> frames[f].stamp,
                                 at |-> now, done |-> FALSE])
        /\ replay' = Evict((replay \ Hits(id)) \cup {n})
        /\ frames' = [frames EXCEPT ![f].phase = "running", ![f].run = n]
        /\ UNCHANGED now

\* Mutant: only the delivery that started the run is answered.
FinishRunForStarter(r) ==
    /\ ~runs[r].done
    /\ runs' = [runs EXCEPT ![r].done = TRUE]
    /\ frames' = [f \in DOMAIN frames |->
          IF frames[f].run = r /\ frames[f].phase = "running"
          THEN [frames[f] EXCEPT !.phase = "answered"] ELSE frames[f]]
    /\ UNCHANGED <<now, replay>>

\* The promise of run r resolves: every delivery awaiting it is answered with
\* the same reply, `replayed` on all but the one that started it.
FinishRun(r) ==
    /\ ~runs[r].done
    /\ runs' = [runs EXCEPT ![r].done = TRUE]
    /\ frames' = [f \in DOMAIN frames |->
          IF frames[f].run = r /\ frames[f].phase \in {"running", "waiting"}
          THEN [frames[f] EXCEPT !.phase = "answered"] ELSE frames[f]]
    /\ UNCHANGED <<now, replay>>

FinishRead(f) ==
    /\ frames[f].phase = "running"
    /\ frames[f].run = 0
    /\ frames' = [frames EXCEPT ![f].phase = "answered"]
    /\ UNCHANGED <<now, runs, replay>>

\* Time passes, but no further than MaxCheck past a check that is still out.
Tick ==
    /\ now < MaxClock
    /\ \A f \in DOMAIN frames :
          frames[f].phase = "checking" => now < frames[f].at + MaxCheck
    /\ now' = now + 1
    /\ UNCHANGED <<frames, runs, replay>>

Settle(f) == Refuse(f) \/ RunRead(f) \/ Replay(f) \/ RunMutating(f)

---------------------------------------------------------------------------
(* Specification *)

Init ==
    /\ now = 0
    /\ frames = <<>>
    /\ runs = <<>>
    /\ replay = {}

Next ==
    \/ \E id \in Ids, stamp \in Stamps : Receive(id, stamp)
    \/ \E f \in DOMAIN frames :
          Refuse(f) \/ RunRead(f) \/ Replay(f) \/ RunMutating(f) \/ FinishRead(f)
    \/ \E r \in DOMAIN runs : FinishRun(r)
    \/ Tick

\* The signature check has its own bound and every command the sidecar sends
\* the session manager has a request timeout (hub-client.js), so both awaits
\* end; a delivery can be starved by neither.
Fairness ==
    /\ \A f \in 1..MaxFrames :
          /\ WF_vars(f \in DOMAIN frames /\ Settle(f))
          /\ WF_vars(f \in DOMAIN frames /\ FinishRead(f))
    /\ \A r \in 1..MaxFrames : WF_vars(r \in DOMAIN runs /\ FinishRun(r))

Spec == Init /\ [][Next]_vars

FairSpec == Spec /\ Fairness

---------------------------------------------------------------------------
(* Properties *)

\* THE REASON THE CACHE EXISTS (sidecar.js:171, docs/sidecar.md:182).  One
\* envelope, that is one id with one issuedAt, does its work once however
\* often it is delivered, unless at least ReplayMax other mutating intents
\* were run after it, which is what #remember's eviction accepts.
OneRunPerEnvelope ==
    \A i, j \in DOMAIN runs :
        (i < j /\ runs[i].id = runs[j].id /\ runs[i].stamp = runs[j].stamp)
            => j - i > ReplayMax

\* Whatever its envelope, an id is not run again within the time its first
\* reply is remembered for, with the same exception for eviction.
NoRerunWhileRemembered ==
    \A i, j \in DOMAIN runs :
        (i < j /\ runs[i].id = runs[j].id)
            => runs[j].at - runs[i].at > ReplayTTL \/ j - i > ReplayMax

\* A delivery is only ever answered with the reply of a run of its own id,
\* and a run that is over has left nobody waiting on its promise.
ReplyIsOwnRun ==
    \A f \in DOMAIN frames :
        frames[f].run # 0 =>
            /\ runs[frames[f].run].id = frames[f].id
            /\ runs[frames[f].run].done <=> frames[f].phase = "answered"

\* The Map holds one entry per id and never more than ReplayMax.
OneEntryPerId ==
    /\ \A r, s \in replay : runs[r].id = runs[s].id => r = s
    /\ Cardinality(replay) <= ReplayMax

\* "Never throws. A coordinator that gets no answer cannot tell a refused
\* intent from a dead host": every delivery is answered or refused.
EveryFrameAnswered ==
    \A f \in 1..MaxFrames :
        (f \in DOMAIN frames)
            ~> (f \in DOMAIN frames /\ frames[f].phase \in {"answered", "refused"})
=============================================================================
