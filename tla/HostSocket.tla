----------------------------- MODULE HostSocket -----------------------------
(***************************************************************************)
(* A host's end of its connection to the coordinator:                      *)
(* src/src/fleet/host/transports/websocket.js, class WebSocketTransport.   *)
(*                                                                         *)
(* The transport dials, holds one socket, sends a heartbeat on an interval *)
(* and dials again after a jittered wait whenever the socket ends or is    *)
(* given up.  A socket that was given up goes on existing until its close  *)
(* event, and a grace timer outlives the heartbeat that set it, so events  *)
(* of an earlier socket arrive while a later one is in use.                *)
(*                                                                         *)
(* Time is counted in ticks.  A timer that is due runs before time goes    *)
(* on, and timers due together run in any order.  The wait before a dial   *)
(* is jittered and doubles up to a bound; here it may be of any length.    *)
(* The heartbeat's interval timer runs exactly while a socket is in use:   *)
(* each place that changes the one changes the other in the same turn.     *)
(***************************************************************************)
EXTENDS Naturals

CONSTANTS
    Interval,       \* pingIntervalMs
    Graces,         \* values the option pongGraceMs may have
    MaxSockets,     \* bound: sockets opened in a behaviour
    MaxQuiet        \* the longest silence that is counted (a longer one is this)

ASSUME SocketAssumption ==
    /\ Interval \in Nat \ {0} /\ Graces \subseteq Nat \ {0}
    /\ MaxSockets \in Nat \ {0} /\ MaxQuiet \in Nat

Sockets == 1..MaxSockets

VARIABLES
    \* the transport
    ws,         \* this.ws: the socket in use, 0 for null
    dials,      \* how many #dial await their proof or their upgrade
    retry,      \* this.retryTimer is set
    stopped,    \* this.stopped
    pongGraceMs,    \* this.pongGraceMs, an option of the constructor
    since,      \* ticks since the interval timer last ran or was set
    awaiting,   \* this.awaitingPong
    graces,     \* the grace timers that are set: ticks left on each
    \* what surrounds it
    opened,     \* sockets opened so far, numbered in order
    draining,   \* sockets given up here whose close event is still to come
    mute,       \* sockets whose peer will not be heard again
    quiet,      \* ticks since anything arrived on the socket in use
    left        \* history: why each socket was left

timers    == <<since, awaiting, graces>>
surround  == <<opened, draining, mute, quiet, left>>
vars == <<ws, dials, retry, stopped, pongGraceMs, timers, surround>>

Reasons == {"held", "closed", "no pong", "send failed", "stopped"}

TypeOK ==
    /\ ws \in 0..opened
    /\ dials \in Nat
    /\ retry \in BOOLEAN /\ stopped \in BOOLEAN /\ awaiting \in BOOLEAN
    /\ since \in 0..Interval
    /\ pongGraceMs \in Graces
    /\ graces \subseteq 0..pongGraceMs
    /\ opened \in 0..MaxSockets
    /\ draining \subseteq Sockets /\ mute \subseteq Sockets
    /\ quiet \in 0..MaxQuiet
    /\ left \in [Sockets -> Reasons]

---------------------------------------------------------------------------
(* Dialling *)

\* #scheduleRetry: not once stopped, and never a second timer.
ScheduleRetry == retry' = IF stopped THEN retry ELSE TRUE

\* #dial: the upgrade completed.  The socket is taken into use and its
\* heartbeat starts, whether or not stop() was called while it was dialled.
DialOpens ==
    /\ dials > 0
    /\ opened < MaxSockets
    /\ dials' = dials - 1
    /\ opened' = opened + 1
    /\ ws' = opened + 1
    /\ since' = 0 /\ awaiting' = FALSE /\ quiet' = 0
    /\ UNCHANGED <<retry, stopped, pongGraceMs, graces, draining, mute, left>>

\* #dial: no proof, no upgrade, or a refusal (asked after over HTTP first).
DialFails ==
    /\ dials > 0
    /\ dials' = dials - 1
    /\ ScheduleRetry
    /\ UNCHANGED <<ws, stopped, pongGraceMs, timers, surround>>

\* The retry timer: #dial, which does nothing once stopped.
RetryFires ==
    /\ retry
    /\ retry' = FALSE
    /\ dials' = IF stopped THEN dials ELSE dials + 1
    /\ UNCHANGED <<ws, stopped, pongGraceMs, timers, surround>>

---------------------------------------------------------------------------
(* The socket in use *)

\* The socket is no longer in use, for this reason: #stopHeartbeat, and
\* this.ws back to null.
Leave(why) ==
    /\ ws' = 0
    /\ left' = [left EXCEPT ![ws] = why]
    /\ since' = 0 /\ awaiting' = FALSE /\ quiet' = 0

\* Mutant: a frame that is not a pong does not count.
FrameIsNotAPong ==
    /\ ws \notin mute \cup {0}
    /\ quiet' = 0
    /\ UNCHANGED <<ws, dials, retry, stopped, pongGraceMs, since, awaiting, graces, opened,
                   draining, mute, left>>

\* Anything at all from the peer is proof of life.
FrameArrives ==
    /\ ws \notin mute \cup {0}
    /\ awaiting' = FALSE
    /\ quiet' = 0
    /\ UNCHANGED <<ws, dials, retry, stopped, pongGraceMs, since, graces, opened,
                   draining, mute, left>>

\* Mutant: nothing dials again.
SocketClosesForGood ==
    /\ ws # 0
    /\ Leave("closed")
    /\ UNCHANGED <<retry, dials, stopped, pongGraceMs, graces, opened, draining, mute>>

\* The close event of the socket in use.
SocketCloses ==
    /\ ws # 0
    /\ Leave("closed")
    /\ ScheduleRetry
    /\ UNCHANGED <<dials, stopped, pongGraceMs, graces, opened, draining, mute>>

\* Mutant: the close of a socket given up before is taken for news.
OldSocketRetries(s) ==
    /\ draining' = draining \ {s}
    /\ ScheduleRetry
    /\ UNCHANGED <<ws, dials, stopped, pongGraceMs, timers, opened, mute, quiet, left>>

\* The close event of a socket given up before: `this.ws !== ws`, nothing.
OldSocketCloses(s) ==
    /\ draining' = draining \ {s}
    /\ UNCHANGED <<ws, dials, retry, stopped, pongGraceMs, timers, opened, mute, quiet, left>>

\* #abandon: forget the socket at once, close it, and dial again.
Abandon(why) ==
    /\ Leave(why)
    /\ draining' = draining \cup {ws}
    /\ ScheduleRetry
    /\ UNCHANGED <<dials, stopped, pongGraceMs, graces, opened, mute>>

HeartbeatDue == ws # 0 /\ since = Interval

\* The interval timer, and the heartbeat before went unanswered.
NoPong ==
    /\ HeartbeatDue
    /\ awaiting
    /\ Abandon("no pong")

\* The interval timer, and ws.send threw.
SendFails ==
    /\ HeartbeatDue
    /\ ~awaiting
    /\ Abandon("send failed")

\* Mutant: the grace is a tick too long.
SendHeartbeatLongGrace ==
    /\ HeartbeatDue
    /\ ~awaiting
    /\ since' = 0
    /\ awaiting' = TRUE
    /\ graces' = graces \cup {pongGraceMs + 1}
    /\ UNCHANGED <<ws, dials, retry, stopped, pongGraceMs, surround>>

\* The interval timer: ask, and give the answer its grace.
SendHeartbeat ==
    /\ HeartbeatDue
    /\ ~awaiting
    /\ since' = 0
    /\ awaiting' = TRUE
    /\ graces' = graces \cup {pongGraceMs}
    /\ UNCHANGED <<ws, dials, retry, stopped, pongGraceMs, surround>>

\* Mutant: the end of the grace leaves awaitingPong for the tick to read.
GraceEndsQuietly ==
    /\ 0 \in graces
    /\ graces' = graces \ {0}
    /\ UNCHANGED <<ws, dials, retry, stopped, pongGraceMs, since, awaiting, surround>>

\* A grace timer, which nothing cancels and no socket owns.
GraceEnds ==
    /\ 0 \in graces
    /\ graces' = graces \ {0}
    /\ awaiting' = FALSE
    /\ UNCHANGED <<ws, dials, retry, stopped, pongGraceMs, since, surround>>

Stop ==
    /\ ~stopped
    /\ stopped' = TRUE
    /\ retry' = FALSE
    /\ IF ws = 0
       THEN /\ awaiting' = FALSE
            /\ UNCHANGED <<ws, left, since, quiet, draining>>
       ELSE Leave("stopped") /\ draining' = draining \cup {ws}
    /\ UNCHANGED <<pongGraceMs, dials, graces, opened, mute>>

---------------------------------------------------------------------------
(* What surrounds the transport *)

\* A NAT drops the mapping, a laptop sleeps: the socket stays open and its
\* peer is never heard again.  The kernel may or may not find out.
GoesMute ==
    /\ ws \notin mute \cup {0}
    /\ mute' = mute \cup {ws}
    /\ UNCHANGED <<ws, dials, retry, stopped, pongGraceMs, timers, opened,
                   draining, quiet, left>>

Tick ==
    /\ ~HeartbeatDue
    /\ 0 \notin graces
    /\ since' = IF ws = 0 THEN 0 ELSE since + 1
    /\ quiet' = IF ws # 0 /\ quiet < MaxQuiet THEN quiet + 1 ELSE quiet
    /\ graces' = {g - 1 : g \in graces}
    /\ UNCHANGED <<ws, dials, retry, stopped, pongGraceMs, awaiting, opened,
                   draining, mute, left>>

---------------------------------------------------------------------------
(* Specification *)

\* start() has made its first attempt.
Init ==
    /\ ws = 0 /\ dials = 1 /\ retry = FALSE /\ stopped = FALSE
    /\ pongGraceMs \in Graces
    /\ since = 0 /\ awaiting = FALSE /\ graces = {}
    /\ opened = 0 /\ draining = {} /\ mute = {} /\ quiet = 0
    /\ left = [s \in Sockets |-> "held"]

Next ==
    \/ DialOpens \/ DialFails \/ RetryFires
    \/ FrameArrives \/ SocketCloses
    \/ \E s \in draining : OldSocketCloses(s)
    \/ NoPong \/ SendFails \/ SendHeartbeat \/ GraceEnds
    \/ Stop \/ GoesMute \/ Tick

\* Timers run and time passes; a dial ends, one way or the other (the proof's
\* request and the upgrade both have timeouts); and a coordinator that could
\* be reached again and again is reached at last.
Fairness ==
    /\ WF_vars(Tick)
    /\ WF_vars(NoPong \/ SendFails \/ SendHeartbeat)
    /\ WF_vars(GraceEnds)
    /\ WF_vars(RetryFires)
    /\ WF_vars(DialOpens \/ DialFails)
    /\ SF_vars(DialOpens)

Spec == Init /\ [][Next]_vars

FairSpec == Spec /\ Fairness

---------------------------------------------------------------------------
(* Properties *)

\* "What must never happen is a host that quietly stops being part of the
\* fleet while its process is still running" (websocket.js:10).  Until it is
\* stopped the transport holds a socket, dials, or waits to dial, and only one
\* of them, so it never has two sockets or two dials either.
OneWayIn ==
    ~stopped => (IF ws # 0 THEN 1 ELSE 0) + dials + (IF retry THEN 1 ELSE 0) = 1

\* "Only total silence drops it" (websocket.js:248): a socket given up for
\* want of a pong had been silent for a whole interval, whatever timers of an
\* earlier socket ran meanwhile.
OnlySilenceDrops ==
    [][\A s \in Sockets :
          (left[s] # "no pong" /\ left'[s] = "no pong") => quiet >= Interval]_vars

\* A host that is out comes back, if the coordinator can be reached.
BackInFleet ==
    (~stopped /\ ws = 0) ~> (ws # 0 \/ stopped \/ opened = MaxSockets)

\* What #startHeartbeat's comment says (websocket.js:299): a heartbeat that
\* went unanswered, with nothing else arriving either, means the socket is
\* given up.  A socket whose peer has gone silent does not stay in use.
SilenceIsDropped ==
    \A s \in Sockets : (ws = s /\ s \in mute) ~> ws # s

\* What the grace timer comes to when it is shorter than the interval, as the
\* shipped PONG_GRACE_MS is: it clears awaitingPong before the tick
\* that reads it, and no socket is ever given up for silence.
NeverDropped ==
    pongGraceMs < Interval => \A s \in Sockets : left[s] # "no pong"
=============================================================================
