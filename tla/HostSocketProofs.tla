-------------------------- MODULE HostSocketProofs --------------------------
(***************************************************************************)
(* What holds of HostSocket for every interval, grace and number of        *)
(* sockets.  Two facts about awaitingPong carry the results: while it is   *)
(* set, a grace timer is pending that will run pongGraceMs ticks after the *)
(* heartbeat that set it, and nothing has arrived since that heartbeat.    *)
(***************************************************************************)
EXTENDS HostSocket, TLAPS

\* The grace timer of the last heartbeat has not run yet.
GracePending ==
    awaiting => ws # 0 /\ since <= pongGraceMs /\ pongGraceMs - since \in graces

\* The silence is at least as old as the last heartbeat.
SilentSinceAsked == awaiting => since <= quiet

IInv == TypeOK /\ OneWayIn /\ GracePending

---------------------------------------------------------------------------
(* Type correctness, and one way in *)

LEMMA InitInv == Init => IInv
<1> SUFFICES ASSUME Init PROVE IInv
  OBVIOUS
<1> USE SocketAssumption DEF Init
<1>1. left \in [Sockets -> Reasons]
  BY DEF Reasons
<1>2. ws \in 0..opened /\ opened \in 0..MaxSockets
  OBVIOUS
<1>3. since \in 0..Interval /\ quiet \in 0..MaxQuiet
  OBVIOUS
<1>4. TypeOK
  BY <1>1, <1>2, <1>3 DEF TypeOK
<1> QED
  BY <1>4 DEF IInv, OneWayIn, GracePending

LEMMA ReasonTypes ==
    "held" \in Reasons /\ "closed" \in Reasons /\ "no pong" \in Reasons
    /\ "send failed" \in Reasons /\ "stopped" \in Reasons
  BY DEF Reasons

\* Leaving the socket in use, for a reason that is one, keeps the types.
LEMMA LeaveTypes ==
    ASSUME TypeOK, NEW why \in Reasons, ws # 0, Leave(why)
    PROVE  /\ left' \in [Sockets -> Reasons]
           /\ since' \in 0..Interval /\ quiet' \in 0..MaxQuiet
           /\ ws' \in 0..opened /\ ws \in Sockets
<1> USE SocketAssumption DEF TypeOK, Leave
<1>1. left' \in [Sockets -> Reasons]
  OBVIOUS
<1>2. since' \in 0..Interval
  OBVIOUS
<1>3. quiet' \in 0..MaxQuiet
  OBVIOUS
<1>4. ws' \in 0..opened
  OBVIOUS
<1>5. ws \in Sockets
  BY DEF Sockets
<1> QED
  BY <1>1, <1>2, <1>3, <1>4, <1>5

\* A new socket's number is one of the sockets.
LEMMA OpenTypes ==
    ASSUME TypeOK, DialOpens
    PROVE  ws' \in 0..opened' /\ opened' \in 0..MaxSockets /\ dials' \in Nat
<1> USE SocketAssumption DEF TypeOK, DialOpens
<1>1. opened' \in 0..MaxSockets
  OBVIOUS
<1>2. ws' \in 0..opened'
  OBVIOUS
<1>3. dials' \in Nat
  OBVIOUS
<1> QED
  BY <1>1, <1>2, <1>3

LEMMA RetryTypes ==
    ASSUME TypeOK, ScheduleRetry PROVE retry' \in BOOLEAN
  BY DEF TypeOK, ScheduleRetry

LEMMA TickTypes ==
    ASSUME TypeOK, Tick
    PROVE  graces' \subseteq 0..pongGraceMs' /\ since' \in 0..Interval /\ quiet' \in 0..MaxQuiet
<1> USE SocketAssumption DEF TypeOK, Tick
<1>1. graces' \subseteq 0..pongGraceMs'
  OBVIOUS
<1>2. since' \in 0..Interval
  BY DEF HeartbeatDue
<1>3. quiet' \in 0..MaxQuiet
  OBVIOUS
<1> QED
  BY <1>1, <1>2, <1>3

LEMMA TypeStep == TypeOK /\ [Next]_vars => TypeOK'
<1> SUFFICES ASSUME TypeOK, [Next]_vars PROVE TypeOK'
  OBVIOUS
<1>a. /\ 0 \in 0..Interval /\ 0 \in 0..MaxQuiet /\ pongGraceMs \in 0..pongGraceMs
  BY SocketAssumption DEF TypeOK
<1>1. CASE DialOpens
  BY <1>1, <1>a, OpenTypes DEF TypeOK, DialOpens
<1>2. CASE DialFails
  <2>1. dials' \in Nat
    BY <1>2 DEF TypeOK, DialFails
  <2> QED
    BY <1>2, <2>1, RetryTypes DEF TypeOK, DialFails, timers, surround
<1>3. CASE RetryFires
  <2>1. dials' \in Nat
    BY <1>3 DEF TypeOK, RetryFires
  <2> QED
    BY <1>3, <2>1 DEF TypeOK, RetryFires, timers, surround
<1>4. CASE FrameArrives
  BY <1>4, <1>a DEF TypeOK, FrameArrives
<1>5. CASE SocketCloses
  <2>1. ws # 0 /\ Leave("closed") /\ ScheduleRetry
    BY <1>5 DEF SocketCloses
  <2> QED
    BY <1>5, <2>1, LeaveTypes, ReasonTypes, RetryTypes DEF TypeOK, SocketCloses, Leave
<1>6. ASSUME NEW s \in draining, OldSocketCloses(s) PROVE TypeOK'
  BY <1>6 DEF TypeOK, OldSocketCloses, timers
<1>7. ASSUME NEW why \in Reasons, ws # 0, Abandon(why) PROVE TypeOK'
  <2>1. Leave(why) /\ ScheduleRetry
    BY <1>7 DEF Abandon
  <2> QED
    BY <1>7, <2>1, LeaveTypes, RetryTypes DEF TypeOK, Abandon, Leave
<1>8. CASE NoPong \/ SendFails
  BY <1>7, <1>8, ReasonTypes DEF NoPong, SendFails, HeartbeatDue
<1>9. CASE SendHeartbeat
  BY <1>9, <1>a DEF TypeOK, SendHeartbeat, surround
<1>10. CASE GraceEnds
  BY <1>10 DEF TypeOK, GraceEnds, surround
<1>11. CASE Stop
  <2>1. CASE ws = 0
    BY <1>11, <2>1 DEF TypeOK, Stop
  <2>2. CASE ws # 0
    <3>1. Leave("stopped")
      BY <1>11, <2>2 DEF Stop
    <3> QED
      BY <1>11, <2>2, <3>1, LeaveTypes, ReasonTypes DEF TypeOK, Stop, Leave
  <2> QED
    BY <2>1, <2>2
<1>12. CASE GoesMute
  <2>1. ws \in Sockets
    BY <1>12, SocketAssumption DEF TypeOK, GoesMute, Sockets
  <2> QED
    BY <1>12, <2>1 DEF TypeOK, GoesMute, timers
<1>13. CASE Tick
  BY <1>13, TickTypes DEF TypeOK, Tick
<1>14. CASE UNCHANGED vars
  BY <1>14 DEF TypeOK, vars, timers, surround
<1> QED
  BY <1>1, <1>2, <1>3, <1>4, <1>5, <1>6, <1>8, <1>9, <1>10, <1>11, <1>12,
     <1>13, <1>14 DEF Next

LEMMA OneWayStep == TypeOK /\ OneWayIn /\ [Next]_vars => OneWayIn'
<1> SUFFICES ASSUME TypeOK, OneWayIn, [Next]_vars PROVE OneWayIn'
  OBVIOUS
<1> USE DEF TypeOK, OneWayIn
<1>1. CASE DialOpens
  BY <1>1 DEF DialOpens
<1>2. CASE DialFails
  BY <1>2 DEF DialFails, ScheduleRetry, timers, surround
<1>3. CASE RetryFires
  BY <1>3 DEF RetryFires, timers, surround
<1>4. CASE SocketCloses \/ NoPong \/ SendFails
  <2>1. ws # 0 /\ ws' = 0 /\ dials' = dials /\ stopped' = stopped /\ ScheduleRetry
    BY <1>4 DEF SocketCloses, NoPong, SendFails, HeartbeatDue, Abandon, Leave
  <2>2. CASE stopped
    BY <2>1, <2>2
  <2>3. CASE ~stopped
    <3>1. retry' = TRUE
      BY <2>1, <2>3 DEF ScheduleRetry
    <3>2. dials = 0 /\ retry = FALSE
      BY <2>1, <2>3
    <3> QED
      BY <2>1, <3>1, <3>2
  <2> QED
    BY <2>2, <2>3
<1>5. CASE Stop
  BY <1>5 DEF Stop
<1>6. CASE FrameArrives \/ SendHeartbeat \/ GraceEnds \/ GoesMute \/ Tick
  BY <1>6 DEF FrameArrives, SendHeartbeat, GraceEnds, GoesMute, Tick
<1>7. ASSUME NEW s \in draining, OldSocketCloses(s) PROVE OneWayIn'
  BY <1>7 DEF OldSocketCloses
<1>8. CASE UNCHANGED vars
  BY <1>8 DEF vars
<1> QED
  BY <1>1, <1>2, <1>3, <1>4, <1>5, <1>6, <1>7, <1>8 DEF Next

LEMMA GraceStep == TypeOK /\ GracePending /\ [Next]_vars => GracePending'
<1> SUFFICES ASSUME TypeOK, GracePending, [Next]_vars, awaiting'
             PROVE  /\ ws' # 0 /\ since' <= pongGraceMs'
                    /\ pongGraceMs' - since' \in graces'
  BY DEF GracePending
<1> USE SocketAssumption DEF TypeOK, GracePending
<1>1. CASE DialOpens \/ FrameArrives \/ SocketCloses \/ NoPong \/ SendFails \/ GraceEnds
  BY <1>1 DEF DialOpens, FrameArrives, SocketCloses, NoPong, SendFails, GraceEnds,
              Abandon, Leave
<1>2. CASE DialFails \/ RetryFires \/ GoesMute
  BY <1>2 DEF DialFails, RetryFires, GoesMute, timers
<1>3. CASE SendHeartbeat
  BY <1>3 DEF SendHeartbeat, HeartbeatDue
<1>4. CASE Stop
  BY <1>4 DEF Stop, Leave
<1>5. CASE Tick
  <2>1. awaiting /\ ws # 0 /\ ws' = ws /\ since' = since + 1
    BY <1>5 DEF Tick
  <2>2. pongGraceMs - since # 0 /\ pongGraceMs - since \in graces
    BY <1>5, <2>1 DEF Tick
  <2>3. (pongGraceMs - since) - 1 \in graces'
    BY <1>5, <2>2 DEF Tick
  <2>4. pongGraceMs' = pongGraceMs
    BY <1>5 DEF Tick
  <2> QED
    BY <2>1, <2>2, <2>3, <2>4
<1>6. ASSUME NEW s \in draining, OldSocketCloses(s)
      PROVE  /\ ws' # 0 /\ since' <= pongGraceMs' /\ pongGraceMs' - since' \in graces'
  BY <1>6 DEF OldSocketCloses, timers
<1>7. CASE UNCHANGED vars
  BY <1>7 DEF vars, timers
<1> QED
  BY <1>1, <1>2, <1>3, <1>4, <1>5, <1>6, <1>7 DEF Next

LEMMA Invariance == Spec => []IInv
<1>1. IInv /\ [Next]_vars => IInv'
  BY TypeStep, OneWayStep, GraceStep DEF IInv
<1> QED
  BY InitInv, <1>1, PTL DEF Spec

\* Every variable of the transport keeps to its type.
THEOREM TypeCorrect == Spec => []TypeOK
  BY Invariance, PTL DEF IInv

\* A transport that was not stopped holds a socket, dials or waits to dial,
\* and only ever one of the three (the retryTimer guard of #scheduleRetry and
\* the order of #dial, close and #abandon).
THEOREM AlwaysOneWayIn == Spec => []OneWayIn
  BY Invariance, PTL DEF IInv

---------------------------------------------------------------------------
(* The heartbeat *)

\* Whenever the grace is shorter than the interval, as PONG_GRACE_MS is, the
\* heartbeat cannot give a socket up: no socket is ever left for silence.
THEOREM ShortGraceNeverDrops == Spec => []NeverDropped
<1>1. Init => NeverDropped
  BY DEF Init, NeverDropped
<1>2. IInv /\ NeverDropped /\ [Next]_vars => NeverDropped'
  <2> SUFFICES ASSUME IInv, NeverDropped, [Next]_vars PROVE NeverDropped'
    OBVIOUS
  <2> USE DEF IInv, TypeOK, NeverDropped
  <2>1. CASE NoPong
    <3>1. pongGraceMs \in Nat /\ Interval \in Nat /\ pongGraceMs' = pongGraceMs
      BY <2>1, SocketAssumption DEF NoPong, Abandon
    <3>2. since = Interval /\ since <= pongGraceMs
      BY <2>1 DEF NoPong, HeartbeatDue, GracePending
    <3>3. ~(pongGraceMs < Interval)
      BY ONLY <3>1, <3>2
    <3> QED
      BY <3>1, <3>3
  <2>2. CASE SocketCloses \/ SendFails \/ Stop
    BY <2>2 DEF SocketCloses, SendFails, Stop, Abandon, Leave
  <2>3. CASE DialOpens \/ DialFails \/ RetryFires \/ FrameArrives \/ SendHeartbeat
             \/ GraceEnds \/ GoesMute \/ Tick
    BY <2>3 DEF DialOpens, DialFails, RetryFires, FrameArrives, SendHeartbeat,
                GraceEnds, GoesMute, Tick, surround
  <2>4. ASSUME NEW s \in draining, OldSocketCloses(s) PROVE NeverDropped'
    BY <2>4 DEF OldSocketCloses
  <2>5. CASE UNCHANGED vars
    BY <2>5 DEF vars, surround
  <2> QED
    BY <2>1, <2>2, <2>3, <2>4, <2>5 DEF Next
<1> QED
  BY Invariance, <1>1, <1>2, PTL DEF Spec

\* Whatever the times, a socket given up for want of a pong had been silent
\* for a whole interval: a talking coordinator is never dropped.
THEOREM SilenceOnly ==
    ASSUME MaxQuiet >= Interval
    PROVE  Spec => OnlySilenceDrops
<1> DEFINE Drops == \A s \in Sockets :
              (left[s] # "no pong" /\ left'[s] = "no pong") => quiet >= Interval
<1>1. Init => SilentSinceAsked
  BY DEF Init, SilentSinceAsked
<1>2. TypeOK /\ SilentSinceAsked /\ [Next]_vars => SilentSinceAsked'
  <2> SUFFICES ASSUME TypeOK, SilentSinceAsked, [Next]_vars, awaiting'
               PROVE  since' <= quiet'
    BY DEF SilentSinceAsked
  <2> USE SocketAssumption DEF TypeOK, SilentSinceAsked
  <2>1. CASE DialOpens \/ FrameArrives \/ SocketCloses \/ NoPong \/ SendFails \/ GraceEnds
    BY <2>1 DEF DialOpens, FrameArrives, SocketCloses, NoPong, SendFails, GraceEnds,
                Abandon, Leave
  <2>2. CASE DialFails \/ RetryFires \/ GoesMute
    BY <2>2 DEF DialFails, RetryFires, GoesMute, timers, surround
  <2>3. CASE SendHeartbeat \/ Stop
    BY <2>3 DEF SendHeartbeat, Stop, Leave, surround
  <2>4. CASE Tick
    BY <2>4 DEF Tick, HeartbeatDue
  <2>5. ASSUME NEW s \in draining, OldSocketCloses(s) PROVE since' <= quiet'
    BY <2>5 DEF OldSocketCloses, timers
  <2>6. CASE UNCHANGED vars
    BY <2>6 DEF vars, timers, surround
  <2> QED
    BY <2>1, <2>2, <2>3, <2>4, <2>5, <2>6 DEF Next
<1>3. TypeOK /\ SilentSinceAsked /\ [Next]_vars => Drops \/ UNCHANGED vars
  <2> SUFFICES ASSUME TypeOK, SilentSinceAsked, [Next]_vars,
                      NEW s \in Sockets, left[s] # "no pong", left'[s] = "no pong"
               PROVE  quiet >= Interval
    OBVIOUS
  <2> USE DEF TypeOK
  <2>1. CASE NoPong
    BY <2>1, SocketAssumption DEF NoPong, HeartbeatDue, SilentSinceAsked
  <2>2. CASE SocketCloses \/ SendFails \/ Stop
    BY <2>2 DEF SocketCloses, SendFails, Stop, Abandon, Leave
  <2>3. CASE DialOpens \/ DialFails \/ RetryFires \/ FrameArrives \/ SendHeartbeat
             \/ GraceEnds \/ GoesMute \/ Tick
    BY <2>3 DEF DialOpens, DialFails, RetryFires, FrameArrives, SendHeartbeat,
                GraceEnds, GoesMute, Tick, surround
  <2>4. ASSUME NEW d \in draining, OldSocketCloses(d) PROVE FALSE
    BY <2>4 DEF OldSocketCloses
  <2>5. CASE UNCHANGED vars
    BY <2>5 DEF vars, surround
  <2> QED
    BY <2>1, <2>2, <2>3, <2>4, <2>5 DEF Next
<1> QED
  BY TypeCorrect, <1>1, <1>2, <1>3, PTL DEF Spec, OnlySilenceDrops
=============================================================================
