----------------------- MODULE HostConnectionsProofs -----------------------
(***************************************************************************)
(* What holds of HostConnections for every set of hosts and sockets.       *)
(*                                                                         *)
(* That there is one socket per host, and that the registry says what the  *)
(* sockets say, holds whatever the runtime does: each is inductive.  That  *)
(* a socket nobody told to close is its key holder's, and that a revoked   *)
(* host is out, need three things said of the runtime and the core         *)
(* (Orderly), and under them two more facts: a request that awaits         *)
(* WebCrypto still sees the record it read (RequestsSeeTheRecord), and the *)
(* host of an open socket is in the live picture (OpenIsConnected), which  *)
(* is why the timer and a look cannot retire it.                           *)
(***************************************************************************)
EXTENDS HostConnections, TLAPS

LEMMA HostConstants ==
    /\ NoSocket \notin Sockets /\ \A h \in CoreRevoked : h \in Hosts
    /\ \A s \in Sockets : HostOf[s] \in Hosts
    /\ \A h \in Hosts : SocketsOf(h) \subseteq Sockets
    /\ \A h \in Hosts : \A s \in SocketsOf(h) : HostOf[s] = h
  BY ConnectionsAssumption DEF SocketsOf

LEMMA Ticks == MaxTicks \in Nat /\ MaxTicks >= 1 /\ MaxKeys \in Nat
  BY ConnectionsAssumption

LEMMA ClockTypes == HostsTypeOK => moment \in 0..MaxTicks /\ moment \in Nat /\ 0 \in 0..MaxTicks
<1> SUFFICES ASSUME moment \in 1..MaxTicks
             PROVE  moment \in 0..MaxTicks /\ moment \in Nat /\ 0 \in 0..MaxTicks
  BY DEF HostsTypeOK
<1> QED
  BY Ticks

\* What a close leaves open was open, and was not asked to close.
LEMMA CloseFacts ==
    ASSUME NEW S
    PROVE  \A s \in Sockets :
              /\ Close(S)[s] = "open" <=> sock[s] = "open" /\ s \notin S
              /\ s \notin S => Close(S)[s] = sock[s]
  BY DEF Close

---------------------------------------------------------------------------
(* Type correctness *)

\* Whatever set of hosts is retired, the types stay.
LEMMA RetireTypes ==
    ASSUME HostsTypeOK, NEW H, NEW how \in {"goodbye", "stranded", "pool lost it"}, Retire(H, how)
    PROVE  /\ status' \in [Hosts -> {"none", "live", "revoked"}]
           /\ key' \in [Hosts -> 0..MaxKeys]
           /\ keyEnded' \in [Hosts -> {"not", "removed", "goodbye", "stranded", "pool lost it"}]
           /\ registry' \in [Hosts -> {"absent", "connected", "offline"}]
           /\ sendTo' \in [Hosts -> Sockets \cup {NoSocket}]
           /\ dropped' \subseteq Ephemeral
<1> USE DEF HostsTypeOK, Retire
<1>1. status' \in [Hosts -> {"none", "live", "revoked"}]
  OBVIOUS
<1>2. keyEnded' \in [Hosts -> {"not", "removed", "goodbye", "stranded", "pool lost it"}]
  OBVIOUS
<1>3. registry' \in [Hosts -> {"absent", "connected", "offline"}]
  OBVIOUS
<1>4. sendTo' \in [Hosts -> Sockets \cup {NoSocket}]
  OBVIOUS
<1> QED
  BY <1>1, <1>2, <1>3, <1>4

LEMMA CloseTypes ==
    ASSUME HostsTypeOK, NEW S
    PROVE  Close(S) \in [Sockets -> {"unused", "open", "closing", "gone"}]
  BY DEF HostsTypeOK, Close

LEMMA LastUpTypes ==
    ASSUME HostsTypeOK
    PROVE  LastUp \in [Hosts -> 0..MaxTicks]
<1>1. moment \in 0..MaxTicks
  BY ClockTypes
<1> QED
  BY <1>1 DEF HostsTypeOK, LastUp

LEMMA RevokeTypes ==
    ASSUME HostsTypeOK, NEW h \in Hosts, RevokesHost(h)
    PROVE  /\ status' \in [Hosts -> {"none", "live", "revoked"}]
           /\ key' \in [Hosts -> 0..MaxKeys]
           /\ keyEnded' \in [Hosts -> {"not", "removed", "goodbye", "stranded", "pool lost it"}]
           /\ registry' \in [Hosts -> {"absent", "connected", "offline"}]
           /\ sendTo' \in [Hosts -> Sockets \cup {NoSocket}]
           /\ dropped' \subseteq Ephemeral
           /\ lastUp' \in [Hosts -> 0..MaxTicks]
           /\ sockets' \in [Hosts -> Sockets \cup {NoSocket}]
           /\ pool' \in [Hosts -> {"unseen", "listed", "lacking"}]
<1> USE DEF HostsTypeOK, RevokesHost
<1>1. moment \in 0..MaxTicks
  BY ClockTypes
<1>2. lastUp' \in [Hosts -> 0..MaxTicks]
  BY <1>1
<1> QED
  BY <1>2

LEMMA HostsTypeInit == HostsInit => HostsTypeOK
<1> SUFFICES ASSUME HostsInit PROVE HostsTypeOK
  OBVIOUS
<1>1. 1 \in 1..MaxTicks /\ 0 \in 0..MaxTicks /\ 0 \in 0..MaxKeys
  BY ConnectionsAssumption
<1> QED
  BY <1>1 DEF HostsInit, HostsTypeOK

LEMMA HostsTypeStep == HostsTypeOK /\ [HostsNext]_hostVars => HostsTypeOK'
<1> SUFFICES ASSUME HostsTypeOK, [HostsNext]_hostVars PROVE HostsTypeOK'
  OBVIOUS
<1>a. moment \in 0..MaxTicks /\ 0 \in 0..MaxTicks
  BY ClockTypes
<1>1. ASSUME NEW h \in Hosts, StartEnrol(h) PROVE HostsTypeOK'
  <2>1. status[h] \in {"none", "live", "revoked"}
    BY DEF HostsTypeOK
  <2>2. [host |-> h, before |-> status[h]] \in Enrolment
    BY <2>1 DEF Enrolment
  <2>3. enrolling' \subseteq Enrolment
    BY <1>1, <2>2 DEF HostsTypeOK, StartEnrol
  <2> QED
    BY <1>1, <2>3 DEF HostsTypeOK, StartEnrol, wires, picture, storage
<1>2. ASSUME NEW h \in Hosts, StartProof(h) PROVE HostsTypeOK'
  <2>1. [host |-> h, key |-> key[h]] \in Proof
    BY DEF HostsTypeOK, Proof
  <2>2. proving' \subseteq Proof
    BY <1>2, <2>1 DEF HostsTypeOK, StartProof
  <2> QED
    BY <1>2, <2>2 DEF HostsTypeOK, StartProof, storage, wires, picture
<1>3. ASSUME NEW e \in enrolling, FinishEnrol(e) PROVE HostsTypeOK'
  <2>1. e.host \in Hosts
    BY DEF HostsTypeOK, Enrolment
  <2>2. sock' \in [Sockets -> {"unused", "open", "closing", "gone"}]
    BY <1>3, CloseTypes DEF FinishEnrol, HostsTypeOK
  <2>3. key' \in [Hosts -> 0..MaxKeys]
    <3>1. key[e.host] \in 0..MaxKeys /\ key[e.host] < MaxKeys
      BY <1>3, <2>1 DEF FinishEnrol, HostsTypeOK
    <3>2. key[e.host] + 1 \in 0..MaxKeys
      BY ONLY <3>1, Ticks
    <3> QED
      BY <1>3, <3>2 DEF FinishEnrol, HostsTypeOK
  <2>4. /\ status' \in [Hosts -> {"none", "live", "revoked"}]
        /\ keyEnded' \in [Hosts -> {"not", "removed", "goodbye", "stranded", "pool lost it"}]
    BY <1>3, <2>1 DEF FinishEnrol, HostsTypeOK
  <2> QED
    BY <1>3, <2>2, <2>3, <2>4 DEF FinishEnrol, HostsTypeOK, picture
<1>4. ASSUME NEW p \in proving, RefuseProof(p) PROVE HostsTypeOK'
  BY <1>4 DEF HostsTypeOK, RefuseProof, storage, wires, picture
<1>5. ASSUME NEW p \in proving, NEW s \in Sockets, AcceptHost(p, s) PROVE HostsTypeOK'
  <2>1. p.host \in Hosts /\ p.key \in 0..MaxKeys
    BY DEF HostsTypeOK, Proof
  <2>2. sock' \in [Sockets -> {"unused", "open", "closing", "gone"}]
    BY <1>5, CloseTypes DEF AcceptHost
  <2>3. /\ provedBy' \in [Sockets -> 0..MaxKeys]
        /\ sockets' \in [Hosts -> Sockets \cup {NoSocket}]
        /\ registry' \in [Hosts -> {"absent", "connected", "offline"}]
        /\ sendTo' \in [Hosts -> Sockets \cup {NoSocket}]
        /\ lastUp' \in [Hosts -> 0..MaxTicks]
    BY <1>5, <1>a, <2>1 DEF AcceptHost, HostsTypeOK
  <2> QED
    BY <1>5, <2>2, <2>3 DEF AcceptHost, HostsTypeOK, storage
<1>6. ASSUME NEW s \in Sockets, CorpseCloses(s) PROVE HostsTypeOK'
  BY <1>6 DEF HostsTypeOK, CorpseCloses, storage, awaited, picture
<1>7. ASSUME NEW s \in Sockets, NEW goodbye \in BOOLEAN, SocketCloses(s, goodbye)
      PROVE  HostsTypeOK'
  <2> DEFINE h == HostOf[s]
  <2>1. h \in Hosts
    BY HostConstants
  <2>2. /\ sock' \in [Sockets -> {"unused", "open", "closing", "gone"}]
        /\ sockets' \in [Hosts -> Sockets \cup {NoSocket}]
        /\ lastUp' \in [Hosts -> 0..MaxTicks]
        /\ UNCHANGED <<moment, awaited, provedBy>>
    BY <1>7, <1>a, <2>1 DEF SocketCloses, HostsTypeOK
  <2>3. /\ status' \in [Hosts -> {"none", "live", "revoked"}]
        /\ key' \in [Hosts -> 0..MaxKeys]
        /\ keyEnded' \in [Hosts -> {"not", "removed", "goodbye", "stranded", "pool lost it"}]
        /\ registry' \in [Hosts -> {"absent", "connected", "offline"}]
        /\ sendTo' \in [Hosts -> Sockets \cup {NoSocket}]
        /\ dropped' \subseteq Ephemeral
        /\ missing' \in [Hosts -> 0..MaxTicks]
        /\ pool' \in [Hosts -> {"unseen", "listed", "lacking"}]
    <3>1. CASE registry[h] = "absent"
      BY <1>7, <3>1 DEF SocketCloses, HostsTypeOK, storage
    <3>2. CASE registry[h] # "absent" /\ h \notin Ephemeral
      BY <1>7, <3>2 DEF SocketCloses, HostsTypeOK, storage
    <3>3. CASE registry[h] # "absent" /\ h \in Ephemeral /\ goodbye
      <4>1. Retire({h}, "goodbye") /\ missing' = [missing EXCEPT ![h] = 0] /\ UNCHANGED pool
        BY <1>7, <3>3 DEF SocketCloses
      <4> QED
        BY <1>a, <4>1, RetireTypes DEF HostsTypeOK
    <3>4. CASE registry[h] # "absent" /\ h \in Ephemeral /\ ~goodbye
                 /\ pool[h] = "lacking" /\ status[h] = "live"
      <4>1. /\ Retire({h}, "pool lost it") /\ missing' = [missing EXCEPT ![h] = 0]
            /\ pool' = [pool EXCEPT ![h] = "unseen"]
        BY <1>7, <3>4 DEF SocketCloses
      <4> QED
        BY <1>a, <4>1, RetireTypes DEF HostsTypeOK
    <3>5. CASE registry[h] # "absent" /\ h \in Ephemeral /\ ~goodbye
                 /\ ~(pool[h] = "lacking" /\ status[h] = "live")
      <4>1. /\ registry' = [registry EXCEPT ![h] = "absent"]
            /\ sendTo' = [sendTo EXCEPT ![h] = NoSocket]
            /\ dropped' = dropped \cup {h}
            /\ UNCHANGED <<storage, missing, pool>>
        BY <1>7, <3>5 DEF SocketCloses
      <4> QED
        BY <3>5, <4>1 DEF HostsTypeOK, storage
    <3> QED
      BY <3>1, <3>2, <3>3, <3>4, <3>5
  <2> QED
    BY <2>2, <2>3 DEF HostsTypeOK, awaited
<1>8. ASSUME NEW h \in Hosts, Revoke(h) PROVE HostsTypeOK'
  <2>1. RevokesHost(h) /\ sock' = Close(SocketsOf(h)) /\ UNCHANGED <<moment, awaited, provedBy, missing>>
    BY <1>8 DEF Revoke
  <2> QED
    BY <2>1, RevokeTypes, CloseTypes DEF HostsTypeOK, awaited
<1>9. ASSUME NEW h \in CoreRevoked, RevokeInCore(h) PROVE HostsTypeOK'
  <2>1. RevokesHost(h) /\ UNCHANGED <<moment, awaited, wires>>
    BY <1>9 DEF RevokeInCore
  <2>2. missing' \in [Hosts -> 0..MaxTicks]
    BY <1>9, <1>a DEF RevokeInCore, HostsTypeOK
  <2> QED
    BY HostConstants, <2>1, <2>2, RevokeTypes DEF HostsTypeOK, awaited, wires
<1>10. ASSUME NEW h \in Hosts, LookLists(h) PROVE HostsTypeOK'
  BY <1>10 DEF HostsTypeOK, LookLists, storage, awaited, wires
<1>11. ASSUME NEW h \in Hosts, LookLacks(h) PROVE HostsTypeOK'
  <2>1. UNCHANGED <<moment, awaited, wires, sockets, lastUp>>
    BY <1>11 DEF LookLacks
  <2>2. CASE status[h] = "live" /\ registry[h] # "connected"
    <3>1. /\ Retire({h}, "pool lost it") /\ missing' = [missing EXCEPT ![h] = 0]
          /\ pool' = [pool EXCEPT ![h] = "unseen"]
      BY <1>11, <2>2 DEF LookLacks
    <3>2. /\ missing' \in [Hosts -> 0..MaxTicks]
          /\ pool' \in [Hosts -> {"unseen", "listed", "lacking"}]
      BY <1>a, <3>1 DEF HostsTypeOK
    <3> QED
      BY <2>1, <3>1, <3>2, RetireTypes DEF HostsTypeOK, awaited, wires
  <2>3. CASE ~(status[h] = "live" /\ registry[h] # "connected")
    BY <1>11, <2>1, <2>3 DEF LookLacks, HostsTypeOK, storage, awaited, wires
  <2> QED
    BY <2>2, <2>3
<1>12. CASE RetireStranded
  <2>1. \E H : Retire(H, "stranded")
    BY <1>12 DEF RetireStranded
  <2>2. missing' \in [Hosts -> 0..MaxTicks]
    BY <1>12, <1>a DEF RetireStranded, HostsTypeOK
  <2>3. UNCHANGED <<moment, awaited, wires, sockets, pool, lastUp>>
    BY <1>12 DEF RetireStranded
  <2> QED
    BY <2>1, <2>2, <2>3, RetireTypes DEF HostsTypeOK, awaited, wires
<1>13. ASSUME NEW h \in dropped, ForgetDropped(h) PROVE HostsTypeOK'
  BY <1>13 DEF HostsTypeOK, ForgetDropped, storage, awaited, wires
<1>14. ASSUME ForgetAll,
              sock' \in [Sockets -> {"unused", "open", "closing", "gone"}],
              sockets' \in [Hosts -> Sockets \cup {NoSocket}],
              sendTo' \in [Hosts -> Sockets \cup {NoSocket}],
              registry' \in [Hosts -> {"absent", "connected", "offline"}]
       PROVE  HostsTypeOK'
  <2>1. missing' \in [Hosts -> 0..MaxTicks] /\ lastUp' \in [Hosts -> 0..MaxTicks]
    BY <1>14, <1>a, LastUpTypes DEF ForgetAll
  <2> QED
    BY <1>14, <2>1 DEF ForgetAll, HostsTypeOK, storage
<1>15. CASE Wake
  <2>1. ForgetAll /\ \E S : sock' = Close(S)
    BY <1>15 DEF Wake
  <2>2. PICK last \in [Hosts -> Sockets \cup {NoSocket}] :
           /\ sockets' = last /\ sendTo' = last
           /\ registry' = [h \in Hosts |-> IF last[h] = NoSocket THEN "absent" ELSE "connected"]
    BY <1>15 DEF Wake
  <2>3. registry' \in [Hosts -> {"absent", "connected", "offline"}]
    BY <2>2
  <2> QED
    BY <1>14, <2>1, <2>2, <2>3, CloseTypes
<1>16. CASE Deploy
  <2>1. ForgetAll /\ sock' \in [Sockets -> {"unused", "open", "closing", "gone"}]
    BY <1>16 DEF Deploy
  <2>2. /\ sockets' \in [Hosts -> Sockets \cup {NoSocket}]
        /\ sendTo' \in [Hosts -> Sockets \cup {NoSocket}]
        /\ registry' \in [Hosts -> {"absent", "connected", "offline"}]
    BY <1>16 DEF Deploy
  <2> QED
    BY <1>14, <2>1, <2>2
<1>17. CASE TimeGoesOn
  <2>1. moment' \in 1..MaxTicks
    <3>1. moment \in 1..MaxTicks /\ moment < MaxTicks /\ moment' = moment + 1
      BY <1>17 DEF TimeGoesOn, HostsTypeOK
    <3> QED
      BY ONLY <3>1, Ticks
  <2> QED
    BY <1>17, <2>1 DEF HostsTypeOK, TimeGoesOn, storage, awaited, wires, picture
<1>18. CASE UNCHANGED hostVars
  BY <1>18 DEF HostsTypeOK, hostVars, storage, awaited, wires, picture
<1> QED
  BY <1>1, <1>2, <1>3, <1>4, <1>5, <1>6, <1>7, <1>8, <1>9, <1>10, <1>11, <1>12,
     <1>13, <1>15, <1>16, <1>17, <1>18 DEF HostsNext

\* The storage, the requests in flight, the sockets and the object's memory
\* keep to their types, through any number of keys, rebuilds and deploys.
THEOREM HostsTypes == HostsSpec => []HostsTypeOK
  BY HostsTypeInit, HostsTypeStep, PTL DEF HostsSpec

---------------------------------------------------------------------------
(* One socket per host, and a registry that follows it *)

LEMMA WakeFacts ==
    ASSUME Wake
    PROVE  /\ \A s \in Sockets : sock'[s] = "open" =>
                /\ sock[s] = "open"
                /\ sockets'[HostOf[s]] = s
           /\ \A h \in Hosts :
                /\ sendTo'[h] = sockets'[h]
                /\ registry'[h] = IF sockets'[h] = NoSocket THEN "absent" ELSE "connected"
                /\ sockets'[h] # NoSocket =>
                      /\ sockets'[h] \in SocketsOf(h)
                      /\ sock[sockets'[h]] = "open"
                            \/ (ClosingListed /\ sock[sockets'[h]] = "closing")
<1> DEFINE listed == {s \in Sockets : sock[s] = "open" \/ (ClosingListed /\ sock[s] = "closing")}
<1>1. PICK last \in [Hosts -> Sockets \cup {NoSocket}] :
         /\ \A h \in Hosts : IF listed \cap SocketsOf(h) = {} THEN last[h] = NoSocket
                             ELSE last[h] \in listed \cap SocketsOf(h)
         /\ sockets' = last /\ sendTo' = last
         /\ registry' = [h \in Hosts |-> IF last[h] = NoSocket THEN "absent" ELSE "connected"]
         /\ sock' = Close(listed \ {last[h] : h \in Hosts})
  BY DEF Wake
<1>2. ASSUME NEW s \in Sockets, sock'[s] = "open"
      PROVE  sock[s] = "open" /\ sockets'[HostOf[s]] = s
  <2>1. sock[s] = "open" /\ s \notin listed \ {last[h] : h \in Hosts}
    BY <1>1, <1>2, CloseFacts
  <2>2. PICK h \in Hosts : s = last[h]
    BY <2>1
  <2>3. s \in SocketsOf(h)
    BY <1>1, <2>2, HostConstants
  <2> QED
    BY <1>1, <2>1, <2>2, <2>3, HostConstants
<1>3. ASSUME NEW h \in Hosts, sockets'[h] # NoSocket
      PROVE  sockets'[h] \in listed \cap SocketsOf(h)
  BY <1>1, <1>3
<1> QED
  BY <1>1, <1>2, <1>3

LEMMA OpenIsCurrentStep == HostsTypeOK /\ OpenIsCurrent /\ [HostsNext]_hostVars => OpenIsCurrent'
<1> SUFFICES ASSUME HostsTypeOK, OpenIsCurrent, [HostsNext]_hostVars,
                    NEW t \in Sockets, sock'[t] = "open"
             PROVE  sockets'[HostOf[t]] = t
  BY DEF OpenIsCurrent
<1> USE HostConstants DEF OpenIsCurrent
<1>1. ASSUME NEW h \in Hosts,
             StartEnrol(h) \/ StartProof(h) \/ LookLists(h) \/ LookLacks(h) \/ RevokeInCore(h)
      PROVE  sockets'[HostOf[t]] = t
  BY <1>1 DEF StartEnrol, StartProof, LookLists, LookLacks, RevokeInCore, RevokesHost,
              wires, picture
<1>2. ASSUME NEW e \in enrolling, FinishEnrol(e) PROVE sockets'[HostOf[t]] = t
  BY <1>2, CloseFacts DEF FinishEnrol, picture
<1>3. ASSUME NEW p \in proving, RefuseProof(p) PROVE sockets'[HostOf[t]] = t
  BY <1>3 DEF RefuseProof, wires, picture
<1>4. ASSUME NEW p \in proving, NEW s \in Sockets, AcceptHost(p, s)
      PROVE  sockets'[HostOf[t]] = t
  <2>1. t # s => sock[t] = "open" /\ t # sockets[p.host]
    BY <1>4, CloseFacts DEF AcceptHost
  <2>2. p.host \in Hosts /\ sockets \in [Hosts -> Sockets \cup {NoSocket}]
    BY DEF HostsTypeOK, Proof
  <2> QED
    BY <1>4, <2>1, <2>2 DEF AcceptHost
<1>5. ASSUME NEW s \in Sockets, CorpseCloses(s) PROVE sockets'[HostOf[t]] = t
  BY <1>5 DEF CorpseCloses, picture
<1>6. ASSUME NEW s \in Sockets, NEW goodbye \in BOOLEAN, SocketCloses(s, goodbye)
      PROVE  sockets'[HostOf[t]] = t
  <2>1. sock' = [sock EXCEPT ![s] = "gone"] /\ sockets' = [sockets EXCEPT ![HostOf[s]] = NoSocket]
        /\ sockets[HostOf[s]] = s
    BY <1>6 DEF SocketCloses
  <2> QED
    BY <2>1 DEF HostsTypeOK
<1>7. ASSUME NEW h \in Hosts, Revoke(h) PROVE sockets'[HostOf[t]] = t
  BY <1>7, CloseFacts DEF Revoke, RevokesHost
<1>8. CASE RetireStranded
  BY <1>8 DEF RetireStranded, wires
<1>9. ASSUME NEW h \in dropped, ForgetDropped(h) PROVE sockets'[HostOf[t]] = t
  BY <1>9 DEF ForgetDropped, wires
<1>10. CASE Wake
  BY <1>10, WakeFacts
<1>11. CASE Deploy
  BY <1>11 DEF Deploy
<1>12. CASE TimeGoesOn \/ UNCHANGED hostVars
  BY <1>12 DEF TimeGoesOn, hostVars, wires, picture
<1> QED
  BY HostConstants, <1>1, <1>2, <1>3, <1>4, <1>5, <1>6, <1>7, <1>8, <1>9, <1>10, <1>11,
     <1>12 DEF HostsNext

\* However connections, keys and rebuilds overlap, a host has one socket that
\* nobody told to close, and it is the one the coordinator knows it by
\* (#acceptHost retires the previous one; the constructor keeps one of each).
THEOREM OneSocketPerHost == HostsSpec => []OpenIsCurrent
<1>1. HostsInit => OpenIsCurrent
  BY DEF HostsInit, OpenIsCurrent
<1> QED
  BY HostsTypes, <1>1, OpenIsCurrentStep, PTL DEF HostsSpec

\* Where a retirement leaves the live picture.
LEMMA RetireFacts ==
    ASSUME HostsTypeOK, NEW H, NEW how, Retire(H, how), NEW h \in Hosts
    PROVE  /\ registry'[h] = IF h \in H THEN "absent" ELSE registry[h]
           /\ h \notin H => sendTo'[h] = sendTo[h]
           /\ status'[h] = IF h \in H /\ status[h] = "live" THEN "revoked" ELSE status[h]
           /\ keyEnded'[h] = IF h \in H /\ status[h] = "live" THEN how ELSE keyEnded[h]
           /\ key' = key /\ dropped' = dropped \ H
  BY DEF Retire

\* What the close of a host's current socket comes to, whichever way it goes.
LEMMA SocketClosesFacts ==
    ASSUME HostsTypeOK, NEW s \in Sockets, NEW goodbye \in BOOLEAN, SocketCloses(s, goodbye)
    PROVE  /\ MayInterleave /\ UNCHANGED <<enrolling, proving, provedBy, key>>
           /\ sockets[HostOf[s]] = s /\ sockets'[HostOf[s]] = NoSocket
           /\ \A t \in Sockets : sock'[t] = "open" => sock[t] = "open" /\ t # s
           /\ registry'[HostOf[s]] # "connected"
           /\ registry[HostOf[s]] = "absent" => registry'[HostOf[s]] = "absent"
           /\ dropped' \subseteq dropped
                 \cup (IF registry[HostOf[s]] = "absent" THEN {} ELSE {HostOf[s]})
           /\ status'[HostOf[s]] = status[HostOf[s]]
                 \/ (registry'[HostOf[s]] = "absent" /\ HostOf[s] \notin dropped')
           /\ keyEnded'[HostOf[s]] = keyEnded[HostOf[s]] \/ registry'[HostOf[s]] = "absent"
           /\ \A h \in Hosts : h # HostOf[s] =>
                 /\ sockets'[h] = sockets[h] /\ registry'[h] = registry[h]
                 /\ sendTo'[h] = sendTo[h] /\ status'[h] = status[h] /\ keyEnded'[h] = keyEnded[h]
<1> DEFINE h == HostOf[s]
<1>1. h \in Hosts
  BY HostConstants
<1>2. /\ MayInterleave /\ UNCHANGED <<moment, awaited, provedBy>>
      /\ sock' = [sock EXCEPT ![s] = "gone"] /\ sockets' = [sockets EXCEPT ![h] = NoSocket]
      /\ sockets[h] = s
  BY DEF SocketCloses
<1>3. /\ sockets'[h] = NoSocket
      /\ \A g \in Hosts : g # h => sockets'[g] = sockets[g]
      /\ \A t \in Sockets : sock'[t] = "open" => sock[t] = "open" /\ t # s
  BY <1>1, <1>2 DEF HostsTypeOK
<1>4. CASE registry[h] = "absent"
  <2>1. UNCHANGED <<storage, registry, sendTo, dropped>>
    BY <1>4 DEF SocketCloses
  <2>2. UNCHANGED <<status, key, keyEnded, enrolling, proving, provedBy>>
    BY <1>2, <2>1 DEF storage, awaited
  <2> QED
    BY <1>2, <1>3, <1>4, <2>1, <2>2
<1>5. CASE registry[h] # "absent" /\ h \notin Ephemeral
  <2>1. /\ registry' = [registry EXCEPT ![h] = "offline"]
        /\ sendTo' = [sendTo EXCEPT ![h] = NoSocket]
        /\ UNCHANGED <<storage, dropped>>
    BY <1>5 DEF SocketCloses
  <2>2. registry'[h] = "offline" /\ \A g \in Hosts : g # h => registry'[g] = registry[g] /\ sendTo'[g] = sendTo[g]
    BY <1>1, <2>1 DEF HostsTypeOK
  <2>3. UNCHANGED <<status, key, keyEnded, enrolling, proving, provedBy>>
    BY <1>2, <2>1 DEF storage, awaited
  <2>4. dropped' = dropped
    BY <2>1
  <2> HIDE DEF h
  <2> QED
    BY <1>2, <1>3, <1>5, <2>2, <2>3, <2>4 DEF h
<1>6. ASSUME NEW how, Retire({h}, how), registry[h] # "absent"
      PROVE  /\ registry'[h] = "absent" /\ dropped' = dropped \ {h} /\ key' = key
             /\ \A g \in Hosts : g # h =>
                   /\ registry'[g] = registry[g] /\ sendTo'[g] = sendTo[g]
                   /\ status'[g] = status[g] /\ keyEnded'[g] = keyEnded[g]
  BY <1>1, <1>6, RetireFacts
<1>7. CASE registry[h] # "absent" /\ h \in Ephemeral /\ goodbye
  <2>1. Retire({h}, "goodbye")
    BY <1>7 DEF SocketCloses
  <2> QED
    BY <1>2, <1>3, <1>6, <1>7, <2>1 DEF awaited
<1>8. CASE registry[h] # "absent" /\ h \in Ephemeral /\ ~goodbye
             /\ pool[h] = "lacking" /\ status[h] = "live"
  <2>1. Retire({h}, "pool lost it")
    BY <1>8 DEF SocketCloses
  <2> QED
    BY <1>2, <1>3, <1>6, <1>8, <2>1 DEF awaited
<1>9. CASE registry[h] # "absent" /\ h \in Ephemeral /\ ~goodbye
             /\ ~(pool[h] = "lacking" /\ status[h] = "live")
  <2>1. /\ registry' = [registry EXCEPT ![h] = "absent"]
        /\ sendTo' = [sendTo EXCEPT ![h] = NoSocket]
        /\ dropped' = dropped \cup {h}
        /\ UNCHANGED storage
    BY <1>9 DEF SocketCloses
  <2>2. registry'[h] = "absent" /\ \A g \in Hosts : g # h => registry'[g] = registry[g] /\ sendTo'[g] = sendTo[g]
    BY <1>1, <2>1 DEF HostsTypeOK
  <2>3. UNCHANGED <<status, key, keyEnded, enrolling, proving, provedBy>>
    BY <1>2, <2>1 DEF storage, awaited
  <2>4. dropped' = dropped \cup {h}
    BY <2>1
  <2> QED
    BY <1>2, <1>3, <1>9, <2>2, <2>3, <2>4
<1> QED
  BY <1>4, <1>5, <1>7, <1>8, <1>9

\* What revokeHost comes to.
LEMMA RevokeFacts ==
    ASSUME HostsTypeOK, NEW r \in Hosts, RevokesHost(r)
    PROVE  /\ registry'[r] = "absent" /\ dropped' = dropped \ {r}
           /\ keyEnded'[r] = "removed" /\ UNCHANGED <<sockets, key>>
           /\ \A h \in Hosts : h # r =>
                 /\ registry'[h] = registry[h] /\ sendTo'[h] = sendTo[h]
                 /\ status'[h] = status[h] /\ keyEnded'[h] = keyEnded[h]
  BY DEF RevokesHost, HostsTypeOK

LEMMA RegistryStep == HostsTypeOK /\ RegistryFollowsSocket /\ [HostsNext]_hostVars => RegistryFollowsSocket'
<1> SUFFICES ASSUME HostsTypeOK, RegistryFollowsSocket, [HostsNext]_hostVars, NEW g \in Hosts
             PROVE  /\ registry'[g] = "connected" => sockets'[g] # NoSocket /\ sendTo'[g] = sockets'[g]
                    /\ registry'[g] = "offline" => sockets'[g] = NoSocket
  BY DEF RegistryFollowsSocket
<1> DEFINE Goal == /\ registry'[g] = "connected" => sockets'[g] # NoSocket /\ sendTo'[g] = sockets'[g]
                   /\ registry'[g] = "offline" => sockets'[g] = NoSocket
<1>0. /\ registry[g] = "connected" => sockets[g] # NoSocket /\ sendTo[g] = sockets[g]
      /\ registry[g] = "offline" => sockets[g] = NoSocket
  BY DEF RegistryFollowsSocket
<1>1. CASE UNCHANGED <<registry, sockets, sendTo>>
  BY <1>0, <1>1
<1>2. ASSUME NEW h \in Hosts, StartEnrol(h) \/ StartProof(h) \/ LookLists(h) PROVE Goal
  BY <1>1, <1>2 DEF StartEnrol, StartProof, LookLists, picture
<1>3. ASSUME NEW e \in enrolling, FinishEnrol(e) PROVE Goal
  BY <1>1, <1>3 DEF FinishEnrol, picture
<1>4. ASSUME NEW p \in proving, RefuseProof(p) PROVE Goal
  BY <1>1, <1>4 DEF RefuseProof, picture
<1>5. ASSUME NEW p \in proving, NEW s \in Sockets, AcceptHost(p, s) PROVE Goal
  <2>1. p.host \in Hosts /\ s # NoSocket
    BY HostConstants DEF HostsTypeOK, Proof
  <2> QED
    BY <1>0, <1>5, <2>1 DEF AcceptHost, HostsTypeOK
<1>6. ASSUME NEW s \in Sockets, CorpseCloses(s) PROVE Goal
  BY <1>1, <1>6 DEF CorpseCloses, picture
<1>7. ASSUME NEW s \in Sockets, NEW goodbye \in BOOLEAN, SocketCloses(s, goodbye) PROVE Goal
  BY <1>0, <1>7, SocketClosesFacts
<1>8. ASSUME NEW H, NEW how, Retire(H, how), UNCHANGED sockets PROVE Goal
  BY <1>0, <1>8, RetireFacts
<1>9. ASSUME NEW h \in Hosts, Revoke(h) \/ RevokeInCore(h) PROVE Goal
  <2>1. RevokesHost(h)
    BY <1>9 DEF Revoke, RevokeInCore
  <2> QED
    BY <1>0, <2>1, RevokeFacts
<1>10. ASSUME NEW h \in Hosts, LookLacks(h) PROVE Goal
  BY <1>1, <1>8, <1>10 DEF LookLacks
<1>11. CASE RetireStranded
  BY <1>8, <1>11 DEF RetireStranded
<1>12. ASSUME NEW h \in dropped, ForgetDropped(h) PROVE Goal
  BY <1>1, <1>12 DEF ForgetDropped
<1>13. CASE Wake
  BY <1>13, WakeFacts
<1>14. CASE Deploy
  BY <1>14 DEF Deploy
<1>15. CASE TimeGoesOn \/ UNCHANGED hostVars
  BY <1>1, <1>15 DEF TimeGoesOn, hostVars, picture
<1> QED
  BY HostConstants, <1>2, <1>3, <1>4, <1>5, <1>6, <1>7, <1>9, <1>10, <1>11, <1>12, <1>13,
     <1>14, <1>15 DEF HostsNext

\* A connected entry writes to its host's current socket, and a host with one
\* is never listed as offline (the `sockets.get(hostId) !== socket` test of
\* #socketGone), whatever the runtime does between the steps of a request.
THEOREM RegistryIsTrue == HostsSpec => []RegistryFollowsSocket
<1>1. HostsInit => RegistryFollowsSocket
  BY DEF HostsInit, RegistryFollowsSocket
<1> QED
  BY HostsTypes, <1>1, RegistryStep, PTL DEF HostsSpec

---------------------------------------------------------------------------
(* No live machine is retired *)

\* The host of a socket nobody told to close is in the live picture, unless
\* the core took it out.
OpenIsConnected ==
    \A s \in Sockets :
        sock[s] = "open" /\ HostOf[s] \notin CoreRevoked => registry[HostOf[s]] = "connected"

\* A host that is not connected has no socket to lose, so the timer and a look
\* retire nobody who holds one.
RetiresNobodyHere(H) == \A h \in H : registry[h] # "connected"

LEMMA OpenIsConnectedStep ==
    HostsTypeOK /\ OpenIsCurrent /\ OpenIsConnected /\ [HostsNext]_hostVars => OpenIsConnected'
<1> SUFFICES ASSUME HostsTypeOK, OpenIsCurrent, OpenIsConnected, [HostsNext]_hostVars,
                    NEW t \in Sockets, sock'[t] = "open", HostOf[t] \notin CoreRevoked
             PROVE  registry'[HostOf[t]] = "connected"
  BY DEF OpenIsConnected
<1> DEFINE Goal == registry'[HostOf[t]] = "connected"
<1>0. HostOf[t] \in Hosts /\ (sock[t] = "open" => registry[HostOf[t]] = "connected")
  BY HostConstants DEF OpenIsConnected
<1>1. CASE sock[t] = "open" /\ registry' = registry
  BY <1>0, <1>1
<1>2. ASSUME NEW h \in Hosts, StartEnrol(h) \/ StartProof(h) \/ LookLists(h) PROVE Goal
  BY <1>1, <1>2 DEF StartEnrol, StartProof, LookLists, wires, picture
<1>3. ASSUME NEW e \in enrolling, FinishEnrol(e) PROVE Goal
  BY <1>1, <1>3, CloseFacts DEF FinishEnrol, picture
<1>4. ASSUME NEW p \in proving, RefuseProof(p) PROVE Goal
  BY <1>1, <1>4 DEF RefuseProof, wires, picture
<1>5. ASSUME NEW p \in proving, NEW s \in Sockets, AcceptHost(p, s) PROVE Goal
  <2>1. p.host \in Hosts
    BY DEF HostsTypeOK, Proof
  <2>2. t # s => sock[t] = "open"
    BY <1>5, CloseFacts DEF AcceptHost
  <2> QED
    BY <1>0, <1>5, <2>1, <2>2 DEF AcceptHost, HostsTypeOK
<1>6. ASSUME NEW s \in Sockets, CorpseCloses(s) PROVE Goal
  BY <1>1, <1>6 DEF CorpseCloses, picture, HostsTypeOK
<1>7. ASSUME NEW s \in Sockets, NEW goodbye \in BOOLEAN, SocketCloses(s, goodbye) PROVE Goal
  <2>1. sock[t] = "open" /\ t # s
    BY <1>7, SocketClosesFacts
  <2>2. HostOf[t] # HostOf[s]
    BY <1>7, <2>1, SocketClosesFacts DEF OpenIsCurrent
  <2> QED
    BY <1>0, <1>7, <2>1, <2>2, SocketClosesFacts
<1>8. ASSUME NEW h \in Hosts, Revoke(h) PROVE Goal
  <2>1. RevokesHost(h) /\ sock' = Close(SocketsOf(h))
    BY <1>8 DEF Revoke
  <2>2. sock[t] = "open" /\ t \notin SocketsOf(h)
    BY <2>1, CloseFacts
  <2>3. HostOf[t] # h
    BY <2>2 DEF SocketsOf
  <2> QED
    BY <1>0, <2>1, <2>2, <2>3, RevokeFacts
<1>9. ASSUME NEW h \in CoreRevoked, RevokeInCore(h) PROVE Goal
  <2>1. RevokesHost(h) /\ h # HostOf[t] /\ sock' = sock
    BY <1>9 DEF RevokeInCore, wires
  <2> QED
    BY HostConstants, <1>0, <2>1, RevokeFacts
<1>10. ASSUME NEW H, NEW how, Retire(H, how), RetiresNobodyHere(H), UNCHANGED sock PROVE Goal
  BY <1>0, <1>10, RetireFacts DEF RetiresNobodyHere
<1>11. ASSUME NEW h \in Hosts, LookLacks(h) PROVE Goal
  <2>1. UNCHANGED sock
    BY <1>11 DEF LookLacks, wires
  <2>2. CASE status[h] = "live" /\ registry[h] # "connected"
    <3>1. Retire({h}, "pool lost it")
      BY <1>11, <2>2 DEF LookLacks
    <3>2. RetiresNobodyHere({h})
      BY <2>2 DEF RetiresNobodyHere
    <3> QED
      BY <1>10, <2>1, <3>1, <3>2
  <2>3. CASE ~(status[h] = "live" /\ registry[h] # "connected")
    BY <1>1, <1>11, <2>1, <2>3 DEF LookLacks
  <2> QED
    BY <2>2, <2>3
<1>12. CASE RetireStranded
  BY <1>10, <1>12 DEF RetireStranded, wires, RetiresNobodyHere
<1>13. ASSUME NEW h \in dropped, ForgetDropped(h) PROVE Goal
  BY <1>1, <1>13 DEF ForgetDropped, wires
<1>14. CASE Wake
  BY <1>0, <1>14, WakeFacts, HostConstants
<1>15. CASE Deploy
  BY <1>15 DEF Deploy
<1>16. CASE TimeGoesOn \/ UNCHANGED hostVars
  BY <1>1, <1>16 DEF TimeGoesOn, hostVars, wires, picture
<1> QED
  BY <1>2, <1>3, <1>4, <1>5, <1>6, <1>7, <1>8, <1>9, <1>11, <1>12, <1>13, <1>14, <1>15, <1>16
     DEF HostsNext

LEMMA OpenIsConnectedHolds == HostsSpec => []OpenIsConnected
<1>1. HostsInit => OpenIsConnected
  BY DEF HostsInit, OpenIsConnected
<1> QED
  BY HostsTypes, OneSocketPerHost, <1>1, OpenIsConnectedStep, PTL DEF HostsSpec

\* A goodbye, a look at the pool and the timer end the key of no machine that
\* holds a socket, whatever the order of events (core.js: "a wrong retirement
\* revokes a live machine's key").
THEOREM NobodyLiveIsRetired == HostsSpec => NoLiveRetirement
<1> DEFINE Kept == \A h \in Hosts \ CoreRevoked :
              (keyEnded[h] = "not" /\ keyEnded'[h] \in {"goodbye", "stranded", "pool lost it"})
                  => /\ registry'[h] = "absent"
                     /\ \A s \in SocketsOf(h) : sock'[s] # "open"
<1>1. HostsTypeOK /\ OpenIsConnected' /\ [HostsNext]_hostVars => Kept \/ UNCHANGED hostVars
  <2> SUFFICES ASSUME HostsTypeOK, OpenIsConnected', [HostsNext]_hostVars, NEW h \in Hosts \ CoreRevoked,
                      keyEnded[h] = "not", keyEnded'[h] \in {"goodbye", "stranded", "pool lost it"}
               PROVE  registry'[h] = "absent"
    BY HostConstants DEF OpenIsConnected
  <2>1. CASE keyEnded' = keyEnded
    BY <2>1
  <2>2. ASSUME NEW g \in Hosts, StartEnrol(g) \/ StartProof(g) \/ LookLists(g) PROVE FALSE
    BY <2>1, <2>2 DEF StartEnrol, StartProof, LookLists, storage
  <2>3. ASSUME NEW e \in enrolling, FinishEnrol(e) PROVE FALSE
    <3>1. keyEnded' = [keyEnded EXCEPT ![e.host] = "not"]
      BY <2>3 DEF FinishEnrol
    <3> QED
      BY <3>1 DEF HostsTypeOK
  <2>4. ASSUME NEW p \in proving,
               RefuseProof(p) \/ \E s \in Sockets : AcceptHost(p, s)
        PROVE  FALSE
    BY <2>1, <2>4 DEF RefuseProof, AcceptHost, storage
  <2>5. ASSUME NEW s \in Sockets, NEW goodbye \in BOOLEAN, SocketCloses(s, goodbye)
        PROVE  registry'[h] = "absent"
    <3>1. CASE HostOf[s] = h
      BY <2>5, <3>1, SocketClosesFacts
    <3>2. CASE HostOf[s] # h
      BY <2>5, <3>2, SocketClosesFacts
    <3> QED
      BY <3>1, <3>2
  <2>6. ASSUME NEW s \in Sockets, CorpseCloses(s) PROVE FALSE
    BY <2>1, <2>6 DEF CorpseCloses, storage
  <2>7. ASSUME NEW g \in Hosts, Revoke(g) \/ RevokeInCore(g) PROVE FALSE
    <3>1. RevokesHost(g)
      BY <2>7 DEF Revoke, RevokeInCore
    <3> QED
      BY <3>1, RevokeFacts
  <2>8. ASSUME NEW H, NEW how, Retire(H, how) PROVE registry'[h] = "absent"
    BY <2>8, RetireFacts
  <2>9. ASSUME NEW g \in Hosts, LookLacks(g) PROVE registry'[h] = "absent"
    BY <2>1, <2>8, <2>9 DEF LookLacks, storage
  <2>10. CASE RetireStranded
    BY <2>8, <2>10 DEF RetireStranded
  <2>11. ASSUME NEW g \in dropped, ForgetDropped(g) PROVE FALSE
    BY <2>1, <2>11 DEF ForgetDropped, storage
  <2>12. CASE Wake \/ Deploy
    BY <2>1, <2>12 DEF Wake, Deploy, ForgetAll, storage
  <2>13. CASE TimeGoesOn \/ UNCHANGED hostVars
    BY <2>1, <2>13 DEF TimeGoesOn, hostVars, storage
  <2> QED
    BY HostConstants, <2>2, <2>3, <2>4, <2>5, <2>6, <2>7, <2>9, <2>10, <2>11, <2>12,
       <2>13 DEF HostsNext
<1> QED
  BY HostsTypes, OpenIsConnectedHolds, <1>1, PTL DEF HostsSpec, NoLiveRetirement

---------------------------------------------------------------------------
(* Whose socket it is, and who is out *)

\* What the last two results need said of what is not this code: a request is
\* handled to its end, a rebuilt object is handed no closing socket, and the
\* core revokes nobody behind the object's back.
Orderly == ~CryptoYields /\ ~ClosingListed /\ CoreRevoked = {}

\* One request awaits WebCrypto at a time, and the record it read is the one
\* in storage.
RequestsSeeTheRecord ==
    /\ enrolling = {} \/ proving = {}
    /\ \A e, f \in enrolling : e = f
    /\ \A e \in enrolling : e.before = status[e.host]
    /\ \A p \in proving : status[p.host] = "live" /\ p.key = key[p.host]

\* With nothing in flight there is no record to be wrong about.
LEMMA NothingInFlight == enrolling = {} /\ proving = {} => RequestsSeeTheRecord
  BY DEF RequestsSeeTheRecord

LEMMA RequestsStep ==
    ASSUME Orderly
    PROVE  HostsTypeOK /\ RequestsSeeTheRecord /\ [HostsNext]_hostVars => RequestsSeeTheRecord'
<1> SUFFICES ASSUME HostsTypeOK, RequestsSeeTheRecord, [HostsNext]_hostVars PROVE RequestsSeeTheRecord'
  OBVIOUS
<1>1. MayInterleave => enrolling = {} /\ proving = {}
  BY DEF Orderly, MayInterleave
<1>2. CASE UNCHANGED <<enrolling, proving, status, key>>
  BY <1>2 DEF RequestsSeeTheRecord
<1>3. CASE MayInterleave /\ UNCHANGED <<enrolling, proving>>
  BY <1>1, <1>3 DEF RequestsSeeTheRecord
<1>4. ASSUME NEW h \in Hosts, StartEnrol(h) PROVE RequestsSeeTheRecord'
  BY <1>1, <1>4 DEF StartEnrol, storage, RequestsSeeTheRecord
<1>5. ASSUME NEW h \in Hosts, StartProof(h) PROVE RequestsSeeTheRecord'
  BY <1>1, <1>5 DEF StartProof, storage, RequestsSeeTheRecord
<1>6. ASSUME NEW e \in enrolling, FinishEnrol(e) PROVE RequestsSeeTheRecord'
  BY <1>6 DEF FinishEnrol, RequestsSeeTheRecord
<1>7. ASSUME NEW p \in proving,
             RefuseProof(p) \/ \E s \in Sockets : AcceptHost(p, s)
      PROVE  RequestsSeeTheRecord'
  BY <1>7 DEF RefuseProof, AcceptHost, storage, RequestsSeeTheRecord
<1>8. ASSUME NEW s \in Sockets,
             CorpseCloses(s) \/ \E goodbye \in BOOLEAN : SocketCloses(s, goodbye)
      PROVE  RequestsSeeTheRecord'
  BY <1>3, <1>8 DEF CorpseCloses, SocketCloses, awaited
<1>9. ASSUME NEW h \in Hosts, Revoke(h) \/ RevokeInCore(h) \/ LookLists(h) \/ LookLacks(h)
      PROVE  RequestsSeeTheRecord'
  BY <1>3, <1>9 DEF Revoke, RevokeInCore, LookLists, LookLacks, awaited
<1>10. CASE RetireStranded
  BY <1>3, <1>10 DEF RetireStranded, awaited
<1>11. ASSUME NEW h \in dropped, ForgetDropped(h) PROVE RequestsSeeTheRecord'
  BY <1>2, <1>11 DEF ForgetDropped, storage, awaited
<1>12. CASE Wake \/ Deploy
  BY <1>12, NothingInFlight DEF Wake, Deploy, ForgetAll, RequestsSeeTheRecord
<1>13. CASE TimeGoesOn \/ UNCHANGED hostVars
  BY <1>2, <1>13 DEF TimeGoesOn, hostVars, storage, awaited
<1> QED
  BY HostConstants, <1>4, <1>5, <1>6, <1>7, <1>8, <1>9, <1>10, <1>11, <1>12, <1>13 DEF HostsNext

LEMMA RequestsHold == ASSUME Orderly PROVE HostsSpec => []RequestsSeeTheRecord
<1>1. HostsInit => RequestsSeeTheRecord
  BY NothingInFlight DEF HostsInit
<1> QED
  BY HostsTypes, <1>1, RequestsStep, PTL DEF HostsSpec

LEMMA KeyHolderStep ==
    ASSUME Orderly
    PROVE  HostsTypeOK /\ OpenIsCurrent /\ OpenIsConnected /\ RequestsSeeTheRecord
             /\ KeyHolderOnly /\ [HostsNext]_hostVars => KeyHolderOnly'
<1> SUFFICES ASSUME HostsTypeOK, OpenIsCurrent, OpenIsConnected, RequestsSeeTheRecord,
                    KeyHolderOnly, [HostsNext]_hostVars, NEW t \in Sockets, sock'[t] = "open"
             PROVE  status'[HostOf[t]] = "live" /\ provedBy'[t] = key'[HostOf[t]]
  BY DEF KeyHolderOnly
<1> DEFINE Goal == status'[HostOf[t]] = "live" /\ provedBy'[t] = key'[HostOf[t]]
<1>0. /\ HostOf[t] \in Hosts
      /\ sock[t] = "open" => /\ status[HostOf[t]] = "live"
                             /\ provedBy[t] = key[HostOf[t]]
                             /\ registry[HostOf[t]] = "connected"
  BY HostConstants DEF KeyHolderOnly, OpenIsConnected, Orderly
<1>1. CASE sock[t] = "open" /\ UNCHANGED <<status, key, provedBy>>
  BY <1>0, <1>1
<1>2. ASSUME NEW h \in Hosts, StartEnrol(h) \/ StartProof(h) \/ LookLists(h) PROVE Goal
  BY <1>1, <1>2 DEF StartEnrol, StartProof, LookLists, wires, storage
<1>3. ASSUME NEW e \in enrolling, FinishEnrol(e) PROVE Goal
  <2>1. e.before = status[e.host]
    BY DEF RequestsSeeTheRecord
  <2>2. sock[t] = "open"
    BY <1>3, CloseFacts DEF FinishEnrol
  <2>3. HostOf[t] # e.host
    <3> SUFFICES ASSUME HostOf[t] = e.host PROVE FALSE
      OBVIOUS
    <3>1. sock' = Close(SocketsOf(e.host)) /\ t \in SocketsOf(e.host)
      BY <1>0, <1>3, <2>1, <2>2 DEF FinishEnrol, SocketsOf
    <3> QED
      BY <3>1, CloseFacts
  <2>4. /\ status' = [status EXCEPT ![e.host] = "live"]
        /\ key' = [key EXCEPT ![e.host] = @ + 1] /\ provedBy' = provedBy
    BY <1>3 DEF FinishEnrol
  <2>5. status'[HostOf[t]] = status[HostOf[t]] /\ key'[HostOf[t]] = key[HostOf[t]]
    BY <1>0, <2>3, <2>4 DEF HostsTypeOK
  <2> QED
    BY <1>0, <2>2, <2>4, <2>5
<1>4. ASSUME NEW p \in proving, RefuseProof(p) PROVE Goal
  BY <1>1, <1>4 DEF RefuseProof, wires, storage
<1>5. ASSUME NEW p \in proving, NEW s \in Sockets, AcceptHost(p, s) PROVE Goal
  <2>1. /\ HostOf[s] = p.host /\ UNCHANGED <<status, key>>
        /\ provedBy' = [provedBy EXCEPT ![s] = p.key]
    BY <1>5 DEF AcceptHost, storage
  <2>2. status[p.host] = "live" /\ p.key = key[p.host]
    BY DEF RequestsSeeTheRecord
  <2>3. CASE t = s
    BY <2>1, <2>2, <2>3 DEF HostsTypeOK
  <2>4. CASE t # s
    <3>1. sock[t] = "open"
      BY <1>5, <2>4, CloseFacts DEF AcceptHost
    <3> QED
      BY <1>0, <2>1, <2>4, <3>1 DEF HostsTypeOK
  <2> QED
    BY <2>3, <2>4
<1>6. ASSUME NEW s \in Sockets, CorpseCloses(s) PROVE Goal
  BY <1>1, <1>6 DEF CorpseCloses, storage, HostsTypeOK
<1>7. ASSUME NEW s \in Sockets, NEW goodbye \in BOOLEAN, SocketCloses(s, goodbye) PROVE Goal
  <2>1. sock[t] = "open" /\ t # s /\ UNCHANGED <<key, provedBy>>
    BY <1>7, SocketClosesFacts
  <2>2. HostOf[t] # HostOf[s]
    BY <1>7, <2>1, SocketClosesFacts DEF OpenIsCurrent
  <2>3. status'[HostOf[t]] = status[HostOf[t]]
    BY <1>0, <1>7, <2>2, SocketClosesFacts
  <2> QED
    BY <1>0, <2>1, <2>3
<1>8. ASSUME NEW h \in Hosts, Revoke(h) PROVE Goal
  <2>1. RevokesHost(h) /\ sock' = Close(SocketsOf(h)) /\ provedBy' = provedBy
    BY <1>8 DEF Revoke
  <2>2. sock[t] = "open" /\ t \notin SocketsOf(h)
    BY <2>1, CloseFacts
  <2>3. HostOf[t] # h
    BY <2>2 DEF SocketsOf
  <2> QED
    BY <1>0, <2>1, <2>2, <2>3, RevokeFacts
<1>9. ASSUME NEW h \in CoreRevoked, RevokeInCore(h) PROVE Goal
  BY <1>9 DEF RevokeInCore, Orderly
<1>10. ASSUME NEW H, NEW how, Retire(H, how), RetiresNobodyHere(H), UNCHANGED <<sock, provedBy>>
       PROVE  Goal
  BY <1>0, <1>10, RetireFacts DEF RetiresNobodyHere
<1>11. ASSUME NEW h \in Hosts, LookLacks(h) PROVE Goal
  <2>1. UNCHANGED <<sock, provedBy>>
    BY <1>11 DEF LookLacks, wires
  <2>2. CASE status[h] = "live" /\ registry[h] # "connected"
    <3>1. Retire({h}, "pool lost it")
      BY <1>11, <2>2 DEF LookLacks
    <3>2. RetiresNobodyHere({h})
      BY <2>2 DEF RetiresNobodyHere
    <3> QED
      BY <1>10, <2>1, <3>1, <3>2
  <2>3. CASE ~(status[h] = "live" /\ registry[h] # "connected")
    BY <1>1, <1>11, <2>1, <2>3 DEF LookLacks, storage
  <2> QED
    BY <2>2, <2>3
<1>12. CASE RetireStranded
  BY <1>10, <1>12 DEF RetireStranded, wires, RetiresNobodyHere
<1>13. ASSUME NEW h \in dropped, ForgetDropped(h) PROVE Goal
  BY <1>1, <1>13 DEF ForgetDropped, wires, storage
<1>14. CASE Wake
  <2>1. sock[t] = "open"
    BY <1>14, WakeFacts
  <2> QED
    BY <1>1, <1>14, <2>1 DEF Wake, ForgetAll, storage
<1>15. CASE Deploy
  BY <1>15 DEF Deploy
<1>16. CASE TimeGoesOn \/ UNCHANGED hostVars
  BY <1>1, <1>16 DEF TimeGoesOn, hostVars, wires, storage
<1> QED
  BY <1>2, <1>3, <1>4, <1>5, <1>6, <1>7, <1>8, <1>9, <1>11, <1>12, <1>13, <1>14, <1>15, <1>16
     DEF HostsNext

\* A socket nobody told to close was opened with the key its name has now,
\* and the name is live: one machine per name, through re-keyings, revocations
\* and retirements, provided a request is handled to its end and every
\* revocation closes the sockets.
THEOREM OnlyTheKeyHolder == ASSUME Orderly PROVE HostsSpec => []KeyHolderOnly
<1>1. HostsInit => KeyHolderOnly
  BY DEF HostsInit, KeyHolderOnly
<1> QED
  BY HostsTypes, OneSocketPerHost, OpenIsConnectedHolds, RequestsHold, <1>1,
     KeyHolderStep, PTL DEF HostsSpec

LEMMA RevokedStep ==
    ASSUME Orderly
    PROVE  HostsTypeOK /\ RequestsSeeTheRecord /\ KeyHolderOnly /\ RevokedIsOut /\ [HostsNext]_hostVars
             => RevokedIsOut'
<1> SUFFICES ASSUME HostsTypeOK, RequestsSeeTheRecord, KeyHolderOnly, RevokedIsOut, [HostsNext]_hostVars,
                    NEW g \in Hosts, registry'[g] # "absent" \/ g \in dropped'
             PROVE  status'[g] = "live"
  BY DEF RevokedIsOut
<1> DEFINE Goal == status'[g] = "live"
<1>0. registry[g] # "absent" \/ g \in dropped => status[g] = "live"
  BY DEF RevokedIsOut
<1>1. CASE UNCHANGED <<status, registry>> /\ dropped' \subseteq dropped
  BY <1>0, <1>1
<1>2. ASSUME NEW h \in Hosts, StartEnrol(h) \/ StartProof(h) \/ LookLists(h) PROVE Goal
  BY <1>1, <1>2 DEF StartEnrol, StartProof, LookLists, storage, picture
<1>3. ASSUME NEW e \in enrolling, FinishEnrol(e) PROVE Goal
  <2>1. status' = [status EXCEPT ![e.host] = "live"] /\ UNCHANGED <<registry, dropped>>
    BY <1>3 DEF FinishEnrol, picture
  <2> QED
    BY <1>0, <2>1 DEF HostsTypeOK
<1>4. ASSUME NEW p \in proving, RefuseProof(p) PROVE Goal
  BY <1>1, <1>4 DEF RefuseProof, storage, picture
<1>5. ASSUME NEW p \in proving, NEW s \in Sockets, AcceptHost(p, s) PROVE Goal
  <2>1. /\ UNCHANGED status /\ dropped' = dropped \ {p.host}
        /\ registry' = [registry EXCEPT ![p.host] = "connected"]
    BY <1>5 DEF AcceptHost, storage
  <2>2. status[p.host] = "live"
    BY DEF RequestsSeeTheRecord
  <2> QED
    BY <1>0, <2>1, <2>2 DEF HostsTypeOK
<1>6. ASSUME NEW s \in Sockets, CorpseCloses(s) PROVE Goal
  BY <1>1, <1>6 DEF CorpseCloses, storage, picture
<1>7. ASSUME NEW s \in Sockets, NEW goodbye \in BOOLEAN, SocketCloses(s, goodbye) PROVE Goal
  <2>1. CASE g = HostOf[s]
    BY <1>0, <1>7, <2>1, SocketClosesFacts
  <2>2. CASE g # HostOf[s]
    <3>1. registry'[g] = registry[g] /\ status'[g] = status[g]
      BY <1>7, <2>2, SocketClosesFacts
    <3>2. g \in dropped' => g \in dropped
      BY <1>7, <2>2, SocketClosesFacts
    <3> QED
      BY <1>0, <3>1, <3>2
  <2> QED
    BY <2>1, <2>2
<1>8. ASSUME NEW h \in Hosts, Revoke(h) \/ RevokeInCore(h) PROVE Goal
  <2>1. RevokesHost(h)
    BY <1>8 DEF Revoke, RevokeInCore
  <2> QED
    BY <1>0, <2>1, RevokeFacts
<1>9. ASSUME NEW H, NEW how, Retire(H, how) PROVE Goal
  BY <1>0, <1>9, RetireFacts
<1>10. ASSUME NEW h \in Hosts, LookLacks(h) PROVE Goal
  BY <1>1, <1>9, <1>10 DEF LookLacks, storage
<1>11. CASE RetireStranded
  BY <1>9, <1>11 DEF RetireStranded
<1>12. ASSUME NEW h \in dropped, ForgetDropped(h) PROVE Goal
  BY <1>1, <1>12 DEF ForgetDropped, storage
<1>13. CASE Wake
  <2>1. dropped' = {} /\ status' = status
    BY <1>13 DEF Wake, ForgetAll, storage
  <2>2. registry'[g] = IF sockets'[g] = NoSocket THEN "absent" ELSE "connected"
    BY <1>13, WakeFacts
  <2>3. sockets'[g] # NoSocket
    BY <2>1, <2>2
  <2>4. sockets'[g] \in SocketsOf(g) /\ sock[sockets'[g]] = "open"
    BY <1>13, <2>3, WakeFacts DEF Orderly
  <2> QED
    BY <2>1, <2>4, HostConstants DEF KeyHolderOnly
<1>14. CASE Deploy
  BY <1>14 DEF Deploy, ForgetAll
<1>15. CASE TimeGoesOn \/ UNCHANGED hostVars
  BY <1>1, <1>15 DEF TimeGoesOn, hostVars, storage, picture
<1> QED
  BY HostConstants, <1>2, <1>3, <1>4, <1>5, <1>6, <1>7, <1>8, <1>10, <1>11, <1>12, <1>13,
     <1>14, <1>15 DEF HostsNext

\* A revoked host is in no list, not even as one that may dial back, and no
\* rebuild brings it back (revokeHost takes key and live picture in one act),
\* under the same three provisos; connections_taken shows what the last of
\* them is needed for.
THEOREM RevokedStaysOut == ASSUME Orderly PROVE HostsSpec => []RevokedIsOut
<1>1. HostsInit => RevokedIsOut
  BY DEF HostsInit, RevokedIsOut
<1> QED
  BY HostsTypes, RequestsHold, OnlyTheKeyHolder, <1>1, RevokedStep, PTL DEF HostsSpec
=============================================================================
