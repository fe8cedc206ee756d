-------------------------- MODULE HostConnections --------------------------
(***************************************************************************)
(* Which machines are in the fleet, and over which socket: the host half   *)
(* of the coordinator Durable Object.                                      *)
(*   - HostIdentities (src/src/fleet/coordinator/hosts.js): who is         *)
(*     enrolled, under which key, and who was revoked; kept in storage.    *)
(*   - FleetCoordinator (src/worker/src/fleet-do.js): a socket per host,   *)
(*     the upgrade, the close events, and the rebuild after hibernation.   *)
(*   - HostRegistry (registry.js) and CoordinatorCore#hostConnected,       *)
(*     #hostDisconnected, #revokeHost, #retireStranded (core.js): what the *)
(*     fleet believes of each host; kept in memory only.                   *)
(*                                                                         *)
(* A close that the coordinator asks for is an event later, so a socket    *)
(* that was superseded or revoked goes on existing for a while.  Two       *)
(* things are left to the runtime and are parameters here: whether another *)
(* request may run while one awaits WebCrypto, and whether a rebuilt       *)
(* object is handed back a socket that was told to close and has not.      *)
(***************************************************************************)
EXTENDS Naturals, FiniteSets

CONSTANTS
    Hosts,          \* host ids
    Ephemeral,      \* those enrolled as ephemeral: runners, a pool's machines
    CoreRevoked,    \* those core.js revokes by itself: a machine whose ticket
                    \* was presented twice, a pool's own machine made again
    Sockets,        \* every connection there will ever be
    HostOf,         \* the host each is tagged with
    NoSocket,       \* not a socket
    CryptoYields,   \* other events are handled during an await of WebCrypto
    ClosingListed,  \* getWebSockets() returns sockets close() was called on
    Stranded,       \* STRANDED_MS
    MaxKeys,        \* bound: enrolments of one name
    MaxTicks        \* bound: the last tick

ASSUME ConnectionsAssumption ==
    /\ Ephemeral \subseteq Hosts /\ CoreRevoked \subseteq Hosts
    /\ HostOf \in [Sockets -> Hosts] /\ NoSocket \notin Sockets
    /\ CryptoYields \in BOOLEAN /\ ClosingListed \in BOOLEAN
    /\ Stranded \in Nat \ {0} /\ MaxKeys \in Nat /\ MaxTicks \in Nat \ {0}

VARIABLES
    moment,     \* ticks since the start
    \* storage
    status,     \* hostIds: "none", "live" or "revoked"
    key,        \* how often the name was enrolled, which is whose key it is
    \* requests awaiting WebCrypto
    enrolling,  \* HostIdentities#enrol: the name, and what was there before
    proving,    \* HostIdentities#prove: the name, and the key it is checked with
    \* the sockets
    sock,       \* "unused", "open", "closing" (close() was called) or "gone"
    provedBy,   \* the key each was opened with
    \* the Durable Object's memory
    sockets,    \* this.sockets: the socket of each host
    registry,   \* registry.hosts: "absent", "connected" or "offline"
    sendTo,     \* the socket an entry's `send` writes to
    dropped,    \* registry.dropped: temporary hosts that may dial back
    missing,    \* missingSince: the tick a pass first missed it, 0 for none
    pool,       \* a pool's machine, by the last look: "unseen", "listed", "lacking"
    \* history
    lastUp,     \* when the fleet last had it connected
    keyEnded    \* how its key last stopped being good

storage  == <<status, key, keyEnded>>
awaited  == <<enrolling, proving>>
wires    == <<sock, provedBy>>
picture  == <<sockets, registry, sendTo, dropped, missing, pool, lastUp>>
hostVars == <<moment, storage, awaited, wires, picture>>

Enrolment == [host : Hosts, before : {"none", "live", "revoked"}]
Proof     == [host : Hosts, key : 0..MaxKeys]

HostsTypeOK ==
    /\ moment \in 1..MaxTicks
    /\ status \in [Hosts -> {"none", "live", "revoked"}]
    /\ key \in [Hosts -> 0..MaxKeys]
    /\ enrolling \subseteq Enrolment /\ proving \subseteq Proof
    /\ sock \in [Sockets -> {"unused", "open", "closing", "gone"}]
    /\ provedBy \in [Sockets -> 0..MaxKeys]
    /\ sockets \in [Hosts -> Sockets \cup {NoSocket}]
    /\ registry \in [Hosts -> {"absent", "connected", "offline"}]
    /\ sendTo \in [Hosts -> Sockets \cup {NoSocket}]
    /\ dropped \subseteq Ephemeral
    /\ missing \in [Hosts -> 0..MaxTicks]
    /\ pool \in [Hosts -> {"unseen", "listed", "lacking"}]
    /\ lastUp \in [Hosts -> 0..MaxTicks]
    /\ keyEnded \in [Hosts -> {"not", "removed", "goodbye", "stranded", "pool lost it"}]

SocketsOf(h) == {s \in Sockets : HostOf[s] = h}

\* A new request or event may be handled now.
MayInterleave == CryptoYields \/ (enrolling = {} /\ proving = {})

\* socket.close() on each of these; on one already closing it does nothing.
Close(S) ==
    [s \in Sockets |-> IF s \in S /\ sock[s] = "open" THEN "closing" ELSE sock[s]]

---------------------------------------------------------------------------
(* Enrolment: POST /api/enroll/host, and the other doors to enrol() *)

\* enrol()'s checks passed: the name is new, or live and the pin was minted
\* for it, or revoked and the pin is one that readmits.  The record is
\* written after an await of the key's fingerprint.
StartEnrol(h) ==
    /\ MayInterleave
    /\ key[h] + Cardinality({e \in enrolling : e.host = h}) < MaxKeys
    /\ enrolling' = enrolling \cup {[host |-> h, before |-> status[h]]}
    /\ UNCHANGED <<moment, storage, proving, wires, picture>>

\* Mutant: the machine with the old key stays connected.
FinishEnrolUnclosed(e) ==
    /\ key[e.host] < MaxKeys
    /\ enrolling' = enrolling \ {e}
    /\ status' = [status EXCEPT ![e.host] = "live"]
    /\ key' = [key EXCEPT ![e.host] = @ + 1]
    /\ keyEnded' = [keyEnded EXCEPT ![e.host] = "not"]
    /\ UNCHANGED <<moment, proving, wires, picture>>

\* A fresh record over whatever is there; the sockets of a replaced key are
\* told to close.
FinishEnrol(e) ==
    /\ key[e.host] < MaxKeys
    /\ enrolling' = enrolling \ {e}
    /\ status' = [status EXCEPT ![e.host] = "live"]
    /\ key' = [key EXCEPT ![e.host] = @ + 1]
    /\ keyEnded' = [keyEnded EXCEPT ![e.host] = "not"]
    /\ sock' = IF e.before = "live" THEN Close(SocketsOf(e.host)) ELSE sock
    /\ UNCHANGED <<moment, proving, provedBy, picture>>

---------------------------------------------------------------------------
(* The upgrade: #acceptHost *)

\* prove(): the host is enrolled and not revoked; its record is held across
\* the awaits that check the nonce and the signature.
StartProof(h) ==
    /\ MayInterleave
    /\ status[h] = "live"
    /\ proving' = proving \cup {[host |-> h, key |-> key[h]]}
    /\ UNCHANGED <<moment, storage, enrolling, wires, picture>>

RefuseProof(p) ==
    /\ proving' = proving \ {p}
    /\ UNCHANGED <<moment, storage, enrolling, wires, picture>>

\* Mutant: the connection it replaces is left open.
AcceptBesides(p, s) ==
    LET h == p.host
    IN  /\ HostOf[s] = h /\ sock[s] = "unused"
        /\ proving' = proving \ {p}
        /\ sock' = [sock EXCEPT ![s] = "open"]
        /\ provedBy' = [provedBy EXCEPT ![s] = p.key]
        /\ sockets' = [sockets EXCEPT ![h] = s]
        /\ registry' = [registry EXCEPT ![h] = "connected"]
        /\ sendTo' = [sendTo EXCEPT ![h] = s]
        /\ dropped' = dropped \ {h}
        /\ lastUp' = [lastUp EXCEPT ![h] = moment]
        /\ UNCHANGED <<moment, storage, enrolling, missing, pool>>

\* The signature matched: accept the socket, retire the one it replaces,
\* make it the host's, and hostConnected.
AcceptHost(p, s) ==
    LET h == p.host
    IN  /\ HostOf[s] = h /\ sock[s] = "unused"
        /\ proving' = proving \ {p}
        /\ sock' = [Close({sockets[h]}) EXCEPT ![s] = "open"]
        /\ provedBy' = [provedBy EXCEPT ![s] = p.key]
        /\ sockets' = [sockets EXCEPT ![h] = s]
        /\ registry' = [registry EXCEPT ![h] = "connected"]
        /\ sendTo' = [sendTo EXCEPT ![h] = s]
        /\ dropped' = dropped \ {h}
        /\ lastUp' = [lastUp EXCEPT ![h] = moment]
        /\ UNCHANGED <<moment, storage, enrolling, missing, pool>>

---------------------------------------------------------------------------
(* A host leaves *)

\* ephemeralHostRetired, for every host of H: key, entry and memory of it.
Retire(H, how) ==
    /\ status' = [h \in Hosts |-> IF h \in H /\ status[h] = "live" THEN "revoked" ELSE status[h]]
    /\ keyEnded' = [h \in Hosts |-> IF h \in H /\ status[h] = "live" THEN how ELSE keyEnded[h]]
    /\ registry' = [h \in Hosts |-> IF h \in H THEN "absent" ELSE registry[h]]
    /\ sendTo' = [h \in Hosts |-> IF h \in H THEN NoSocket ELSE sendTo[h]]
    /\ dropped' = dropped \ H
    /\ UNCHANGED key

\* Mutant: the close of a superseded socket marks its host offline.
CorpseIsNews(s) ==
    /\ MayInterleave
    /\ sock[s] \in {"open", "closing"}
    /\ sockets[HostOf[s]] # s
    /\ sock' = [sock EXCEPT ![s] = "gone"]
    /\ registry' = [registry EXCEPT ![HostOf[s]] = "offline"]
    /\ UNCHANGED <<moment, storage, awaited, provedBy,
                   sockets, sendTo, dropped, missing, pool, lastUp>>

\* webSocketClose or webSocketError of a socket that is not its host's
\* current one: "a corpse, not the connection".
CorpseCloses(s) ==
    /\ MayInterleave
    /\ sock[s] \in {"open", "closing"}
    /\ sockets[HostOf[s]] # s
    /\ sock' = [sock EXCEPT ![s] = "gone"]
    /\ UNCHANGED <<moment, storage, awaited, provedBy, picture>>

\* The close of the current one, and hostDisconnected.  A listed box is kept
\* as offline; a temporary host is retired if it said goodbye (code 1000) or
\* its pool is known to have lost it, and remembered as dropped otherwise.
SocketCloses(s, goodbye) ==
    LET h == HostOf[s]
    IN  /\ MayInterleave
        /\ sock[s] \in {"open", "closing"}
        /\ sockets[h] = s
        /\ sock' = [sock EXCEPT ![s] = "gone"]
        /\ sockets' = [sockets EXCEPT ![h] = NoSocket]
        /\ lastUp' = IF registry[h] = "connected" THEN [lastUp EXCEPT ![h] = moment] ELSE lastUp
        /\ CASE registry[h] = "absent" ->
                  UNCHANGED <<storage, registry, sendTo, dropped, missing, pool>>
             [] registry[h] # "absent" /\ h \notin Ephemeral ->
                  /\ registry' = [registry EXCEPT ![h] = "offline"]
                  /\ sendTo' = [sendTo EXCEPT ![h] = NoSocket]
                  /\ UNCHANGED <<storage, dropped, missing, pool>>
             [] registry[h] # "absent" /\ h \in Ephemeral /\ goodbye ->
                  /\ Retire({h}, "goodbye")
                  /\ missing' = [missing EXCEPT ![h] = 0]
                  /\ UNCHANGED pool
             [] registry[h] # "absent" /\ h \in Ephemeral /\ ~goodbye
                      /\ pool[h] = "lacking" /\ status[h] = "live" ->
                  /\ Retire({h}, "pool lost it")
                  /\ missing' = [missing EXCEPT ![h] = 0]
                  /\ pool' = [pool EXCEPT ![h] = "unseen"]
             [] OTHER ->
                  /\ registry' = [registry EXCEPT ![h] = "absent"]
                  /\ sendTo' = [sendTo EXCEPT ![h] = NoSocket]
                  /\ dropped' = dropped \cup {h}
                  /\ UNCHANGED <<storage, missing, pool>>
        /\ UNCHANGED <<moment, awaited, provedBy>>

\* Mutant: the key only, as both coordinators once did.
RevokeKeyOnly(h) ==
    /\ status[h] = "live"
    /\ status' = [status EXCEPT ![h] = "revoked"]
    /\ keyEnded' = [keyEnded EXCEPT ![h] = "removed"]
    /\ UNCHANGED <<key, sockets, pool, registry, sendTo, dropped, lastUp>>

\* revokeHost: the key, and the live picture in the same act.
RevokesHost(h) ==
    /\ status[h] = "live"
    /\ status' = [status EXCEPT ![h] = "revoked"]
    /\ keyEnded' = [keyEnded EXCEPT ![h] = "removed"]
    /\ registry' = [registry EXCEPT ![h] = "absent"]
    /\ sendTo' = [sendTo EXCEPT ![h] = NoSocket]
    /\ dropped' = dropped \ {h}
    /\ lastUp' = IF registry[h] = "connected" THEN [lastUp EXCEPT ![h] = moment] ELSE lastUp
    /\ UNCHANGED <<key, sockets, pool>>

\* DELETE /api/hosts/<id>, and the last credential of a person: the route
\* closes the sockets once the core has revoked the host.
Revoke(h) ==
    /\ MayInterleave
    /\ RevokesHost(h)
    /\ sock' = Close(SocketsOf(h))
    /\ UNCHANGED <<moment, awaited, provedBy, missing>>

\* #vmTicketSpentTwice and #onHolderRemoved revoke in the core, which has no
\* sockets to close; no caller of theirs closes any.
RevokeInCore(h) ==
    /\ MayInterleave
    /\ RevokesHost(h)
    /\ missing' = IF h \in Ephemeral THEN missing ELSE [missing EXCEPT ![h] = 0]
    /\ UNCHANGED <<moment, awaited, wires>>

\* The box that holds a pool reports it with this machine on it.
LookLists(h) ==
    /\ MayInterleave
    /\ h \in Ephemeral /\ status[h] # "none"
    /\ pool' = [pool EXCEPT ![h] = "listed"]
    /\ UNCHANGED <<moment, storage, awaited, wires,
                   sockets, registry, sendTo, dropped, missing, lastUp>>

\* It reports the pool without it: a machine that is not connected is gone.
LookLacks(h) ==
    /\ MayInterleave
    /\ pool[h] = "listed"
    /\ IF status[h] = "live" /\ registry[h] # "connected"
       THEN /\ Retire({h}, "pool lost it")
            /\ missing' = [missing EXCEPT ![h] = 0]
            /\ pool' = [pool EXCEPT ![h] = "unseen"]
       ELSE /\ pool' = [pool EXCEPT ![h] = "lacking"]
            /\ UNCHANGED <<storage, registry, sendTo, dropped, missing>>
    /\ UNCHANGED <<moment, awaited, wires, sockets, lastUp>>

\* Mutant: a host that is connected is not passed over.
RetireAnyone ==
    LET away   == {h \in Ephemeral : status[h] = "live"}
        lapsed == {h \in away : missing[h] # 0 /\ moment - missing[h] >= Stranded}
    IN  /\ MayInterleave
        /\ Retire(lapsed, "stranded")
        /\ missing' = [h \in Hosts |->
              IF h \in away \ lapsed THEN IF missing[h] = 0 THEN moment ELSE missing[h]
              ELSE 0]
        /\ UNCHANGED <<moment, awaited, wires, sockets, pool, lastUp>>

\* retireStranded, on the coordinator's timer: one pass over every temporary
\* host whose key is good.
RetireStranded ==
    LET here   == {h \in Ephemeral : status[h] = "live" /\ registry[h] = "connected"}
        away   == {h \in Ephemeral : status[h] = "live" /\ registry[h] # "connected"}
        lapsed == {h \in away : missing[h] # 0 /\ moment - missing[h] >= Stranded}
    IN  /\ MayInterleave
        /\ Retire(lapsed, "stranded")
        /\ missing' = [h \in Hosts |->
              IF h \in away \ lapsed THEN IF missing[h] = 0 THEN moment ELSE missing[h]
              ELSE 0]
        /\ UNCHANGED <<moment, awaited, wires, sockets, pool, lastUp>>

\* A drop is remembered for DROPPED_TTL_MS.
ForgetDropped(h) ==
    /\ dropped' = dropped \ {h}
    /\ UNCHANGED <<moment, storage, awaited, wires,
                   sockets, registry, sendTo, missing, pool, lastUp>>

---------------------------------------------------------------------------
(* The object ends, and another takes its place *)

\* Mutant: seen a tick from now.
LastUpAhead == [h \in Hosts |-> IF registry[h] = "connected" THEN moment + 1 ELSE lastUp[h]]

LastUp == [h \in Hosts |-> IF registry[h] = "connected" THEN moment ELSE lastUp[h]]

ForgetAll ==
    /\ enrolling' = {} /\ proving' = {}
    /\ dropped' = {} /\ missing' = [h \in Hosts |-> 0]
    /\ pool' = [h \in Hosts |-> "unseen"]
    /\ lastUp' = LastUp
    /\ UNCHANGED <<moment, storage, provedBy>>

\* Hibernation: the sockets live on, and the constructor registers each it is
\* handed and closes the earlier ones of the same host.
Wake ==
    LET listed == {s \in Sockets :
                      sock[s] = "open" \/ (ClosingListed /\ sock[s] = "closing")}
    IN  \E last \in [Hosts -> Sockets \cup {NoSocket}] :
          /\ \A h \in Hosts : IF listed \cap SocketsOf(h) = {} THEN last[h] = NoSocket
                              ELSE last[h] \in listed \cap SocketsOf(h)
          /\ sockets' = last /\ sendTo' = last
          /\ registry' = [h \in Hosts |-> IF last[h] = NoSocket THEN "absent" ELSE "connected"]
          /\ sock' = Close(listed \ {last[h] : h \in Hosts})
          /\ ForgetAll

\* A deploy: "drops every socket at once, and no close reaches the
\* coordinator that comes up after it".
Deploy ==
    /\ sock' = [s \in Sockets |-> IF sock[s] = "unused" THEN "unused" ELSE "gone"]
    /\ sockets' = [h \in Hosts |-> NoSocket] /\ sendTo' = [h \in Hosts |-> NoSocket]
    /\ registry' = [h \in Hosts |-> "absent"]
    /\ ForgetAll

TimeGoesOn ==
    /\ moment < MaxTicks
    /\ moment' = moment + 1
    /\ UNCHANGED <<storage, awaited, wires, picture>>

---------------------------------------------------------------------------
(* Specification *)

HostsInit ==
    /\ moment = 1
    /\ status = [h \in Hosts |-> "none"] /\ key = [h \in Hosts |-> 0]
    /\ enrolling = {} /\ proving = {}
    /\ sock = [s \in Sockets |-> "unused"] /\ provedBy = [s \in Sockets |-> 0]
    /\ sockets = [h \in Hosts |-> NoSocket] /\ sendTo = [h \in Hosts |-> NoSocket]
    /\ registry = [h \in Hosts |-> "absent"]
    /\ dropped = {} /\ missing = [h \in Hosts |-> 0]
    /\ pool = [h \in Hosts |-> "unseen"] /\ lastUp = [h \in Hosts |-> 0]
    /\ keyEnded = [h \in Hosts |-> "not"]

HostsNext ==
    \/ \E h \in Hosts : StartEnrol(h) \/ StartProof(h)
    \/ \E e \in enrolling : FinishEnrol(e)
    \/ \E p \in proving : RefuseProof(p) \/ \E s \in Sockets : AcceptHost(p, s)
    \/ \E s \in Sockets : CorpseCloses(s) \/ \E goodbye \in BOOLEAN : SocketCloses(s, goodbye)
    \/ \E h \in Hosts : Revoke(h) \/ LookLists(h) \/ LookLacks(h)
    \/ \E h \in CoreRevoked : RevokeInCore(h)
    \/ RetireStranded
    \/ \E h \in dropped : ForgetDropped(h)
    \/ Wake \/ Deploy \/ TimeGoesOn

HostsSpec == HostsInit /\ [][HostsNext]_hostVars

---------------------------------------------------------------------------
(* Properties *)

\* ONE SOCKET PER HOST (fleet-do.js:342 and :1642).  A socket nobody told to
\* close is the one its host is known by, through reconnects, re-keyings and
\* rebuilds; no two race to be the connection.
OpenIsCurrent == \A s \in Sockets : sock[s] = "open" => sockets[HostOf[s]] = s

\* THE REGISTRY SAYS WHAT THE SOCKETS SAY (fleet-do.js:1716).  A connected
\* entry writes to its host's current socket, and a host with one is never
\* listed as offline: the late close of a superseded connection is not news.
RegistryFollowsSocket ==
    \A h \in Hosts :
        /\ registry[h] = "connected" => sockets[h] # NoSocket /\ sendTo[h] = sockets[h]
        /\ registry[h] = "offline" => sockets[h] = NoSocket

\* REVOKED IS OUT (registry.js:320, core.js:763, "a screen may not report a
\* state the system knows to be false").  A host in the live picture, or
\* remembered as one that may dial back, is one whose key is good.
RevokedIsOut ==
    \A h \in Hosts : (registry[h] # "absent" \/ h \in dropped) => status[h] = "live"

\* ONE MACHINE PER NAME (fleet-do.js:755 and :924).  A socket nobody told to
\* close was opened with the key the name has now, and the name is live.
KeyHolderOnly ==
    \A s \in Sockets : sock[s] = "open" =>
        status[HostOf[s]] = "live" /\ provedBy[s] = key[HostOf[s]]

\* "A wrong retirement revokes a live machine's key" (core.js:847).  A key is
\* ended by a goodbye, a look or the timer only when its host holds no socket.
NoLiveRetirement ==
    [][\A h \in Hosts \ CoreRevoked :
          (keyEnded[h] = "not" /\ keyEnded'[h] \in {"goodbye", "stranded", "pool lost it"})
              => /\ registry'[h] = "absent"
                 /\ \A s \in SocketsOf(h) : sock'[s] # "open"]_hostVars

\* What docs/ephemeral-hosts.md:52-60 says: a runner that dials back keeps its
\* key, and "one that never does" is retired ten minutes later.  A host the
\* timer ends has been away for as long as that.
RetiredOnlyWhenAway ==
    [][\A h \in Hosts :
          (keyEnded[h] = "not" /\ keyEnded'[h] = "stranded")
              => moment - lastUp[h] >= Stranded]_hostVars
=============================================================================
