---------------------------- MODULE SetupRelays ----------------------------
(***************************************************************************)
(* Setting up a hypervisor through somebody's phone: the relays of         *)
(* src/src/fleet/coordinator/relays.js, and the setup jobs of              *)
(* CoordinatorCore that use them (#probeThrough, #setup, #onSetupProgress, *)
(* #endSetup), with the one machine at the other end.                      *)
(*                                                                         *)
(* A relay carries one probe and then one job.  What the machine says -    *)
(* the answer to a call, a job's progress, a frame of a relay - comes down *)
(* its one socket in order; what the coordinator waits for can time out    *)
(* first, and the machine acts on a call nobody waits for any more.        *)
(***************************************************************************)
EXTENDS Naturals, FiniteSets, SequencesExt

CONSTANTS
    Relays,         \* relay ids
    Jobs,           \* setup job ids the machine makes
    MaxEach,        \* MAX_RELAYS_EACH
    MaxStreams,     \* RELAY_MAX_STREAMS
    MaxSetups,      \* MAX_SETUPS
    NoJob, NoRelay,
    MaxWire,        \* bound: frames on the machine's socket at once
    MaxRelayUpsets  \* bound: rekeys, restarts and losses of the socket

ASSUME SetupRelaysAssumption ==
    /\ NoJob \notin Jobs /\ NoRelay \notin Relays
    /\ MaxEach \in Nat \ {0} /\ MaxStreams \in Nat \ {0} /\ MaxSetups \in Nat \ {0}
    /\ MaxWire \in Nat /\ MaxRelayUpsets \in Nat

Streams == 1..MaxStreams

VARIABLES
    \* the coordinator
    relay,          \* Relays.open: each relay, or Gone
    relayCalls,     \* calls it waits on: <<relay, "probe" | "begin">>
    setups,         \* this.setups: the jobs recorded, oldest first
    begunOn,        \* the enrolment of the name each was recorded with
    enrolment,      \* which enrolment the machine's name has now
    \* the machine
    up,             \* its socket is open
    asked,          \* calls on their way to it
    probes,         \* relays it is probing through
    jobs,           \* what has become of each job
    carrier,        \* the relay each job was begun through
    wire,           \* frames from it still to be handled, in order
    \* history
    heard,          \* jobs it knows are over: told so, or it ended them
    relayUpsets

coordVars   == <<relay, relayCalls, setups, begunOn, enrolment>>
machineVars == <<up, asked, probes, jobs, carrier, wire>>
setupRelaysVars == <<coordVars, machineVars, heard, relayUpsets>>

FreshRelay == [open |-> TRUE, use |-> "idle", job |-> NoJob, streams |-> {}, opened |-> 0]
Gone  == [FreshRelay EXCEPT !.open = FALSE]
Open(r) == relay[r].open

SetupRelaysTypeOK ==
    /\ relay \in [Relays -> [open : BOOLEAN,
                             use : {"idle", "probing", "probed", "job"},
                             job : Jobs \cup {NoJob},
                             streams : SUBSET Streams,
                             opened : 0..MaxStreams]]
    /\ relayCalls \subseteq Relays \X {"probe", "begin"}
    /\ asked \subseteq Relays \X {"probe", "begin"}
    /\ setups \in Seq(Jobs) /\ Len(setups) <= MaxSetups
    /\ begunOn \in [Jobs -> Nat] /\ enrolment \in Nat
    /\ up \in BOOLEAN /\ probes \subseteq Relays
    /\ jobs \in [Jobs -> {"none", "running", "over"}]
    /\ carrier \in [Jobs -> Relays \cup {NoRelay}]
    /\ heard \subseteq Jobs /\ relayUpsets \in 0..MaxRelayUpsets

RecordedJobs == {setups[i] : i \in DOMAIN setups}

---------------------------------------------------------------------------
(* Relays, as relays.js keeps them *)

\* close: for every relay of rs that is open; both ends are told.
Closed(rel, rs) == [r \in Relays |-> IF r \in rs /\ rel[r].open THEN Gone ELSE rel[r]]

ForJob(rel, j) == {r \in Relays : rel[r].job = j}

\* An id nothing anywhere still names, as a new random one is.
Unused(r) ==
    /\ ~Open(r) /\ r \notin probes
    /\ \A c \in relayCalls \cup asked : c[1] # r
    /\ \A j \in Jobs : carrier[j] # r
    /\ \A i \in DOMAIN wire : ~("relay" \in DOMAIN wire[i] /\ wire[i].relay = r)

\* start, under openRelay: only while the machine is connected.
OpenRelay(r) ==
    /\ Unused(r) /\ up
    /\ Cardinality({q \in Relays : Open(q)}) < MaxEach
    /\ relay' = [relay EXCEPT ![r] = FreshRelay]
    /\ UNCHANGED <<relayCalls, setups, begunOn, enrolment, machineVars, heard, relayUpsets>>

\* The relay's fifteen minutes, its bytes, a frame it does not carry, or the
\* phone's socket: all close it.
RelayCloses(r) ==
    /\ Open(r)
    /\ relay' = Closed(relay, {r})
    /\ UNCHANGED <<relayCalls, setups, begunOn, enrolment, machineVars, heard, relayUpsets>>

\* fromPhone: a connection the phone could not make, or whose other end
\* hung up ("opened" and "data" change nothing that is told apart here).
PhoneEnds(r, s) ==
    /\ Open(r) /\ s \in relay[r].streams
    /\ relay' = [relay EXCEPT ![r].streams = @ \ {s}]
    /\ UNCHANGED <<relayCalls, setups, begunOn, enrolment, machineVars, heard, relayUpsets>>

\* claim, then the call to the machine; a relay whose machine has gone is closed.
RelayClaim(r, use, call) ==
    IF up
    THEN /\ relay' = [relay EXCEPT ![r].use = use]
         /\ relayCalls' = relayCalls \cup {<<r, call>>}
         /\ asked' = asked \cup {<<r, call>>}
    ELSE /\ relay' = Closed(relay, {r})
         /\ UNCHANGED <<relayCalls, asked>>

ProbeThrough(r) ==
    /\ Open(r) /\ relay[r].use = "idle"
    /\ RelayClaim(r, "probing", "probe")
    /\ UNCHANGED <<setups, begunOn, enrolment, up, probes, jobs, carrier, wire, heard, relayUpsets>>

\* #setup, a phase that makes a job.
Begin(r) ==
    /\ Open(r) /\ relay[r].use \in {"idle", "probed"}
    /\ RelayClaim(r, "job", "begin")
    /\ UNCHANGED <<setups, begunOn, enrolment, up, probes, jobs, carrier, wire, heard, relayUpsets>>

\* Mutant: a probe's connections are left to the machine.
ProbedLeavingStreams(rel, r) ==
    IF rel[r].use = "probing" THEN [rel EXCEPT ![r].use = "probed"] ELSE rel

\* probed: the probe has its answer, and its connections end with it.
Probed(rel, r) ==
    IF rel[r].use = "probing"
    THEN [rel EXCEPT ![r].use = "probed", ![r].streams = {}]
    ELSE [rel EXCEPT ![r].streams = {}]

\* What #setup does with a call that made no job: the machine was too old for
\* the phase (it says so and leaves the relay as it is), or it was refused.
NotBegun(rel, r, why) == IF why = "outdated" THEN rel ELSE Closed(rel, {r})

\* A call whose answer never came: the sender's timeout, or the socket's end.
CallFails(r, call) ==
    /\ <<r, call>> \in relayCalls
    /\ relayCalls' = relayCalls \ {<<r, call>>}
    /\ relay' = IF call = "probe" THEN Probed(relay, r) ELSE NotBegun(relay, r, "failed")
    /\ UNCHANGED <<setups, begunOn, enrolment, machineVars, heard, relayUpsets>>

---------------------------------------------------------------------------
(* Setup jobs, as the coordinator keeps them *)

\* #pruneSetups - the jobs a day old, and the oldest while there are too
\* many - then the record.
Recording(j) ==
    /\ \E old \in 0..Len(setups) :
          /\ Len(setups) - old < MaxSetups
          /\ setups' = Append(SubSeq(setups, old + 1, Len(setups)), j)
    /\ begunOn' = [begunOn EXCEPT ![j] = enrolment]

\* #setupOn: the job is the one this enrolment of the name began.
SetupOn(j) == j \in RecordedJobs /\ begunOn[j] = enrolment

\* Mutant: the relay of a job that is over is left to its time.
EndSetupAlone(j) ==
    /\ setups' = RemoveFirst(setups, j)
    /\ heard' = heard \cup {j}
    /\ relay' = relay

\* #endSetup.
EndSetup(j) ==
    /\ setups' = RemoveFirst(setups, j)
    /\ heard' = heard \cup {j}
    /\ relay' = Closed(relay, ForJob(relay, j))

\* A later phase, or a status, of a job: refused once the job is not this
\* enrolment's.  What the machine answers is queued behind what it said before.
AskStatus(j) ==
    /\ j \in RecordedJobs
    /\ IF SetupOn(j)
       THEN /\ up /\ Len(wire) < MaxWire /\ jobs[j] = "over"
            /\ wire' = Append(wire, [kind |-> "status", job |-> j])
            /\ UNCHANGED <<relay, setups, heard>>
       ELSE EndSetup(j) /\ UNCHANGED wire
    /\ UNCHANGED <<relayCalls, begunOn, enrolment, up, asked, probes, jobs, carrier, relayUpsets>>

\* revokeHost and a new key for the name, which ends no job by itself.
Rekeyed ==
    /\ relayUpsets < MaxRelayUpsets /\ relayUpsets' = relayUpsets + 1
    /\ enrolment' = enrolment + 1
    /\ UNCHANGED <<relay, relayCalls, setups, begunOn, machineVars, heard>>

RelayRevoked ==
    /\ relayUpsets < MaxRelayUpsets /\ relayUpsets' = relayUpsets + 1
    /\ enrolment' = enrolment + 1
    /\ setups' = <<>>
    /\ heard' = heard \cup RecordedJobs
    /\ relay' = Closed(relay, {r \in Relays : relay[r].job \in RecordedJobs})
    /\ UNCHANGED <<relayCalls, begunOn, machineVars>>

---------------------------------------------------------------------------
(* The machine *)

Says(f) == /\ up /\ Len(wire) < MaxWire /\ wire' = Append(wire, f)

Answers(r, call) == /\ <<r, call>> \in asked /\ up /\ asked' = asked \ {<<r, call>>}

StartsProbe(r) ==
    /\ Answers(r, "probe")
    /\ probes' = probes \cup {r}
    /\ UNCHANGED <<coordVars, up, jobs, carrier, wire, heard, relayUpsets>>

EndsProbe(r) ==
    /\ r \in probes /\ probes' = probes \ {r}
    /\ Says([kind |-> "probed", relay |-> r])
    /\ UNCHANGED <<coordVars, up, asked, jobs, carrier, heard, relayUpsets>>

MakesJob(r, j) ==
    /\ Answers(r, "begin") /\ jobs[j] = "none"
    /\ jobs' = [jobs EXCEPT ![j] = "running"]
    /\ carrier' = [carrier EXCEPT ![j] = r]
    /\ Says([kind |-> "made", relay |-> r, job |-> j])
    /\ UNCHANGED <<coordVars, up, probes, heard, relayUpsets>>

\* A refusal: "outdated" where the phase is one it does not know.
RefusesJob(r, why) ==
    /\ Answers(r, "begin")
    /\ Says([kind |-> "refused", relay |-> r, why |-> why])
    /\ UNCHANGED <<coordVars, up, probes, jobs, carrier, heard, relayUpsets>>

\* RelayStreams#open: for a probe, or for a job begun through the relay.
OpensStream(r, s) ==
    /\ r \in probes \/ \E j \in Jobs : jobs[j] = "running" /\ carrier[j] = r
    /\ Says([kind |-> "open", relay |-> r, stream |-> s])
    /\ UNCHANGED <<coordVars, up, asked, probes, jobs, carrier, heard, relayUpsets>>

EndsStream(r, s) ==
    /\ Says([kind |-> "end", relay |-> r, stream |-> s])
    /\ Open(r) /\ s \in relay[r].streams
    /\ UNCHANGED <<coordVars, up, asked, probes, jobs, carrier, heard, relayUpsets>>

\* A job ends: its progress says so and the relay is given back (done).  The
\* socket may carry neither, or the first alone.
EndsJob(j) ==
    /\ jobs[j] = "running"
    /\ jobs' = [jobs EXCEPT ![j] = "over"]
    /\ \E told \in {<<>>, <<[kind |-> "progress", job |-> j]>>,
                    <<[kind |-> "progress", job |-> j],
                      [kind |-> "done", relay |-> carrier[j]]>>} :
          /\ Len(wire) + Len(told) <= MaxWire
          /\ wire' = IF up THEN wire \o told ELSE wire
    /\ UNCHANGED <<coordVars, up, asked, probes, carrier, heard, relayUpsets>>

\* A job that is over and that nothing names any more; its id may be used as
\* a new one.
RelayForgotten(j) ==
    /\ jobs[j] = "over" /\ j \notin RecordedJobs
    /\ \A r \in Relays : relay[r].job # j
    /\ \A i \in DOMAIN wire : ~("job" \in DOMAIN wire[i] /\ wire[i].job = j)
    /\ jobs' = [jobs EXCEPT ![j] = "none"]
    /\ carrier' = [carrier EXCEPT ![j] = NoRelay]
    /\ begunOn' = [begunOn EXCEPT ![j] = 0]
    /\ heard' = heard \ {j}
    /\ UNCHANGED <<relay, relayCalls, setups, enrolment, up, asked, probes, wire, relayUpsets>>

---------------------------------------------------------------------------
(* The coordinator takes a frame *)

\* Mutant: streams are opened on any relay of the machine's.
MayOpenAnytime(r) == Open(r)

\* fromHost, op "open": only while the relay is in use.
MayOpen(r) == Open(r) /\ (relay[r].use = "probing" \/ relay[r].job # NoJob)

TakeOpen(r, s) ==
    /\ relay' = IF MayOpen(r) /\ s \notin relay[r].streams /\ relay[r].opened < MaxStreams
                THEN [relay EXCEPT ![r].streams = @ \cup {s}, ![r].opened = @ + 1]
                ELSE relay
    /\ UNCHANGED <<relayCalls, setups, begunOn, heard>>

TakeEnd(r, s) ==
    /\ relay' = [relay EXCEPT ![r].streams = @ \ {s}]
    /\ UNCHANGED <<relayCalls, setups, begunOn, heard>>

\* op "done".
TakeDone(r) ==
    /\ relay' = Closed(relay, {r})
    /\ UNCHANGED <<relayCalls, setups, begunOn, heard>>

TakeProbed(r) ==
    /\ IF <<r, "probe">> \in relayCalls
       THEN relayCalls' = relayCalls \ {<<r, "probe">>} /\ relay' = Probed(relay, r)
       ELSE UNCHANGED <<relayCalls, relay>>
    /\ UNCHANGED <<setups, begunOn, heard>>

\* The answer to a begin: recorded, and bound to its relay if that is still
\* open.  An answer nobody waits for is dropped, and its job recorded nowhere.
TakeMade(r, j) ==
    /\ IF <<r, "begin">> \in relayCalls
       THEN /\ relayCalls' = relayCalls \ {<<r, "begin">>}
            /\ Recording(j)
            /\ relay' = IF Open(r) THEN [relay EXCEPT ![r].job = j] ELSE relay
       ELSE UNCHANGED <<relayCalls, setups, begunOn, relay>>
    /\ UNCHANGED heard

TakeRefused(r, why) ==
    /\ IF <<r, "begin">> \in relayCalls
       THEN /\ relayCalls' = relayCalls \ {<<r, "begin">>}
            /\ relay' = NotBegun(relay, r, why)
       ELSE UNCHANGED <<relayCalls, relay>>
    /\ UNCHANGED <<setups, begunOn, heard>>

\* #onSetupProgress, of a state that ends the job: from the machine and the
\* enrolment running it, else the job is ended, or was never heard of.
TakeProgress(j) ==
    /\ IF SetupOn(j)
       THEN /\ relay' = Closed(relay, ForJob(relay, j))
            /\ heard' = heard \cup {j} /\ UNCHANGED setups
       ELSE IF j \in RecordedJobs THEN EndSetup(j) ELSE UNCHANGED <<setups, relay, heard>>
    /\ UNCHANGED <<relayCalls, begunOn>>

\* The status of a job that has ended closes its relay too.
TakeStatus(j) ==
    /\ relay' = Closed(relay, ForJob(relay, j))
    /\ heard' = heard \cup {j}
    /\ UNCHANGED <<relayCalls, setups, begunOn>>

TakeFrame ==
    /\ wire # <<>>
    /\ LET f == Head(wire) IN
          CASE f.kind = "open"     -> TakeOpen(f.relay, f.stream)
            [] f.kind = "end"      -> TakeEnd(f.relay, f.stream)
            [] f.kind = "done"     -> TakeDone(f.relay)
            [] f.kind = "probed"   -> TakeProbed(f.relay)
            [] f.kind = "made"     -> TakeMade(f.relay, f.job)
            [] f.kind = "refused"  -> TakeRefused(f.relay, f.why)
            [] f.kind = "progress" -> TakeProgress(f.job)
            [] f.kind = "status"   -> TakeStatus(f.job)
    /\ wire' = Tail(wire)
    /\ UNCHANGED <<enrolment, up, asked, probes, jobs, carrier, relayUpsets>>

---------------------------------------------------------------------------
(* Upsets *)

\* hostDisconnected: every relay of the machine is closed.  What was on the
\* socket either way is lost; calls that wait find out by their timeout.
SocketDrops ==
    /\ up /\ up' = FALSE
    /\ relayUpsets < MaxRelayUpsets /\ relayUpsets' = relayUpsets + 1
    /\ relay' = Closed(relay, Relays)
    /\ wire' = <<>> /\ asked' = {}
    /\ UNCHANGED <<relayCalls, setups, begunOn, enrolment, probes, jobs, carrier, heard>>

SocketReturns ==
    /\ ~up /\ up' = TRUE
    /\ UNCHANGED <<coordVars, asked, probes, jobs, carrier, wire, heard, relayUpsets>>

\* The coordinator is rebuilt: relays and calls were in memory only, the jobs
\* are read back, the machine's socket lives on.
CoordinatorRestarts ==
    /\ relayUpsets < MaxRelayUpsets /\ relayUpsets' = relayUpsets + 1
    /\ relay' = Closed(relay, Relays)
    /\ relayCalls' = {}
    /\ UNCHANGED <<setups, begunOn, enrolment, machineVars, heard>>

---------------------------------------------------------------------------
(* Specification *)

SetupRelaysInit ==
    /\ relay = [r \in Relays |-> Gone]
    /\ relayCalls = {} /\ setups = <<>> /\ begunOn = [j \in Jobs |-> 0] /\ enrolment = 0
    /\ up = TRUE /\ asked = {} /\ probes = {}
    /\ jobs = [j \in Jobs |-> "none"] /\ carrier = [j \in Jobs |-> NoRelay]
    /\ wire = <<>> /\ heard = {} /\ relayUpsets = 0

SetupRelaysNext ==
    \/ \E r \in Relays :
          \/ OpenRelay(r) \/ RelayCloses(r) \/ ProbeThrough(r) \/ Begin(r)
          \/ CallFails(r, "probe") \/ CallFails(r, "begin")
          \/ StartsProbe(r) \/ EndsProbe(r)
          \/ \E j \in Jobs : MakesJob(r, j)
          \/ RefusesJob(r, "outdated") \/ RefusesJob(r, "failed")
          \/ \E s \in Streams : PhoneEnds(r, s) \/ OpensStream(r, s) \/ EndsStream(r, s)
    \/ \E j \in Jobs : AskStatus(j) \/ EndsJob(j) \/ RelayForgotten(j)
    \/ TakeFrame
    \/ Rekeyed \/ RelayRevoked \/ SocketDrops \/ SocketReturns \/ CoordinatorRestarts

SetupRelaysSpec == SetupRelaysInit /\ [][SetupRelaysNext]_setupRelaysVars

---------------------------------------------------------------------------
(* Properties *)

\* "A connection only while it is using the relay for something the person
\* asked - the probe in flight, or the job bound to it" (relays.js:259): a
\* connection through a phone's network is open only while the coordinator
\* waits for the relay's probe, or the relay's job is not known to have ended.
StreamsServeAUse ==
    \A r \in Relays : relay[r].streams # {} =>
        /\ Open(r)
        /\ \/ relay[r].use = "probing" /\ <<r, "probe">> \in relayCalls
           \/ relay[r].job \in Jobs \ heard

\* "The relay closes when it ends" and "Setup did not begin, so this phone is
\* carrying nothing for it" (core.js:2001): a relay spent on a begin that is
\* over is not left open with nothing to carry.  Does not hold: a machine too
\* old for the begin is answered before the relay is closed.
SpentRelayCarries ==
    \A r \in Relays : Open(r) /\ relay[r].use = "job" =>
        <<r, "begin">> \in relayCalls \/ relay[r].job # NoJob
=============================================================================
