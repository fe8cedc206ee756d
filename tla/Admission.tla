----------------------------- MODULE Admission -----------------------------
(***************************************************************************)
(* How a machine gets into the fleet: the three doors of the coordinator   *)
(* Durable Object at which something without a credential may ask for one. *)
(*   - a PIN, typed at a machine: Enrollment (enrollment.js) and the routes*)
(*     /api/enroll and /api/enroll/host of src/worker/src/fleet-do.js;     *)
(*   - a JOB of GitHub Actions with a ticket: /api/enroll/actions;         *)
(*   - a VM of somebody's pool with a ticket: CoordinatorCore#enrolVm.     *)
(* Tickets are RunnerTickets (runner-tickets.js), hosts HostIdentities     *)
(* (hosts.js).                                                             *)
(*                                                                         *)
(* Each store is kept in memory and written to storage by the handlers,    *)
(* and the object is rebuilt from storage at any moment.  No other event is*)
(* handled while one awaits its storage or WebCrypto, so a handler is one  *)
(* action up to its first write that matters, and each later one another;  *)
(* only a redemption that sleeps and a job whose token is being verified   *)
(* leave room for others.  An answer leaves once what was written is safe. *)
(***************************************************************************)
EXTENDS Naturals, FiniteSets

CONSTANTS
    Pins, Wrong,    \* enrolment pins, and a code that is none of them
    JobTickets,     \* runner tickets
    VmTickets,      \* tickets with a "vm:" platform, each naming its host
    Starting,       \* tickets that carry a session to start
    People, OwnerOf,        \* whose each pin and ticket is
    PinNames,       \* host ids typed with a pin
    BoundTo, Readmits,      \* the name a pin is bound to, or AnyName; pins that readmit
    AnyName,
    Machines,       \* key pairs; a job's host is named after its run
    Nobody,
    TTL,            \* CODE_TTL_MS, TICKET_TTL_MS: how long each is good for
    PerPerson, MaxPending,  \* MAX_PENDING_PER_ACTOR, MAX_PENDING (and for tickets)
    MaxSpent,       \* MAX_SPENT
    MaxLive,        \* MAX_LIVE_HOSTS
    MaxFailures, Window, Step, PenaltyMax, MaxQueue,  \* the delay at the pin door
    Mixes,          \* bound: what a behaviour mints is one of these sets
    MaxArrivals,    \* bound: presentations at the doors
    MaxClock        \* bound: the last tick

Tickets == JobTickets \cup VmTickets
Creds   == Pins \cup Tickets
Names   == PinNames \cup VmTickets \cup Machines

ASSUME AdmissionAssumption ==
    /\ Pins \cap Tickets = {} /\ JobTickets \cap VmTickets = {} /\ Wrong \notin Pins
    /\ Starting \subseteq Tickets /\ Readmits \subseteq Pins
    /\ PinNames \cap (VmTickets \cup Machines) = {} /\ VmTickets \cap Machines = {}
    /\ AnyName \notin Names /\ Nobody \notin Machines \cup Creds
    /\ OwnerOf \in [Creds -> People] /\ BoundTo \in [Pins -> PinNames \cup {AnyName}]
    /\ TTL \in [Creds -> Nat \ {0}] /\ Mixes \subseteq SUBSET Creds
    /\ {PerPerson, MaxPending, MaxSpent, Step, PenaltyMax, Window, MaxClock} \subseteq Nat \ {0}
    /\ {MaxLive, MaxFailures, MaxQueue, MaxArrivals} \subseteq Nat

VARIABLES
    now, arrivals, mix,
    minted,     \* when each pin and ticket was minted, 0 for not yet
    \* memory
    pins,       \* enrollment.pending
    tickets,    \* runnerTickets.tickets
    spent,      \* runnerTickets.spent, of VM tickets
    hosts,      \* hostIds.hosts
    failures, nextTurn,     \* the delay's count of wrong guesses, and its queue
    \* storage, under the keys enrollment, runnerTickets and hostIds
    stored,
    \* requests in hand
    waiting,    \* redemptions sleeping for their turn
    verifying,  \* jobs whose GitHub token is being verified
    handling,   \* a handler that a write has cut in two, or Nobody
    \* history
    removed,    \* people removed from the fleet
    withdrawn,  \* pins cancelled, and what was theirs
    admitted,   \* <<credential, machine>> answered with an enrolment
    presented,  \* machines that presented each VM ticket and were answered
    guesses     \* wrong guesses looked up since the object was built

memory   == <<pins, tickets, spent, hosts, failures, nextTurn>>
inflight == <<waiting, verifying, handling>>
history  == <<removed, withdrawn, admitted, presented, guesses>>
vars     == <<now, arrivals, mix, minted, memory, stored, inflight, history>>

Host    == [status : {"none", "live", "revoked"}, machine : Machines \cup {Nobody},
            cred : Creds \cup {Nobody}]
NoHost  == [status |-> "none", machine |-> Nobody, cred |-> Nobody]
Spent   == [ticket : VmTickets, at : Nat]
Storage == [pins : SUBSET Pins, tickets : SUBSET Tickets, spent : SUBSET Spent,
            hosts : [Names -> Host]]
Request == [no : Nat, pin : Pins \cup {Wrong}, name : PinNames, machine : Machines,
            since : Nat, wake : Nat, penalty : Nat]
Job     == [ticket : Tickets, machine : Machines]
Admitting == [cred : Creds, name : Names, machine : Machines]
Guess   == [no : Nat, at : Nat, waited : BOOLEAN]

TypeOK ==
    /\ now \in 1..MaxClock /\ arrivals \in 0..MaxArrivals
    /\ mix \in Mixes /\ minted \in [Creds -> 0..MaxClock]
    /\ pins \subseteq Pins /\ tickets \subseteq Tickets /\ spent \subseteq Spent
    /\ hosts \in [Names -> Host]
    /\ failures \subseteq Guess /\ guesses \subseteq Guess /\ nextTurn \in Nat
    /\ stored \in Storage
    /\ waiting \subseteq Request /\ verifying \subseteq Job
    /\ handling \in Admitting \cup {Nobody}
    /\ removed \subseteq People /\ withdrawn \subseteq Creds
    /\ admitted \subseteq Creds \X Machines
    /\ presented \in [VmTickets -> SUBSET Machines]

---------------------------------------------------------------------------
(* The stores *)

Idle        == handling = Nobody
Good(c)     == now < minted[c] + TTL[c]
Fresh(S)    == {c \in S : Good(c)}              \* #sweep
FreshSpent  == {s \in spent : Good(s.ticket)}
SpentIn(S)  == {s.ticket : s \in S}

\* An owner's oldest gives way to their next one; past the fleet's cap the
\* mint is refused.  The order within one tick is not kept.
Mint(store, c) ==
    LET mine == {x \in store : OwnerOf[x] = OwnerOf[c]}
    IN  IF Cardinality(mine) >= PerPerson
        THEN {(store \ {old}) \cup {c} :
                  old \in {x \in mine : \A y \in mine : minted[x] <= minted[y]}}
        ELSE IF Cardinality(store) < MaxPending THEN {store \cup {c}} ELSE {}

\* HostIdentities#enrol: a live name takes a pin bound to it, a revoked one a
\* pin that readmits, and one more live host takes room.
Enrols(name, bound, readmits) ==
    /\ hosts[name].status = "live" => bound
    /\ hosts[name].status = "revoked" => readmits
    /\ hosts[name].status = "live"
          \/ Cardinality({n \in Names : hosts[n].status = "live"}) < MaxLive

\* Mutant: the record does not say how it was admitted.
WithHostUnsaid(name, machine, cred) ==
    [hosts EXCEPT ![name] = [status |-> "live", machine |-> machine]]

WithHost(name, machine, cred) ==
    [hosts EXCEPT ![name] = [status |-> "live", machine |-> machine, cred |-> cred]]

Revoked(S) == [n \in Names |->
    IF n \in S /\ hosts[n].status = "live" THEN [hosts[n] EXCEPT !.status = "revoked"]
    ELSE hosts[n]]

\* onStateChanged: everything at once.  To serialise a store sweeps it.
SaveAll(P, T, H) ==
    /\ pins' = Fresh(P) /\ tickets' = Fresh(T) /\ spent' = FreshSpent /\ hosts' = H
    /\ stored' = [pins |-> pins', tickets |-> tickets', spent |-> spent', hosts |-> hosts']

---------------------------------------------------------------------------
(* The pin door *)

\* POST /api/enroll.
MintPin(p) ==
    /\ Idle /\ p \in mix /\ minted[p] = 0 /\ OwnerOf[p] \notin removed
    /\ \E store \in Mint(Fresh(pins), p) :
          /\ pins' = store
          /\ stored' = [stored EXCEPT !.pins = store]
    /\ minted' = [minted EXCEPT ![p] = now]
    /\ UNCHANGED <<now, arrivals, mix, tickets, spent, hosts, failures, nextTurn,
                   inflight, history>>

\* #penaltyMs, of the failures in the window.
Recent == {f \in failures : f.at + Window > now}
Penalty ==
    LET over == (Cardinality(Recent) + 1) - MaxFailures
    IN  IF Cardinality(Recent) < MaxFailures THEN 0
        ELSE IF over * Step < PenaltyMax THEN over * Step ELSE PenaltyMax
Turn == IF now < nextTurn THEN nextTurn ELSE now

\* Mutant: the pin is spent in memory only.
LookUpUnsaved(req, counted, pending) ==
    LET guess   == [no |-> req.no, at |-> now, waited |-> req.wake > req.since]
        held    == req.pin \in pending
        expired == held /\ ~Good(req.pin)
        fits    == held /\ ~expired /\ BoundTo[req.pin] \in {AnyName, req.name}
        left    == IF fits \/ expired THEN pending \ {req.pin} ELSE pending
    IN  /\ pins' = Fresh(left)
        /\ UNCHANGED stored
        /\ handling' = IF fits
                       THEN [cred |-> req.pin, name |-> req.name, machine |-> req.machine]
                       ELSE Nobody
        /\ failures' = IF fits \/ expired THEN counted ELSE counted \cup {guess}
        /\ guesses' = IF fits \/ expired THEN guesses ELSE guesses \cup {guess}

\* Mutant: with no pin outstanding there is nothing to guess, and no count.
LookUpUncounted(req, counted, pending) ==
    LET guess   == [no |-> req.no, at |-> now, waited |-> req.wake > req.since]
        held    == req.pin \in pending
        expired == held /\ ~Good(req.pin)
        fits    == held /\ ~expired /\ BoundTo[req.pin] \in {AnyName, req.name}
        left    == IF fits \/ expired THEN pending \ {req.pin} ELSE pending
    IN  /\ pins' = Fresh(left)
        /\ stored' = [stored EXCEPT !.pins = pins']
        /\ handling' = IF fits
                       THEN [cred |-> req.pin, name |-> req.name, machine |-> req.machine]
                       ELSE Nobody
        /\ failures' = IF fits \/ expired \/ pending = {} THEN counted
                       ELSE counted \cup {guess}
        /\ guesses' = IF fits \/ expired THEN guesses ELSE guesses \cup {guess}

\* The rest of Enrollment#redeem, and #saveEnrollment after it: a pin that
\* fits is gone from both, one that has expired is deleted, and anything else
\* is a wrong guess.
LookUp(req, counted, pending) ==
    LET guess   == [no |-> req.no, at |-> now, waited |-> req.wake > req.since]
        held    == req.pin \in pending
        expired == held /\ ~Good(req.pin)
        fits    == held /\ ~expired /\ BoundTo[req.pin] \in {AnyName, req.name}
        left    == IF fits \/ expired THEN pending \ {req.pin} ELSE pending
    IN  /\ pins' = Fresh(left)
        /\ stored' = [stored EXCEPT !.pins = pins']
        /\ handling' = IF fits
                       THEN [cred |-> req.pin, name |-> req.name, machine |-> req.machine]
                       ELSE Nobody
        /\ failures' = IF fits \/ expired THEN counted ELSE counted \cup {guess}
        /\ guesses' = IF fits \/ expired THEN guesses ELSE guesses \cup {guess}

\* Mutant: the turn is claimed by whoever reads it, and read by all.
ArriveAtOnce(p, name, m) ==
    LET req == [no |-> arrivals, pin |-> p, name |-> name, machine |-> m, since |-> now,
                wake |-> Turn + Penalty, penalty |-> Penalty]
    IN  /\ Idle /\ arrivals < MaxArrivals /\ (p \in Pins => minted[p] # 0)
        /\ arrivals' = arrivals + 1
        /\ IF Penalty = 0
           THEN /\ LookUp([req EXCEPT !.wake = now], Recent, Fresh(pins))
                /\ UNCHANGED <<waiting, nextTurn>>
           ELSE /\ pins' = Fresh(pins) /\ failures' = Recent
                /\ waiting' = waiting \cup {req}
                /\ UNCHANGED <<nextTurn, stored, handling, guesses>>
        /\ UNCHANGED <<now, mix, minted, tickets, spent, hosts, verifying,
                       removed, withdrawn, admitted, presented>>

\* POST /api/enroll/host: looked up at once inside the budget; past it, after
\* its turn, which is claimed before it sleeps, or told to come back.
Arrive(p, name, m) ==
    LET req == [no |-> arrivals, pin |-> p, name |-> name, machine |-> m, since |-> now,
                wake |-> Turn + Penalty, penalty |-> Penalty]
    IN  /\ Idle /\ arrivals < MaxArrivals /\ (p \in Pins => minted[p] # 0)
        /\ arrivals' = arrivals + 1
        /\ IF Penalty = 0
           THEN /\ LookUp([req EXCEPT !.wake = now], Recent, Fresh(pins))
                /\ UNCHANGED <<waiting, nextTurn>>
           ELSE /\ pins' = Fresh(pins) /\ failures' = Recent
                /\ IF Turn - now > MaxQueue
                   THEN stored' = [stored EXCEPT !.pins = pins'] /\ UNCHANGED <<waiting, nextTurn>>
                   ELSE /\ waiting' = waiting \cup {req} /\ nextTurn' = req.wake
                        /\ UNCHANGED stored
                /\ UNCHANGED <<handling, guesses>>
        /\ UNCHANGED <<now, mix, minted, tickets, spent, hosts, verifying,
                       removed, withdrawn, admitted, presented>>

\* Its sleep is over.
Wakes(req) ==
    /\ Idle /\ req.wake <= now
    /\ waiting' = waiting \ {req}
    /\ LookUp(req, failures, pins)
    /\ UNCHANGED <<now, arrivals, mix, minted, tickets, spent, hosts, nextTurn, verifying,
                   removed, withdrawn, admitted, presented>>

\* The pin is spent and written: the host is enrolled, or not, and written.
FinishPin ==
    LET a  == handling
        ok == Enrols(a.name, BoundTo[a.cred] # AnyName, a.cred \in Readmits)
    IN  /\ ~Idle /\ a.cred \in Pins
        /\ hosts' = IF ok THEN WithHost(a.name, a.machine, a.cred) ELSE hosts
        /\ stored' = IF ok THEN [stored EXCEPT !.hosts = hosts'] ELSE stored
        /\ admitted' = IF ok THEN admitted \cup {<<a.cred, a.machine>>} ELSE admitted
        /\ handling' = Nobody
        /\ UNCHANGED <<now, arrivals, mix, minted, pins, tickets, spent, failures, nextTurn,
                       waiting, verifying, removed, withdrawn, presented, guesses>>

\* Mutant: answered before it is written.
CancelUnsaved(p) ==
    /\ Idle /\ p \in Fresh(pins)
    /\ pins' = Fresh(pins) \ {p}
    /\ withdrawn' = withdrawn \cup {p}
    /\ UNCHANGED <<now, arrivals, mix, minted, tickets, spent, hosts, failures, nextTurn, stored,
                   inflight, removed, admitted, presented, guesses>>

\* DELETE /api/enroll/<id>.
CancelPin(p) ==
    /\ Idle /\ p \in Fresh(pins)
    /\ pins' = Fresh(pins) \ {p}
    /\ stored' = [stored EXCEPT !.pins = pins']
    /\ withdrawn' = withdrawn \cup {p}
    /\ UNCHANGED <<now, arrivals, mix, minted, tickets, spent, hosts, failures, nextTurn,
                   inflight, removed, admitted, presented, guesses>>

---------------------------------------------------------------------------
(* The doors that take a ticket *)

\* A machine is asked for: the ticket is written before anything leaves.
MintTicket(t) ==
    /\ Idle /\ t \in mix /\ minted[t] = 0 /\ OwnerOf[t] \notin removed
    /\ \E store \in Mint(Fresh(tickets), t) : tickets' = store
    /\ pins' = Fresh(pins) /\ spent' = FreshSpent
    /\ minted' = [minted EXCEPT ![t] = now]
    /\ stored' = [pins |-> pins', tickets |-> tickets', spent |-> spent', hosts |-> hosts]
    /\ UNCHANGED <<now, arrivals, mix, hosts, failures, nextTurn, inflight, history>>

\* POST /api/enroll/actions: admission is looked at, and GitHub is asked.
JobArrives(t, m) ==
    /\ Idle /\ arrivals < MaxArrivals /\ minted[t] # 0
    /\ arrivals' = arrivals + 1
    /\ tickets' = Fresh(tickets) /\ spent' = FreshSpent
    /\ verifying' = verifying \cup {[ticket |-> t, machine |-> m]}
    /\ UNCHANGED <<now, mix, minted, pins, hosts, failures, nextTurn, stored, waiting, handling,
                   history>>

JobRefused(j) ==
    /\ Idle
    /\ verifying' = verifying \ {j}
    /\ UNCHANGED <<now, arrivals, mix, minted, memory, stored, waiting, handling, history>>

\* GitHub vouched for the job: the ticket is spent, a VM's for nothing, the
\* host enrolled in memory, and pins and tickets written.
JobVerified(j) ==
    LET found == j.ticket \in Fresh(tickets)
        ok    == found /\ j.ticket \in JobTickets /\ Enrols(j.machine, FALSE, FALSE)
    IN  /\ Idle
        /\ verifying' = verifying \ {j}
        /\ tickets' = Fresh(tickets) \ {j.ticket}
        /\ spent' = FreshSpent
        /\ hosts' = IF ok THEN WithHost(j.machine, j.machine, j.ticket) ELSE hosts
        /\ pins' = IF found /\ j.ticket \in JobTickets THEN Fresh(pins) ELSE pins
        /\ stored' = [stored EXCEPT !.pins = IF found /\ j.ticket \in JobTickets THEN pins' ELSE @,
                                    !.tickets = tickets', !.spent = spent']
        /\ handling' = IF ok /\ j.ticket \in Starting
                       THEN [cred |-> j.ticket, name |-> j.machine, machine |-> j.machine]
                       ELSE Nobody
        /\ admitted' = IF ok /\ j.ticket \notin Starting
                       THEN admitted \cup {<<j.ticket, j.machine>>} ELSE admitted
        /\ UNCHANGED <<now, arrivals, mix, minted, failures, nextTurn, waiting,
                       removed, withdrawn, presented, guesses>>

\* noteRunnerEnrolled, for a job's ticket that carries a session.
NoteRunnerEnrolled ==
    /\ ~Idle /\ handling.cred \in JobTickets
    /\ admitted' = admitted \cup {<<handling.cred, handling.machine>>}
    /\ handling' = Nobody
    /\ SaveAll(pins, tickets, hosts)
    /\ UNCHANGED <<now, arrivals, mix, minted, failures, nextTurn, waiting, verifying,
                   removed, withdrawn, presented, guesses>>

\* Mutant: a second presentation is refused, and the host left in.
VmSpentTwiceRefused(t, m) ==
    /\ IF hosts[t].status = "live" /\ hosts[t].machine = m
       THEN admitted' = admitted \cup {<<t, m>>}
       ELSE UNCHANGED admitted
    /\ pins' = Fresh(pins) /\ tickets' = Fresh(tickets) /\ spent' = FreshSpent
    /\ UNCHANGED hosts
    /\ stored' = [stored EXCEPT !.pins = pins', !.tickets = tickets', !.spent = spent']

\* #vmTicketSpentTwice: the same key is answered as before; with another the
\* host is taken out of the fleet.
VmSpentTwice(t, m) ==
    LET same == hosts[t].status = "live" /\ hosts[t].machine = m
        out  == hosts[t].status = "live" /\ hosts[t].machine # m
    IN  /\ admitted' = IF same THEN admitted \cup {<<t, m>>} ELSE admitted
        /\ pins' = Fresh(pins) /\ tickets' = Fresh(tickets) /\ spent' = FreshSpent
        /\ hosts' = IF out THEN Revoked({t}) ELSE hosts
        /\ stored' = [pins |-> pins', tickets |-> tickets', spent |-> spent',
                      hosts |-> IF out THEN hosts' ELSE stored.hosts]

\* redeem(presented, { remember: true }), enrol and, when a session waits or
\* the machine is one kept ready, a write of everything.
SpendVmTicket(t, m) ==
    LET ok     == Enrols(t, FALSE, FALSE)
        oldest == IF Cardinality(FreshSpent) < MaxSpent THEN {}
                  ELSE {CHOOSE s \in FreshSpent : \A x \in FreshSpent : s.at <= x.at}
    IN  /\ tickets' = Fresh(tickets) \ {t}
        /\ spent' = (FreshSpent \ oldest) \cup {[ticket |-> t, at |-> now]}
        /\ pins' = Fresh(pins)
        /\ hosts' = IF ok THEN WithHost(t, m, t) ELSE hosts
        /\ admitted' = IF ok THEN admitted \cup {<<t, m>>} ELSE admitted
        /\ stored' = [pins |-> pins', tickets |-> tickets', spent |-> spent',
                      hosts |-> IF ok /\ t \in Starting THEN hosts' ELSE stored.hosts]

\* POST /api/enroll/vm, and CoordinatorCore#enrolVm.
VmArrives(t, m) ==
    /\ Idle /\ arrivals < MaxArrivals /\ minted[t] # 0
    /\ arrivals' = arrivals + 1
    /\ \/ /\ t \in VmTickets \cap Fresh(tickets)
          /\ SpendVmTicket(t, m)
          /\ presented' = [presented EXCEPT ![t] = @ \cup {m}]
       \/ /\ t \in VmTickets \cap SpentIn(FreshSpent) /\ t \notin Fresh(tickets)
          /\ VmSpentTwice(t, m)
          /\ presented' = [presented EXCEPT ![t] = @ \cup {m}]
       \/ /\ t \notin VmTickets \cap (Fresh(tickets) \cup SpentIn(FreshSpent))
          /\ pins' = Fresh(pins) /\ tickets' = Fresh(tickets) /\ spent' = FreshSpent
          /\ stored' = [stored EXCEPT !.pins = pins', !.tickets = tickets', !.spent = spent']
          /\ UNCHANGED <<hosts, admitted, presented>>
    /\ UNCHANGED <<now, mix, minted, failures, nextTurn, inflight, removed, withdrawn, guesses>>

---------------------------------------------------------------------------
(* The rest of the life of a host, as far as its record goes *)

\* A machine connects with its key, and #acceptHost writes the hosts.
Connect(n) ==
    /\ Idle /\ hosts[n].status = "live"
    /\ stored' = [stored EXCEPT !.hosts = hosts]
    /\ UNCHANGED <<now, arrivals, mix, minted, memory, inflight, history>>

\* DELETE /api/hosts/<id>.
RevokeHost(n) ==
    /\ Idle /\ hosts[n].status = "live"
    /\ hosts' = Revoked({n})
    /\ stored' = [stored EXCEPT !.hosts = hosts']
    /\ UNCHANGED <<now, arrivals, mix, minted, pins, tickets, spent, failures, nextTurn,
                   inflight, history>>

\* #forgetPerson: their temporary hosts, tickets and pins.
ForgetPerson(o) ==
    LET theirs == {c \in Creds : OwnerOf[c] = o}
        left   == Revoked({n \in Names : hosts[n].cred \in Tickets \cap theirs})
    IN  /\ Idle /\ o \notin removed
        /\ removed' = removed \cup {o}
        /\ withdrawn' = withdrawn \cup {c \in theirs : minted[c] # 0}
        /\ IF theirs \cap (pins \cup tickets) = {} /\ left = hosts
           THEN UNCHANGED <<pins, tickets, spent, hosts, stored>>
           ELSE SaveAll(pins \ theirs, tickets \ theirs, left)
        /\ UNCHANGED <<now, arrivals, mix, minted, failures, nextTurn, inflight,
                       admitted, presented, guesses>>

\* The object ends wherever it is, and another is built from storage.
Rebuild ==
    /\ pins' = Fresh(stored.pins) /\ tickets' = Fresh(stored.tickets)
    /\ spent' = {s \in stored.spent : Good(s.ticket)}
    /\ hosts' = stored.hosts
    /\ failures' = {} /\ nextTurn' = 0 /\ guesses' = {}
    /\ waiting' = {} /\ verifying' = {} /\ handling' = Nobody
    /\ UNCHANGED <<now, arrivals, mix, minted, stored, removed, withdrawn, admitted, presented>>

Tick ==
    /\ Idle /\ now < MaxClock
    /\ now' = now + 1
    /\ UNCHANGED <<arrivals, mix, minted, memory, stored, inflight, history>>

---------------------------------------------------------------------------
(* Specification *)

Init ==
    /\ now = 1 /\ arrivals = 0
    /\ mix \in Mixes /\ minted = [c \in Creds |-> 0]
    /\ pins = {} /\ tickets = {} /\ spent = {}
    /\ hosts = [n \in Names |-> NoHost]
    /\ failures = {} /\ nextTurn = 0
    /\ stored = [pins |-> {}, tickets |-> {}, spent |-> {}, hosts |-> hosts]
    /\ waiting = {} /\ verifying = {} /\ handling = Nobody
    /\ removed = {} /\ withdrawn = {} /\ admitted = {}
    /\ presented = [t \in VmTickets |-> {}] /\ guesses = {}

Next ==
    \/ \E p \in Pins : MintPin(p) \/ CancelPin(p)
    \/ \E p \in Pins \cup {Wrong}, n \in PinNames, m \in Machines : Arrive(p, n, m)
    \/ \E req \in waiting : Wakes(req)
    \/ FinishPin \/ NoteRunnerEnrolled
    \/ \E t \in Tickets : MintTicket(t)
    \/ \E t \in Tickets, m \in Machines : JobArrives(t, m) \/ VmArrives(t, m)
    \/ \E j \in verifying : JobRefused(j) \/ JobVerified(j)
    \/ \E n \in Names : Connect(n) \/ RevokeHost(n)
    \/ \E o \in People : ForgetPerson(o)
    \/ Rebuild \/ Tick

Spec == Init /\ [][Next]_vars

---------------------------------------------------------------------------
(* Properties *)

\* SINGLE USE (enrollment.js:9, runner-tickets.js:22, fleet-do.js:724).  What
\* one pin or ticket was given for is one machine, through redemptions that
\* meet and objects that are evicted between them; and nothing that admitted
\* a machine is in storage to be restored.
OneMachinePerCredential ==
    /\ \A a, b \in admitted : a[1] = b[1] => a[2] = b[2]
    /\ \A a \in admitted : a[1] \notin stored.pins \cup stored.tickets

\* SPENT TWICE IS UNDONE (core.js:8133).  Once two machines have presented one
\* VM's ticket and been answered, its host is in the fleet no longer, nor is
\* it there for the next object to restore.
TwoHoldersNoHost ==
    \A t \in VmTickets : Cardinality(presented[t]) > 1 =>
        hosts[t].status # "live" /\ stored.hosts[t].status # "live"

\* "Cancelled. That pin no longer works." (fleet-do.js:1300, core.js:3055).
\* A pin that was cancelled, or whatever a removed person had, admits nobody
\* afterwards: not a redemption that was waiting, nor after a restart.
WithdrawnStaysOut ==
    [][\A a \in admitted' \ admitted : a[1] \notin withdrawn]_vars

\* LOOKUPS TAKE TURNS (enrollment.js:55).  Past the budget, one lookup per
\* penalty whoever sends them, and nobody waits longer than the queue.
LookupsTakeTurns ==
    \A r \in waiting :
        /\ r.wake - r.since <= MaxQueue + PenaltyMax
        /\ \A q \in waiting : r.no < q.no => r.wake + q.penalty <= q.wake

\* COUNTED GLOBALLY (enrollment.js:27).  The wrong guesses that one object
\* looked up without a wait are never more in a window than the budget.
FreeGuessesBounded ==
    \A g \in guesses :
        Cardinality({f \in guesses : ~f.waited /\ f.at <= g.at /\ f.at + Window > g.at})
            <= MaxFailures

\* What fleet-do.js:694 says of a machine and fleet-do.js:658 of a job: "Both
\* halves or neither", the spent ticket and the new host "written together".
\* A ticket that an answered enrolment spent has its host in storage.
BothHalves ==
    \A a \in admitted : a[1] \in Tickets =>
        \E n \in Names : stored.hosts[n].cred = a[1]

\* What the code keeps of that.  Where somebody waits for the machine, a session
\* to be started or a place to be kept (noteRunnerEnrolled, core.js:7991), the
\* two are in storage together once the enrolment is answered, and stay there.
AwaitedBothHalves ==
    \A a \in admitted : a[1] \in Starting =>
        \E n \in Names : stored.hosts[n].cred = a[1]

---------------------------------------------------------------------------
(* Admission implements SingleUse *)

\* Who has taken a credential and is not answered yet.
InTheDoor == IF Idle THEN {} ELSE {<<handling.cred, handling.machine>>}

Promise == INSTANCE SingleUse WITH
    unissued <- {c \in Creds : minted[c] = 0}, good <- pins \cup tickets,
    redeeming <- InTheDoor, given <- admitted

\* Each pin and ticket admits one machine at most, while it is good, and none that
\* is spent, cancelled, expired or lost is ever good again: not by a redemption
\* that slept, nor by a store brought back (enrollment.js:9, runner-tickets.js:22).
GivesEachOnce == Promise!Spec
=============================================================================
