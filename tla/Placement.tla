----------------------------- MODULE Placement -----------------------------
(***************************************************************************)
(* What the coordinator knows of each box's sessions - HostRegistry        *)
(* (src/src/fleet/coordinator/registry.js) - and where an intent that      *)
(* names a session goes by it: place (coordinator/scheduler.js), with what *)
(* CoordinatorCore's dispatch notes from a reply.                          *)
(*                                                                         *)
(* A box says what it holds in health frames; one whose session manager is *)
(* too busy to answer says it cannot tell, and what it last listed is kept *)
(* beside that.  Every claim is filed under somebody the box may act for,  *)
(* which changes when an operator leaves the fleet or returns.             *)
(*                                                                         *)
(* Ages are counted up to Old, one more than the oldest that is compared.  *)
(* Labels, capacity and whether a box contains its sessions narrow a start *)
(* further and are left open.                                              *)
(***************************************************************************)
EXTENDS Naturals, FiniteSets

CONSTANTS
    Boxes, Temporary,
    BoxPerson,      \* who enrolled a box first, or asked for a temporary one
    Sessions,       \* session names
    Persons, Anyone, NoPerson,
    StaleAge,       \* HEALTH_STALE_MS
    PinAge,         \* maxPinAgeMs
    DroppedAge,     \* DROPPED_TTL_MS
    MaxEvents       \* bound: frames, replies and everything that upsets them

ASSUME PlacementAssumption ==
    /\ Temporary \subseteq Boxes /\ BoxPerson \in [Boxes -> Persons]
    /\ Anyone \notin Persons /\ NoPerson \notin Persons
    /\ StaleAge \in Nat /\ PinAge \in Nat /\ DroppedAge \in Nat
    /\ MaxEvents \in Nat

VARIABLES
    operators,      \* the people whose boxes are the fleet's
    enrolled,       \* whose each box is now, by its enrolment
    entry,          \* the registry: hosts and dropped
    calls,          \* boxes an intent is on its way to, for a reply
    said,           \* history: how long since a box said it holds a name, Old
                    \* where it never did or has since listed it no more
    events

placementVars == <<operators, enrolled, entry, calls, said, events>>

Old == 1 + CHOOSE m \in {StaleAge, PinAge, DroppedAge} :
             \A k \in {StaleAge, PinAge, DroppedAge} : k <= m
Ages == 0..Old
Older(a) == IF a = Old THEN Old ELSE a + 1

\* What a frame may say of a name: a session or one in the bin, and whose.
NoRow == [in |-> "nothing", by |-> NoPerson]
Rows  == [in : {"sessions", "bin"}, by : Persons \cup {NoPerson}] \cup {NoRow}
Empty == [n \in Sessions |-> NoRow]

\* listed: whether health.sessions is a list; kept: lastSessions.
Unknown == [where |-> "nowhere", connected |-> FALSE, state |-> "unknown", actsFor |-> Anyone,
            reported |-> FALSE, listed |-> FALSE, rows |-> Empty, age |-> 0,
            kept |-> FALSE, keptRows |-> Empty, keptAge |-> 0, droppedFor |-> 0]

PlacementTypeOK ==
    /\ operators \subseteq Persons /\ enrolled \in [Boxes -> Persons]
    /\ calls \subseteq Boxes /\ events \in 0..MaxEvents
    /\ said \in [Boxes -> [Sessions -> Ages]]
    /\ entry \in [Boxes -> [where : {"nowhere", "hosts", "dropped"}, connected : BOOLEAN,
                            state : {"unknown", "healthy", "degraded", "offline"},
                            actsFor : Persons \cup {Anyone},
                            reported : BOOLEAN, listed : BOOLEAN,
                            rows : [Sessions -> Rows], age : Ages,
                            kept : BOOLEAN, keptRows : [Sessions -> Rows], keptAge : Ages,
                            droppedFor : Ages]]

Event == events < MaxEvents /\ events' = events + 1

---------------------------------------------------------------------------
(* Whose things are *)

\* actsFor, of an enrolment.
ActsFor(b, ops) ==
    IF b \notin Temporary /\ enrolled[b] \in ops THEN Anyone ELSE enrolled[b]

MayActFor(person, p) == person = Anyone \/ person = p

\* believedCreator.
BelievedCreator(person, by) ==
    IF by = NoPerson \/ MayActFor(person, by) THEN by ELSE person

Attributed(person, rows) ==
    [n \in Sessions |-> [rows[n] EXCEPT !.by = BelievedCreator(person, @)]]

SessionRows(rows) == [n \in Sessions |-> IF rows[n].in = "sessions" THEN rows[n] ELSE NoRow]

---------------------------------------------------------------------------
(* The registry *)

\* Mutant: what a box that dials back had said is kept as it was filed.
ConnectedAsFiled(e, person) ==
    [e EXCEPT !.where = "hosts", !.connected = TRUE, !.state = "unknown", !.actsFor = person]

\* connect: what was known is kept, attributed again under who this
\* connection may act for.
Connected(e, person) ==
    [e EXCEPT !.where = "hosts", !.connected = TRUE, !.state = "unknown", !.actsFor = person,
              !.rows = Attributed(person, @), !.keptRows = Attributed(person, @),
              !.droppedFor = 0]

\* disconnect: a permanent box stays, offline; a temporary one is remembered
\* for a while and not listed.
Disconnected(b, e) ==
    IF b \in Temporary
    THEN [e EXCEPT !.where = "dropped", !.connected = FALSE, !.state = "offline", !.droppedFor = 0]
    ELSE [e EXCEPT !.connected = FALSE, !.state = "offline"]

\* Mutant: what a silent box last listed is as new as its silence.
KeptByFrame(e) ==
    [e EXCEPT !.kept = TRUE, !.keptAge = 0,
              !.keptRows = [n \in Sessions |-> IF SessionRows(e.rows)[n] # NoRow THEN e.rows[n]
                                               ELSE IF e.kept THEN @[n] ELSE NoRow]]

\* The list of the report before, put beside one that cannot tell; over what
\* was kept already, and as old as that.
Kept(e) ==
    [e EXCEPT !.kept = TRUE,
              !.keptAge = IF e.kept THEN @ ELSE e.age,
              !.keptRows = [n \in Sessions |-> IF SessionRows(e.rows)[n] # NoRow THEN e.rows[n]
                                               ELSE IF e.kept THEN @[n] ELSE NoRow]]

Forgotten(e) == [e EXCEPT !.kept = FALSE, !.keptRows = Empty, !.keptAge = 0]

\* recordHealth of a frame that lists the box's sessions, or cannot.
Recorded(e, listed, rows, state) ==
    LET before == IF listed THEN Forgotten(e) ELSE IF e.reported /\ e.listed THEN Kept(e) ELSE e IN
    [before EXCEPT !.reported = TRUE, !.listed = listed,
                   !.rows = Attributed(e.actsFor, rows), !.age = 0, !.state = state]

\* noteSessions, of a reply's one session: a list that could not be told
\* becomes a list of it alone.
Noted(e, n, by) ==
    IF e.reported
    THEN [e EXCEPT !.listed = TRUE,
                   !.rows[n] = [in |-> "sessions", by |-> BelievedCreator(e.actsFor, by)]]
    ELSE e

\* sweep, on every read, as time passes.
Aged(e) ==
    LET older == [e EXCEPT !.age = IF e.reported THEN Older(@) ELSE @,
                           !.keptAge = IF e.kept THEN Older(@) ELSE @,
                           !.droppedFor = IF e.where = "dropped" THEN Older(@) ELSE @] IN
    IF older.where = "dropped" /\ older.droppedFor > DroppedAge THEN Unknown
    ELSE IF older.connected /\ older.reported /\ older.age > StaleAge
         THEN [older EXCEPT !.state = "unknown"]
    ELSE older

---------------------------------------------------------------------------
(* findSessions, and place *)

\* A box's claim on a name: its live list, or while it cannot tell the one it
\* last gave, and then its bin; with its age.
Claim(b, n) ==
    LET e == entry[b]
        live == e.reported /\ e.listed
        row == IF live THEN SessionRows(e.rows)[n] ELSE IF e.kept THEN e.keptRows[n] ELSE NoRow
    IN IF row # NoRow THEN [row |-> row, age |-> IF live THEN e.age ELSE e.keptAge]
       ELSE [row |-> e.rows[n], age |-> e.age]

Claims(n) == {b \in Boxes : entry[b].where # "nowhere" /\ Claim(b, n).row # NoRow}

\* sessionsOf: every claim for an admin (Anyone), a member's own otherwise.
SessionsOf(who, n) == {b \in Claims(n) : who = Anyone \/ Claim(b, n).row.by = who}

\* place, of a pinned verb: one claim, on a connected box, not too old.
PinnedTo(who, n, b) ==
    /\ entry[b].where = "hosts" /\ entry[b].connected
    /\ SessionsOf(who, n) = {b} /\ Claim(b, n).age <= PinAge

Schedulable(b) == entry[b].where = "hosts" /\ entry[b].connected /\ entry[b].state = "healthy"

\* place, of a start: a healthy box that acts for the person, where nobody
\* else holds the name; a temporary one only by its own owner's naming it.
StartsOn(who, n, b) ==
    /\ Schedulable(b)
    /\ MayActFor(entry[b].actsFor, who)
    /\ who \in Persons \ operators => ~(b \in Claims(n) /\ Claim(b, n).row.by # who)

---------------------------------------------------------------------------
(* Actions *)

Connects(b) ==
    /\ Event
    /\ entry' = [entry EXCEPT ![b] = Connected(@, ActsFor(b, operators))]
    /\ UNCHANGED <<operators, enrolled, calls, said>>

Drops(b) ==
    /\ Event
    /\ entry[b].where = "hosts" /\ entry[b].connected
    /\ entry' = [entry EXCEPT ![b] = Disconnected(b, @)]
    /\ UNCHANGED <<operators, enrolled, calls, said>>

\* revokeHost, and ephemeralHostRetired: a goodbye, or ten minutes missing.
Removed(b) ==
    /\ Event
    /\ entry[b].where # "nowhere"
    /\ entry' = [entry EXCEPT ![b] = Unknown]
    /\ UNCHANGED <<operators, enrolled, calls, said>>

\* A frame that lists what the box holds, with its bin.
Reports(b, rows, state) ==
    /\ Event
    /\ entry[b].where = "hosts" /\ entry[b].connected
    /\ entry' = [entry EXCEPT ![b] = Recorded(@, TRUE, rows, state)]
    /\ said' = [said EXCEPT ![b] = [n \in Sessions |-> IF rows[n] # NoRow THEN 0 ELSE Old]]
    /\ UNCHANGED <<operators, enrolled, calls>>

\* A frame of a box whose session manager did not answer.
ReportsBusy(b) ==
    /\ Event
    /\ entry[b].where = "hosts" /\ entry[b].connected
    /\ entry' = [entry EXCEPT ![b] = Recorded(@, FALSE, Empty, "degraded")]
    /\ UNCHANGED <<operators, enrolled, calls, said>>

\* dispatch of a verb on one session, to where place put it.
Dispatch(who, n, b) ==
    /\ PinnedTo(who, n, b) \/ StartsOn(who, n, b)
    /\ calls' = calls \cup {b}
    /\ UNCHANGED <<operators, enrolled, entry, said, events>>

\* Its reply, which names a session; much may have happened meanwhile.
Replies(b, n, by) ==
    /\ Event
    /\ b \in calls /\ entry[b].where = "hosts" /\ entry[b].connected
    /\ calls' = calls \ {b}
    /\ entry' = [entry EXCEPT ![b] = Noted(@, n, by)]
    /\ said' = [said EXCEPT ![b][n] = 0]
    /\ UNCHANGED <<operators, enrolled>>

CallLost(b) ==
    /\ b \in calls /\ calls' = calls \ {b}
    /\ UNCHANGED <<operators, enrolled, entry, said, events>>

\* #retier, when somebody is removed or an admin signs in: actFor on every
\* connected or offline box whose person that is.  It attributes again what
\* the last frame listed, and leaves what was kept beside it.
Retiered(ops) ==
    entry' = [b \in Boxes |->
        IF entry[b].where = "hosts" /\ entry[b].actsFor # ActsFor(b, ops)
        THEN [entry[b] EXCEPT !.actsFor = ActsFor(b, ops), !.rows = Attributed(ActsFor(b, ops), @)]
        ELSE entry[b]]

OperatorChanges(p) ==
    /\ Event
    /\ operators' = IF p \in operators THEN operators \ {p} ELSE operators \cup {p}
    /\ Retiered(operators')
    /\ UNCHANGED <<enrolled, calls, said>>

\* A name enrolled again, on somebody else's pin: the registry hears of it when
\* the box connects.
Rekeys(b, p) ==
    /\ Event
    /\ b \notin Temporary /\ p # enrolled[b]
    /\ enrolled' = [enrolled EXCEPT ![b] = p]
    /\ UNCHANGED <<operators, entry, calls, said>>

\* The coordinator is rebuilt: the sockets that live connect again, of which
\* nothing is known.
RegistryRebuilt ==
    /\ Event
    /\ \E live \in SUBSET {b \in Boxes : entry[b].connected} :
          entry' = [b \in Boxes |-> IF b \in live THEN Connected(Unknown, ActsFor(b, operators))
                                    ELSE Unknown]
    /\ calls' = {}
    /\ UNCHANGED <<operators, enrolled, said>>

TimePasses ==
    /\ entry' = [b \in Boxes |-> Aged(entry[b])]
    /\ said' = [b \in Boxes |-> [n \in Sessions |-> Older(said[b][n])]]
    /\ UNCHANGED <<operators, enrolled, calls, events>>

---------------------------------------------------------------------------
(* Specification *)

PlacementInit ==
    /\ operators \in SUBSET Persons /\ enrolled = BoxPerson
    /\ entry = [b \in Boxes |-> Unknown]
    /\ calls = {}
    /\ said = [b \in Boxes |-> [n \in Sessions |-> Old]]
    /\ events = 0

PlacementNext ==
    \/ \E b \in Boxes :
          \/ Connects(b) \/ Drops(b) \/ Removed(b) \/ ReportsBusy(b) \/ CallLost(b)
          \/ \E rows \in [Sessions -> Rows], s \in {"healthy", "degraded"} : Reports(b, rows, s)
          \/ \E n \in Sessions, p \in Persons \cup {Anyone} : Dispatch(p, n, b)
          \/ \E n \in Sessions, p \in Persons \cup {NoPerson} : Replies(b, n, p)
          \/ \E p \in Persons : Rekeys(b, p)
    \/ \E p \in Persons : OperatorChanges(p)
    \/ RegistryRebuilt
    \/ TimePasses

PlacementSpec == PlacementInit /\ [][PlacementNext]_placementVars

---------------------------------------------------------------------------
(* Properties *)

\* "Pinning to a guess is worse than refusing" (registry.js): whatever a box
\* last said before it fell silent, dropped, was retiered or dialled back, a
\* verb that names a session is sent only where that session was claimed by
\* the box itself, within the pin age, and not taken back by it since.
ClaimsAreHeard ==
    \A b \in Boxes, n \in Sessions, who \in Persons \cup {Anyone} :
        PinnedTo(who, n, b) => said[b][n] <= PinAge

\* What a member's verb reaches by a box's live list is a box that may act for
\* them now, not one that could when it made the report.
ReachesItsPerson ==
    \A b \in Boxes, n \in Sessions, who \in Persons :
        PinnedTo(who, n, b) /\ entry[b].listed => MayActFor(entry[b].actsFor, who)

\* The same of whatever placement reads (registry.js, actFor: "for those
\* seconds their pinned verbs still reached a machine that no longer acted for
\* them").  Does not hold: actFor attributes the last frame again, and not the
\* list kept beside it.
ReachesItsPersonBusy ==
    \A b \in Boxes, n \in Sessions, who \in Persons :
        PinnedTo(who, n, b) => MayActFor(entry[b].actsFor, who)

\* "A single start reply describes one session, and treating it as the whole
\* truth would erase every other session on that box until the next frame"
\* (registry.js, noteSessions).  Does not hold of a box that could not tell its
\* sessions: the reply becomes its whole list, over what was kept.
NotingKeepsTheRest ==
    [][\A b \in Boxes, n \in Sessions, m \in Sessions, p \in Persons \cup {NoPerson} :
          Replies(b, m, p) /\ b \in Claims(n) => b \in Claims(n)']_placementVars
=============================================================================
