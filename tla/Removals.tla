------------------------------ MODULE Removals ------------------------------
(***************************************************************************)
(* What boxes owe after somebody is removed from the fleet, as             *)
(* CoordinatorCore keeps it (src/src/fleet/coordinator/core.js): a         *)
(* forgetting of the removed person, by every box of the fleet's           *)
(* (#forgetOnBoxes, #askForget), and a hand-back of everybody else's work, *)
(* by a removed admin's box, which is the fleet's no longer (#forgetPerson,*)
(* #handBack).  A box away owes it until it reports; a debt is kept on the *)
(* enrolment as the moment it is owed from, beside one list of removals.   *)
(*                                                                         *)
(* A box is asked to forget everybody it owes at once, and its answers are *)
(* waited for while people are removed and sign in again, it drops and     *)
(* returns, and the coordinator is rebuilt.  Writes are taken to be        *)
(* durable as they are made, and the list of removals as its set, which    *)
(* their moments order. What a box does with a request after its time is   *)
(* up only takes away what is left there, and is left out, as are the      *)
(* wording of records and an address no request can name.                  *)
(***************************************************************************)
EXTENDS Naturals, FiniteSets

CONSTANTS
    Members,        \* the people who have been in the fleet
    Admins,         \* those whose credentials, live or not, are an admin's
    FleetBoxes,     \* permanent boxes
    EnrolledBy,     \* who enrolled each
    RemovalsKept,   \* MAX_REMOVALS_KEPT
    NoAsk,
    MaxRemovals,    \* bound: removals
    MaxAbsences     \* bound: drops, rebuilds, revocations

ASSUME RemovalsAssumption ==
    /\ Admins \subseteq Members /\ EnrolledBy \in [FleetBoxes -> Members]
    /\ RemovalsKept \in Nat \ {0} /\ MaxRemovals \in Nat /\ MaxAbsences \in Nat

VARIABLES
    member,         \* people with a credential that works
    removals,       \* #removed: who, and when
    debts,          \* of each enrolment: revoked, handBackPending, forgetFrom (0: none)
    seen,           \* its registry entry: where it is, whether it is the fleet's,
                    \* and whether its last report lists its sessions
    asking,         \* #askForget under way: the newest removal it knew, and what
                    \* has become of each person asked about, removed when
    notBefore,      \* #forgetNotBefore
    old,            \* boxes of a release that does not know the verb
    left,           \* history: what a removed person left on a box, which was inside
                    \* the fleet's tier or outside it when they were removed
    unasked,        \* history: boxes out of the tier that nobody has asked yet
    made, absences

fleetDebts == <<member, removals, debts, left, unasked, made>>
removalVars == <<fleetDebts, seen, asking, notBefore, old, absences>>

Away == absences < MaxAbsences /\ absences' = absences + 1

NotSeen == [at |-> "gone", fleets |-> FALSE, lists |-> FALSE]
Unowed  == [said |-> "unsent", at |-> 0]

Asked == [said : {"unsent", "waiting", "did", "done", "refused", "unanswered"},
          at : 0..MaxRemovals]
Ask   == [upTo : 0..MaxRemovals, of : [Members -> Asked]]

RemovalsTypeOK ==
    /\ member \subseteq Members
    /\ removals \subseteq [who : Members, at : 1..MaxRemovals]
    /\ Cardinality(removals) <= RemovalsKept
    /\ debts \in [FleetBoxes -> [revoked : BOOLEAN, handBack : BOOLEAN, from : 0..MaxRemovals]]
    /\ seen \in [FleetBoxes -> [at : {"gone", "offline", "up"}, fleets : BOOLEAN, lists : BOOLEAN]]
    /\ asking \in [FleetBoxes -> Ask \cup {NoAsk}]
    /\ notBefore \in [FleetBoxes -> {"now", "later", "reconnect"}]
    /\ old \in SUBSET FleetBoxes
    /\ left \in [FleetBoxes -> [Members -> {"nothing", "inside", "outside"}]]
    /\ unasked \subseteq FleetBoxes /\ made \in 0..MaxRemovals /\ absences \in 0..MaxAbsences

---------------------------------------------------------------------------
(* Whose a box is, and what is owed *)

\* #isOperator and actsFor: an admin whose credential works.
OfTheFleet(b, people) == EnrolledBy[b] \in Admins \cap people

Standing(b) == ~debts[b].revoked

\* #pruneRemovals: what some box may still owe, of nobody who is back, ...
StillOwed(rs, d, people) ==
    {r \in rs : /\ r.who \notin people
                /\ \E b \in FleetBoxes : Standing(b) /\ d[b].from # 0 /\ d[b].from <= r.at}

\* ... of which the newest are kept,
Listed(rs) == {r \in rs : Cardinality({q \in rs : q.at > r.at}) < RemovalsKept}

\* and a record says which boxes will not be asked for the others.
SaidOf(rs, l) ==
    LET dropped == {r.who : r \in rs \ Listed(rs)} IN
    [b \in FleetBoxes |-> [p \in Members |-> IF p \in dropped THEN "nothing" ELSE l[b][p]]]

\* #askForget, to its await: everybody the box owes who is not back, unless it
\* is being asked already.
AsksForget(b, rs, d, people) ==
    LET owed   == {r \in rs : r.at >= d[b].from /\ r.who \notin people}
        newest == CHOOSE r \in rs : \A q \in rs : q.at <= r.at
    IN
    IF asking[b] # NoAsk \/ d[b].from = 0 THEN asking[b]
    ELSE [upTo |-> IF rs = {} THEN d[b].from ELSE newest.at,
          of |-> [p \in Members |-> IF \E r \in owed : r.who = p
                     THEN [said |-> "waiting", at |-> (CHOOSE r \in owed : r.who = p).at]
                     ELSE Unowed]]

---------------------------------------------------------------------------
(* People *)

\* The last credential of p is revoked, or p is revoked with none left
\* (revokeClient, revokePerson, #forgetPerson, #noteRemoval).  First the boxes p
\* enrolled leave the tier: one connected whose report says whose each session
\* is, is asked back what the tier gave it, the others owe that.  Then every
\* box that is still the fleet's owes forgetting p, and those connected are
\* asked.
RemovePerson(p) ==
    LET people  == member \ {p}
        demoted == {b \in FleetBoxes : Standing(b) /\ EnrolledBy[b] = p /\ OfTheFleet(b, member)}
        paid    == {b \in demoted : seen[b].at = "up" /\ seen[b].fleets /\ seen[b].lists}
        fleets  == {b \in FleetBoxes : Standing(b) /\ OfTheFleet(b, people)}
        d       == [b \in FleetBoxes |->
                      [debts[b] EXCEPT !.handBack = @ \/ b \in demoted \ paid,
                                       !.from = IF b \in fleets /\ @ = 0 THEN made + 1 ELSE @]]
        noted   == {r \in removals : r.who # p} \cup {[who |-> p, at |-> made + 1]}
        owed    == StillOwed(noted, d, people)
        leaves  == [b \in FleetBoxes |->
                      IF p \notin member \/ ~Standing(b) \/ EnrolledBy[b] = p THEN left[b]
                      ELSE [left[b] EXCEPT ![p] = IF b \in fleets THEN "inside"
                                                  ELSE "outside"]]
    IN
    /\ made < MaxRemovals /\ made' = made + 1
    /\ member' = people /\ debts' = d /\ removals' = Listed(owed)
    /\ seen' = [b \in FleetBoxes |-> IF seen[b].at = "gone" THEN seen[b]
                                     ELSE [seen[b] EXCEPT !.fleets = OfTheFleet(b, people)]]
    /\ asking' = [b \in FleetBoxes |-> IF b \in fleets /\ seen[b].at = "up"
                                       THEN AsksForget(b, noted, d, people) ELSE asking[b]]
    /\ left' = SaidOf(owed, leaves)
    /\ unasked' = (unasked \cup demoted) \ paid
    /\ UNCHANGED <<notBefore, old, absences>>

\* issueClient: an admin's boxes are the fleet's again (#retier), and owe no
\* hand-back any more.
SignsInAgain(p) ==
    LET theirs == {b \in FleetBoxes : OfTheFleet(b, member \cup {p})} IN
    /\ p \notin member /\ member' = member \cup {p}
    /\ left' = [b \in FleetBoxes |-> [left[b] EXCEPT ![p] = "nothing"]]
    /\ IF p \in Admins
       THEN /\ debts' = [b \in FleetBoxes |-> [debts[b] EXCEPT !.handBack = @ /\ b \notin theirs]]
            /\ seen' = [b \in FleetBoxes |-> IF seen[b].at = "gone" THEN seen[b]
                                             ELSE [seen[b] EXCEPT !.fleets = b \in theirs]]
            /\ unasked' = unasked \ theirs
       ELSE UNCHANGED <<debts, seen, unasked>>
    /\ UNCHANGED <<removals, asking, notBefore, old, made, absences>>

---------------------------------------------------------------------------
(* Boxes *)

\* hostConnected, with what the registry knew of it; it may have been updated.
BoxReturns(b) ==
    /\ Standing(b) /\ seen[b].at # "up"
    /\ seen' = [seen EXCEPT ![b].at = "up", ![b].fleets = OfTheFleet(b, member)]
    /\ notBefore' = [notBefore EXCEPT ![b] = "now"]
    /\ old' \in {old, old \ {b}}
    /\ UNCHANGED <<fleetDebts, asking, absences>>

BoxLeaves(b) ==
    /\ Away /\ seen[b].at = "up"
    /\ seen' = [seen EXCEPT ![b].at = "offline"]
    /\ UNCHANGED <<fleetDebts, asking, notBefore, old>>

\* Mutant: any report pays a hand-back.
PaysByAny(lists) == TRUE

\* Only one that can say whose each session is.
Pays(lists) == lists

\* A health frame: a hand-back owed is asked from it, and a forgetting owed
\* when the hub answers, and then it is the last report (onHostMessage).
BoxReports(b, hub, lists) ==
    LET pays == debts[b].handBack /\ Pays(lists)
        asks == pays /\ ~seen[b].fleets /\ lists IN
    /\ seen[b].at = "up" /\ (lists => hub)
    /\ debts' = [debts EXCEPT ![b].handBack = @ /\ ~pays]
    /\ unasked' = IF asks THEN unasked \ {b} ELSE unasked
    /\ left' = IF asks THEN [left EXCEPT ![b] = [p \in Members |->
                                IF @[p] = "outside" THEN "nothing" ELSE @[p]]]
               ELSE left
    /\ asking' = IF hub /\ notBefore[b] = "now"
                 THEN [asking EXCEPT ![b] = AsksForget(b, removals, debts, member)]
                 ELSE asking
    /\ seen' = [seen EXCEPT ![b].lists = lists]
    /\ UNCHANGED <<member, removals, made, notBefore, old, absences>>

\* revokeHost.  What is on it is a machine's the fleet has given up, which only
\* a hand-back may still be owed by.
BoxRevoked(b) ==
    /\ Away /\ Standing(b)
    /\ debts' = [debts EXCEPT ![b].revoked = TRUE]
    /\ seen' = [seen EXCEPT ![b] = NotSeen]
    /\ left' = [left EXCEPT ![b] = [p \in Members |-> "nothing"]]
    /\ UNCHANGED <<member, removals, unasked, made, asking, notBefore, old>>

\* enrol, of a name revoked: what it owed is carried over.
BoxReadmitted(b) ==
    /\ ~Standing(b) /\ EnrolledBy[b] \in member
    /\ debts' = [debts EXCEPT ![b].revoked = FALSE]
    /\ UNCHANGED <<member, removals, left, unasked, made, seen, asking, notBefore, old, absences>>

---------------------------------------------------------------------------
(* A box being asked *)

AskedOf(b, p, said) == asking[b] # NoAsk /\ asking[b].of[p].said = said
AskSays(b, p, said) == asking' = [asking EXCEPT ![b].of[p].said = said]

\* It forgets p: the sessions and sign-ins it finds, whenever p was removed.
BoxForgets(b, p) ==
    /\ seen[b].at = "up" /\ b \notin old /\ AskedOf(b, p, "waiting")
    /\ AskSays(b, p, "did")
    /\ left' = [left EXCEPT ![b][p] = "nothing"]
    /\ UNCHANGED <<member, removals, debts, unasked, made, seen, notBefore, old, absences>>

SaysDone(b, p) ==
    /\ seen[b].at = "up" /\ AskedOf(b, p, "did")
    /\ AskSays(b, p, "done")
    /\ UNCHANGED <<fleetDebts, seen, notBefore, old, absences>>

\* A release from before the verb; it is asked what it does understand.
SaysUnknown(b, p) ==
    /\ seen[b].at = "up" /\ b \in old /\ AskedOf(b, p, "waiting")
    /\ AskSays(b, p, "refused")
    /\ UNCHANGED <<fleetDebts, seen, notBefore, old, absences>>

\* Its hub could not, it is not there to ask, or its answer is not got in time.
NotAnswered(b, p) ==
    /\ AskedOf(b, p, "waiting") \/ AskedOf(b, p, "did")
    /\ AskSays(b, p, "unanswered")
    /\ UNCHANGED <<fleetDebts, seen, notBefore, old, absences>>

Least(ns) == IF ns = {} THEN 0 ELSE CHOOSE n \in ns : \A m \in ns : n <= m

\* Mutant: only those it did not confirm.
OwedUnheard(b) ==
    {asking[b].of[p].at : p \in {q \in Members : asking[b].of[q].said \in {"refused", "unanswered"}}}

\* What it still owes: those it did not confirm, and removals since this ask
\* began.
OwedAfter(b) ==
    {asking[b].of[p].at : p \in {q \in Members : asking[b].of[q].said \in {"refused", "unanswered"}}}
    \cup {r.at : r \in {r \in removals : r.at > asking[b].upTo}}

\* #askForget, after its await.
AskSettles(b) ==
    LET said == {asking[b].of[p].said : p \in Members}
        d    == [debts EXCEPT ![b].from = Least(OwedAfter(b))]
        owed == StillOwed(removals, d, member) IN
    /\ asking[b] # NoAsk /\ said \cap {"waiting", "did"} = {}
    /\ asking' = [asking EXCEPT ![b] = NoAsk]
    /\ notBefore' = [notBefore EXCEPT ![b] =
                        IF "refused" \in said THEN "reconnect"
                        ELSE IF "unanswered" \in said THEN "later" ELSE "now"]
    /\ IF Standing(b)
       THEN /\ debts' = d /\ removals' = Listed(owed) /\ left' = SaidOf(owed, left)
       ELSE UNCHANGED <<debts, removals, left>>
    /\ UNCHANGED <<member, unasked, made, seen, old, absences>>

\* FORGET_RETRY_MS are over.
MayAskAgain(b) ==
    /\ notBefore[b] = "later"
    /\ notBefore' = [notBefore EXCEPT ![b] = "now"]
    /\ UNCHANGED <<fleetDebts, seen, asking, old, absences>>

\* The coordinator is rebuilt: nothing is waited for, and of the boxes it knows
\* those that are connected, without a report.
FleetRebuilt ==
    /\ Away
    /\ asking' = [b \in FleetBoxes |-> NoAsk]
    /\ notBefore' = [b \in FleetBoxes |-> "now"]
    /\ seen' = [b \in FleetBoxes |->
                  IF seen[b].at = "up" THEN [seen[b] EXCEPT !.lists = FALSE] ELSE NotSeen]
    /\ UNCHANGED <<fleetDebts, old>>

---------------------------------------------------------------------------
(* Specification *)

RemovalsInit ==
    /\ member = Members /\ removals = {}
    /\ debts = [b \in FleetBoxes |-> [revoked |-> FALSE, handBack |-> FALSE, from |-> 0]]
    /\ seen = [b \in FleetBoxes |-> NotSeen]
    /\ asking = [b \in FleetBoxes |-> NoAsk]
    /\ notBefore = [b \in FleetBoxes |-> "now"]
    /\ old \in SUBSET FleetBoxes
    /\ left = [b \in FleetBoxes |-> [p \in Members |-> "nothing"]]
    /\ unasked = {} /\ made = 0 /\ absences = 0

RemovalsNext ==
    \/ \E p \in Members : RemovePerson(p) \/ SignsInAgain(p)
    \/ \E b \in FleetBoxes :
          \/ BoxReturns(b) \/ BoxLeaves(b) \/ BoxRevoked(b) \/ BoxReadmitted(b)
          \/ \E hub, lists \in BOOLEAN : BoxReports(b, hub, lists)
          \/ \E p \in Members :
                BoxForgets(b, p) \/ SaysDone(b, p) \/ SaysUnknown(b, p) \/ NotAnswered(b, p)
          \/ AskSettles(b) \/ MayAskAgain(b)
    \/ FleetRebuilt

RemovalsSpec == RemovalsInit /\ [][RemovalsNext]_removalVars

---------------------------------------------------------------------------
(* Properties *)

Owes(b, p) == debts[b].from # 0 /\ \E r \in removals : r.who = p /\ r.at >= debts[b].from

\* "The removal is a debt each box in the operator's tier owes until the box
\* itself says it is paid" (core.js:3420): whoever is removed or back while a
\* box is asked, away, too old to be asked, or the coordinator rebuilt, what
\* was left on a box of the fleet's is owed until the box has acted, or a record
\* says that the list was too long.  And a box that left the tier owes its
\* hand-back until it is asked from a report that says whose each session is.
OwedUntilPaid ==
    /\ \A b \in FleetBoxes, p \in Members : left[b][p] = "inside" => Owes(b, p)
    /\ \A b \in unasked : debts[b].handBack

\* "Every one of those boxes told to forget it, the ones away at the time
\* included" (core.js:3392): a box of the fleet's holds nothing of somebody
\* removed that it does not owe.  Does not hold: a person removed while the
\* box was out of the tier, before its hand-back was paid, is owed by nobody
\* when its admin signs in again and the hand-back is withdrawn.
ReturnedBoxesOwe ==
    \A b \in FleetBoxes, p \in Members :
        Standing(b) /\ OfTheFleet(b, member) /\ left[b][p] # "nothing" => Owes(b, p)
=============================================================================
