------------------------------ MODULE Standby ------------------------------
(***************************************************************************)
(* Machines one person keeps ready on a hypervisor: VmStandby              *)
(* (src/src/fleet/coordinator/vm-standby.js) with the handlers of          *)
(* CoordinatorCore that ask for them, take them and let them in            *)
(* (coordinator/core.js), and the tickets they spend.                      *)
(*                                                                         *)
(* A machine short is asked for in steps with an await between them: the   *)
(* wish and what is kept are read, a ticket is minted, and the boxes       *)
(* holding the pool are asked one after another, with the same ticket.     *)
(* The boxes and the machines they make are outside (host/sidecar.js and   *)
(* host/vm-join.js, as the coordinator sees them).                         *)
(*                                                                         *)
(* Time is counted in steps of which Pending make PENDING_MS.  Why a       *)
(* machine did not come, and labs, groups and sessions, are left out.      *)
(***************************************************************************)
EXTENDS Naturals, FiniteSets

CONSTANTS
    Kinds,          \* an image and a network
    MachineIds,     \* ticket ids, which name the machines
    Holders,        \* boxes holding the pool
    NoWish, NotEnrolled,
    MaxReady,       \* MAX_READY
    Pending,        \* PENDING_MS
    MaxChanges      \* bound: changes of the wish, restarts, ends and takings

Wishes == [kind : Kinds, count : 1..MaxReady]

ASSUME StandbyAssumption ==
    /\ IsFiniteSet(MachineIds)
    /\ NoWish \notin Wishes /\ NotEnrolled \notin MachineIds \cup Holders /\ "gone" \notin Holders
    /\ MaxReady \in Nat \ {0} /\ Pending \in Nat \ {0} /\ MaxChanges \in Nat

VARIABLES
    wish,           \* VmStandby.wishes, of the one person
    kept,           \* VmStandby.machines
    ticket,         \* RunnerTickets: state and age
    asks,           \* top-ups under way: there being one is toppingUp
    carried,        \* requests to make a machine that a box has yet to handle
    vms,            \* the machines the boxes made
    host,           \* HostIdentities: which made machine enrolled under an id
    givenUp,        \* history: machines tally gave up on
    changes

standbyVars == <<wish, kept, ticket, asks, carried, vms, host, givenUp, changes>>

NotKept == [kept |-> FALSE]
\* An ask: the wish it was decided under, the ticket's id once minted, the
\* boxes not asked yet and the one that is.
TopUps == [wish : Wishes, id : MachineIds \cup {NotEnrolled}, left : SUBSET Holders,
         at : Holders \cup {NotEnrolled}]

StandbyTypeOK ==
    /\ wish \in Wishes \cup {NoWish}
    /\ kept \in [MachineIds -> {NotKept} \cup
                    [kept : {TRUE}, kind : Kinds, age : 0..Pending + 1, enrolled : BOOLEAN]]
    /\ ticket \in [MachineIds -> [is : {"none", "live", "spent", "over"}, age : 0..Pending]]
    /\ asks \subseteq TopUps
    /\ carried \subseteq MachineIds \X Holders
    /\ vms \in [MachineIds -> [Holders -> {"none", "booting", "up", "refused"}]]
    /\ host \in [MachineIds -> Holders \cup {NotEnrolled, "gone"}]
    /\ givenUp \subseteq MachineIds
    /\ changes \in 0..MaxChanges

Change == changes < MaxChanges /\ changes' = changes + 1

Of(k) == {m \in MachineIds : k[m].kept}
Matching(k, w) == {m \in Of(k) : w # NoWish /\ k[m].kind = w.kind}

KeptWithout(k, ms) == [m \in MachineIds |-> IF m \in ms THEN NotKept ELSE k[m]]

---------------------------------------------------------------------------
(* VmStandby *)

\* #standbyGone: an enrolled one that is in the fleet no more.
MachineGone(m) == host[m] \in {NotEnrolled, "gone"}

\* What tally forgets: an enrolled one gone, one that never enrolled.
NeverCame(k) == {m \in Of(k) : ~k[m].enrolled /\ k[m].age > Pending}
Tallied(k) == KeptWithout(k, NeverCame(k) \cup {m \in Of(k) : k[m].enrolled /\ MachineGone(m)})

\* set: what no longer matches is ended, and of the others the youngest beyond
\* the count.
Stay(w) == {s \in SUBSET Matching(kept, w) :
              /\ \/ s = Matching(kept, w) /\ (w # NoWish => Cardinality(s) <= w.count)
                 \/ w # NoWish /\ Cardinality(s) = w.count
              /\ \A a \in s, b \in Matching(kept, w) \ s : kept[a].age >= kept[b].age}

\* noteMade: twice what one may keep, and no more.
RoomToNote == Cardinality(Of(kept)) < 2 * MaxReady

---------------------------------------------------------------------------
(* Asking for one more *)

\* One more is asked for when what is kept is short of the wish: of no box,
\* when none holds the pool now.
Short(k, w) == Cardinality(Matching(k, w)) < w.count
Beginnings(w) == [wish : {w}, id : {NotEnrolled}, left : SUBSET Holders \ {{}}, at : {NotEnrolled}]

\* Mutant: two top-ups at once.
TopsUpAgain(k, w) ==
    /\ kept' = Tallied(k)
    /\ givenUp' = givenUp \cup NeverCame(k)
    /\ IF w # NoWish /\ Short(Tallied(k), w)
       THEN \E a \in Beginnings(w) : asks' = asks \cup {a}
       ELSE asks' = asks

\* topUpStandby, to its first await: one at a time, and what is kept is
\* counted with what is gone forgotten.
TopsUp(k, w) ==
    IF w # NoWish /\ asks = {}
    THEN /\ kept' = Tallied(k)
         /\ givenUp' = givenUp \cup NeverCame(k)
         /\ \/ asks' = {}
            \/ Short(Tallied(k), w) /\ \E a \in Beginnings(w) : asks' = {a}
    ELSE kept' = k /\ UNCHANGED <<givenUp, asks>>

\* A health frame of a box that holds a pool.
TopUp ==
    /\ TopsUp(kept, wish)
    /\ UNCHANGED <<wish, ticket, carried, vms, host, changes>>

\* A snapshot counts, and so forgets.
Snapshot ==
    /\ wish # NoWish
    /\ kept' = Tallied(kept)
    /\ givenUp' = givenUp \cup NeverCame(kept)
    /\ UNCHANGED <<wish, ticket, asks, carried, vms, host, changes>>

\* setVmStandby: the machines no longer wanted are also told to end, which is
\* an End of theirs.
SetWish(w) ==
    /\ Change
    /\ w # wish
    /\ wish' = w
    /\ \E s \in Stay(w) : TopsUp(KeptWithout(kept, Of(kept) \ s), w)
    /\ UNCHANGED <<ticket, carried, vms, host>>

\* #provisionVm of a person who keeps one ready: it is taken and another
\* asked for (#startOnKept).
Take(m) ==
    /\ Change
    /\ kept[m].kept /\ kept[m].enrolled /\ host[m] \in Holders
    /\ TopsUp(KeptWithout(kept, {m}), wish)
    /\ UNCHANGED <<wish, ticket, carried, vms, host>>

\* The ticket is minted, and the machine is being made from here.
Minted(m) ==
    /\ ticket[m].is = "none"
    /\ m = CHOOSE o \in MachineIds : ticket[o].is = "none"
    /\ ticket' = [ticket EXCEPT ![m].is = "live"]
    /\ \E a \in asks :
         /\ a.id = NotEnrolled
         /\ IF RoomToNote
            THEN /\ kept' = [kept EXCEPT ![m] = [kept |-> TRUE, kind |-> a.wish.kind,
                                                 age |-> 0, enrolled |-> FALSE]]
                 /\ asks' = (asks \ {a}) \cup {[a EXCEPT !.id = m]}
            ELSE asks' = asks \ {a} /\ UNCHANGED kept
    /\ UNCHANGED <<wish, carried, vms, host, givenUp, changes>>

\* The next box is asked, with the same ticket; one too old is passed over.
AskBox(h) ==
    /\ \E a \in asks :
         /\ a.id # NotEnrolled /\ a.at = NotEnrolled /\ h \in a.left
         /\ asks' = (asks \ {a}) \cup {[a EXCEPT !.left = @ \ {h}, !.at = h]}
         /\ carried' = carried \cup {<<a.id, h>>}
    /\ UNCHANGED <<wish, kept, ticket, vms, host, givenUp, changes>>

Awaits(m, h) == {a \in asks : a.id = m /\ a.at = h}
Settled(a) == asks' = asks \ {a}

\* What is left of asking: the next box after one that could not be reached
\* or could not reach the pool, and with none left the machine is forgotten.
NextBox(a) ==
    IF a.left = {}
    THEN Settled(a) /\ kept' = KeptWithout(kept, {a.id})
    ELSE asks' = (asks \ {a}) \cup {[a EXCEPT !.at = NotEnrolled]} /\ UNCHANGED kept

\* The call fails on the way there, on the way back or by taking too long: it
\* is thrown, and the box may have it still.
AskFails ==
    /\ \E a \in asks : a.at # NotEnrolled /\ NextBox(a)
    /\ UNCHANGED <<wish, ticket, carried, vms, host, givenUp, changes>>

\* A box makes the machine, and the answer reaches an ask that waits for it.
BoxMakes(m, h) ==
    /\ <<m, h>> \in carried
    /\ carried' = carried \ {<<m, h>>}
    /\ vms' = [vms EXCEPT ![m][h] = "booting"]
    /\ asks' = asks \/ \E a \in Awaits(m, h) : Settled(a)
    /\ UNCHANGED <<wish, kept, ticket, host, givenUp, changes>>

\* A box does not: it cannot reach the pool, or the pool refuses.
BoxRefuses(m, h) ==
    /\ <<m, h>> \in carried
    /\ carried' = carried \ {<<m, h>>}
    /\ \E a \in Awaits(m, h) : NextBox(a) \/ (Settled(a) /\ kept' = KeptWithout(kept, {m}))
    /\ UNCHANGED <<wish, ticket, vms, host, givenUp, changes>>

\* A request nobody waits for comes to nothing.
BoxNeverHears(m, h) ==
    /\ <<m, h>> \in carried
    /\ Awaits(m, h) = {}
    /\ carried' = carried \ {<<m, h>>}
    /\ UNCHANGED <<wish, kept, ticket, asks, vms, host, givenUp, changes>>

---------------------------------------------------------------------------
(* Machines joining *)

\* enrolVm: a live ticket lets its machine in, once; the same machine again
\* is answered as before; another with a spent one takes the first out too
\* (#vmTicketSpentTwice).  An answer may not arrive, and a machine without
\* one presents its ticket at its next start.
Presents(m, h) ==
    /\ vms[m][h] = "booting"
    /\ \/ /\ ticket[m].is = "live"
          /\ ticket' = [ticket EXCEPT ![m].is = "spent"]
          /\ host' = [host EXCEPT ![m] = h]
          /\ kept' = IF kept[m].kept THEN [kept EXCEPT ![m].enrolled = TRUE] ELSE kept
          /\ \E v \in {"up", "booting"} : vms' = [vms EXCEPT ![m][h] = v]
       \/ /\ ticket[m].is = "spent"
          /\ IF host[m] = h
             THEN vms' = [vms EXCEPT ![m][h] = "up"] /\ UNCHANGED <<kept, host>>
             ELSE /\ vms' = [vms EXCEPT ![m][h] = "refused"]
                  /\ IF host[m] \in Holders
                     THEN host' = [host EXCEPT ![m] = "gone"] /\ kept' = KeptWithout(kept, {m})
                     ELSE UNCHANGED <<kept, host>>
          /\ UNCHANGED ticket
       \/ /\ ticket[m].is = "over"
          /\ vms' = [vms EXCEPT ![m][h] = "refused"]
          /\ UNCHANGED <<kept, host, ticket>>
    /\ UNCHANGED <<wish, asks, carried, givenUp, changes>>

\* Its time is up, it is ended, or it is missing for ten minutes.
Ends(m) ==
    /\ Change
    /\ host[m] \in Holders
    /\ host' = [host EXCEPT ![m] = "gone"]
    /\ UNCHANGED <<wish, kept, ticket, asks, carried, vms, givenUp>>

---------------------------------------------------------------------------
(* Time and restarts *)

\* Mutant: a ticket that outlives the wait for its machine.
SweptLate(t) ==
    IF t.is \in {"live", "spent"} /\ t.age < Pending THEN [t EXCEPT !.age = @ + 1] ELSE t

\* #sweep: a ticket is over once its time, which is the wait's, has passed.
Swept(t) ==
    IF t.is \notin {"live", "spent"} THEN t
    ELSE IF t.age + 1 >= Pending THEN [is |-> "over", age |-> 0]
    ELSE [t EXCEPT !.age = @ + 1]

StandbyTick ==
    /\ \E m \in MachineIds : ticket[m].is \in {"live", "spent"}
                           \/ (kept[m].kept /\ kept[m].age <= Pending)
    /\ ticket' = [m \in MachineIds |-> Swept(ticket[m])]
    /\ kept' = [m \in MachineIds |->
                  IF kept[m].kept /\ kept[m].age <= Pending THEN [kept[m] EXCEPT !.age = @ + 1]
                  ELSE kept[m]]
    /\ UNCHANGED <<wish, asks, carried, vms, host, givenUp, changes>>

\* The coordinator's object starts again with what it stored.
Restarts ==
    /\ Change
    /\ asks' = {}
    /\ UNCHANGED <<wish, kept, ticket, carried, vms, host, givenUp>>

---------------------------------------------------------------------------
StandbyInit ==
    /\ wish \in Wishes \cup {NoWish} /\ asks = {} /\ carried = {} /\ givenUp = {} /\ changes = 0
    /\ kept = [m \in MachineIds |-> NotKept]
    /\ ticket = [m \in MachineIds |-> [is |-> "none", age |-> 0]]
    /\ vms = [m \in MachineIds |-> [h \in Holders |-> "none"]]
    /\ host = [m \in MachineIds |-> NotEnrolled]

StandbyNext ==
    \/ \E w \in Wishes \cup {NoWish} : SetWish(w)
    \/ TopUp \/ Snapshot \/ AskFails \/ StandbyTick \/ Restarts
    \/ \E m \in MachineIds : Take(m) \/ Minted(m) \/ Ends(m)
    \/ \E h \in Holders : AskBox(h)
    \/ \E m \in MachineIds, h \in Holders :
         BoxMakes(m, h) \/ BoxRefuses(m, h) \/ BoxNeverHears(m, h) \/ Presents(m, h)

StandbySpec == StandbyInit /\ [][StandbyNext]_standbyVars

---------------------------------------------------------------------------
\* What is kept passes what the person asked for only by a machine whose
\* asking was decided under another wish, changed while its ticket was being
\* minted: not by two frames, a frame and the Keep button, or a restart, which
\* the comments of topUpStandby and #provisionVm say it once did.
SurplusIsStale ==
    [][(wish' = wish /\ Cardinality(Matching(kept', wish')) > Cardinality(Matching(kept, wish)))
       => (Cardinality(Matching(kept', wish)) <= wish.count \/ \E a \in asks : a.wish # wish)]_standbyVars

\* A machine given up on, in whose place another may be asked for, does not
\* join later: the wait and its ticket end together.
GivenUpStaysAway == \A m \in givenUp : host[m] = NotEnrolled

\* A machine is taken out for a ticket presented twice only when somebody
\* else held it (#vmTicketSpentTwice).  Does not hold: a box whose answer was
\* lost made one machine, and the next box makes another with that ticket.
AlarmIsReal ==
    [][\A m \in MachineIds, h \in Holders :
         ~(vms[m][h] = "booting" /\ vms'[m][h] = "refused" /\ host[m] # host'[m])]_standbyVars
=============================================================================
