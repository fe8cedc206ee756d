-------------------------- MODULE AdmissionProofs --------------------------
(***************************************************************************)
(* What holds of Admission for every set of pins, tickets and machines,    *)
(* every limit of the stores and every delay at the door.                  *)
(*                                                                         *)
(* Single use is not inductive by itself: a credential that admitted a     *)
(* machine must be out of memory and of storage at once (UsedAreUnheld),   *)
(* also while its handler is between two writes (InHand), and what storage *)
(* would bring back must be no more than what memory has (StoredAreHeld),  *)
(* or a pin forgotten from memory would outlive the restart.               *)
(*                                                                         *)
(* The guesses looked up for nothing are bounded in any window, not only   *)
(* in the one that ends now; what the delay counts is all of the window    *)
(* that ends now (GuessesCounted).                                         *)
(*                                                                         *)
(* That Admission implements SingleUse is shown one action at a time: what *)
(* is good there is what memory holds and has not lapsed here.  A rebuild  *)
(* is a lapse because storage brings back nothing memory had let go        *)
(* (StoredAreHeld), and an answer comes of one that is held no more        *)
(* (InHand).                                                               *)
(***************************************************************************)
EXTENDS Admission, FiniteSetTheorems, TLAPS

\* Out of every store, having once been minted.
Unheld(c) ==
    /\ minted[c] # 0
    /\ c \notin pins /\ c \notin tickets /\ c \notin stored.pins /\ c \notin stored.tickets

HeldAreMinted ==
    \A c \in Creds :
        c \in pins \/ c \in tickets \/ c \in stored.pins \/ c \in stored.tickets
            => minted[c] # 0

UsedAreUnheld ==
    /\ \A a \in admitted : Unheld(a[1])
    /\ \A s \in spent : Unheld(s.ticket)
    /\ \A s \in stored.spent : Unheld(s.ticket)
    /\ \A t \in VmTickets : presented[t] # {} => Unheld(t)

InHand ==
    ~Idle => /\ Unheld(handling.cred)
             /\ handling.cred \notin withdrawn /\ handling.cred \notin VmTickets
             /\ handling.name \notin VmTickets
             /\ \A a \in admitted : a[1] # handling.cred

StoredAreHeld ==
    \A c \in Creds : Good(c) => /\ c \in stored.pins => c \in pins
                                /\ c \in stored.tickets => c \in tickets

WithdrawnAreLost ==
    \A c \in withdrawn :
        /\ minted[c] # 0 /\ c \notin pins /\ c \notin tickets
        /\ c \in stored.pins \/ c \in stored.tickets => ~Good(c)

VmHolder ==
    \A t \in VmTickets :
        /\ hosts[t].status = "live" =>
              <<t, hosts[t].machine>> \in admitted /\ presented[t] = {hosts[t].machine}
        /\ stored.hosts[t].status = "live" => hosts[t] = stored.hosts[t]

OneMachine == \A a, b \in admitted : a[1] = b[1] => a[2] = b[2]

TurnsTaken ==
    /\ IsFiniteSet(failures)
    /\ \A r \in waiting : r.no < arrivals /\ r.wake <= nextTurn

IInv ==
    /\ HeldAreMinted /\ UsedAreUnheld /\ InHand /\ StoredAreHeld
    /\ WithdrawnAreLost /\ VmHolder /\ OneMachine

LEMMA Constants ==
    /\ \A p \in Pins : p \in Creds /\ p \notin Tickets /\ p \notin VmTickets /\ p \notin JobTickets
    /\ \A t \in Tickets : t \in Creds /\ t \notin Pins
    /\ \A t \in VmTickets : t \in Tickets /\ t \notin JobTickets /\ t \in Names
                            /\ t \notin PinNames /\ t \notin Machines
    /\ \A t \in JobTickets : t \in Tickets /\ t \notin VmTickets
    /\ \A m \in Machines : m \in Names /\ m \notin VmTickets /\ m # Nobody
    /\ \A n \in PinNames : n \in Names /\ n \notin VmTickets
    /\ \A c \in Creds : c # Nobody
  BY AdmissionAssumption DEF Tickets, Creds, Names

LEMMA Bounds ==
    /\ MaxClock \in Nat \ {0} /\ MaxArrivals \in Nat /\ MaxFailures \in Nat /\ MaxQueue \in Nat
    /\ Step \in Nat \ {0} /\ PenaltyMax \in Nat \ {0} /\ Window \in Nat \ {0}
  BY AdmissionAssumption

LEMMA Lifetimes == \A c \in Creds : TTL[c] \in Nat
  BY AdmissionAssumption

LEMMA StorageTypes ==
    ASSUME TypeOK
    PROVE  /\ stored.pins \subseteq Pins /\ stored.tickets \subseteq Tickets
           /\ stored.spent \subseteq Spent /\ stored.hosts \in [Names -> Host]
  BY DEF TypeOK, Storage

LEMMA StorageMade ==
    ASSUME NEW P \in SUBSET Pins, NEW T \in SUBSET Tickets, NEW S \in SUBSET Spent,
           NEW H \in [Names -> Host]
    PROVE  [pins |-> P, tickets |-> T, spent |-> S, hosts |-> H] \in Storage
  BY DEF Storage

LEMMA HostMade ==
    ASSUME TypeOK, NEW n \in Names, NEW m \in Machines, NEW c \in Creds
    PROVE  WithHost(n, m, c) \in [Names -> Host]
<1>1. [status |-> "live", machine |-> m, cred |-> c] \in Host
  BY DEF Host
<1> QED
  BY <1>1 DEF TypeOK, WithHost

LEMMA RevokedTypes ==
    ASSUME TypeOK, NEW S
    PROVE  Revoked(S) \in [Names -> Host]
<1>1. ASSUME NEW n \in Names PROVE [hosts[n] EXCEPT !.status = "revoked"] \in Host
  BY DEF TypeOK, Host
<1> QED
  BY <1>1 DEF TypeOK, Revoked

LEMMA MintTypes ==
    ASSUME NEW store, NEW c
    PROVE  \A S \in Mint(store, c) : S \subseteq store \cup {c}
  BY DEF Mint

---------------------------------------------------------------------------
(* Type correctness *)

LEMMA PenaltyTypes ==
    ASSUME TypeOK, IsFiniteSet(failures)
    PROVE  Penalty \in Nat /\ Penalty <= PenaltyMax /\ Turn \in Nat /\ Turn >= now
           /\ Turn >= nextTurn
<1>1. Recent \subseteq failures /\ IsFiniteSet(Recent)
  BY FS_Subset DEF Recent
<1>2. Cardinality(Recent) \in Nat
  BY <1>1, FS_CardinalityType
<1>3. Cardinality(Recent) < MaxFailures => Penalty \in Nat /\ Penalty <= PenaltyMax
  BY Bounds DEF Penalty
<1>4. ASSUME ~(Cardinality(Recent) < MaxFailures)
      PROVE  Penalty \in Nat /\ Penalty <= PenaltyMax
  <2> DEFINE over == (Cardinality(Recent) + 1) - MaxFailures
  <2>1. over \in Nat
    BY <1>2, <1>4, Bounds
  <2>2. over * Step \in Nat
    BY ONLY <2>1, Bounds
  <2>3. Penalty = IF over * Step < PenaltyMax THEN over * Step ELSE PenaltyMax
    BY <1>4 DEF Penalty
  <2> HIDE DEF over
  <2>4. Penalty \in Nat /\ Penalty <= PenaltyMax
    BY <2>2, <2>3, Bounds
  <2> QED
    BY <2>4
<1>5. now \in Nat /\ nextTurn \in Nat
  BY Bounds DEF TypeOK
<1>6. Turn \in Nat /\ Turn >= now /\ Turn >= nextTurn
  BY <1>5 DEF Turn
<1>7. Penalty \in Nat /\ Penalty <= PenaltyMax
  BY <1>3, <1>4
<1> QED
  BY <1>6, <1>7

LEMMA TypeInit == Init => TypeOK
<1> SUFFICES ASSUME Init PROVE TypeOK
  OBVIOUS
<1>1. 1 \in 1..MaxClock /\ 0 \in 0..MaxClock /\ 0 \in 0..MaxArrivals
  BY Bounds
<1>2. NoHost \in Host
  BY DEF NoHost, Host
<1>3. hosts \in [Names -> Host]
  BY <1>2 DEF Init
<1>4. stored \in Storage
  BY <1>3, StorageMade DEF Init
<1> QED
  BY <1>1, <1>3, <1>4 DEF Init, TypeOK

\* A lookup, of a request just arrived or just woken.
LEMMA LookUpTypes ==
    ASSUME TypeOK, NEW req \in Request, NEW counted \in SUBSET Guess, NEW pending \in SUBSET Pins,
           LookUp(req, counted, pending)
    PROVE  /\ pins' \subseteq Pins /\ stored' \in Storage
           /\ handling' \in Admitting \cup {Nobody}
           /\ failures' \subseteq Guess /\ guesses' \subseteq Guess
<1> DEFINE guess == [no |-> req.no, at |-> now, waited |-> req.wake > req.since]
           expired == req.pin \in pending /\ ~Good(req.pin)
           fits == req.pin \in pending /\ ~expired /\ BoundTo[req.pin] \in {AnyName, req.name}
           left == IF fits \/ expired THEN pending \ {req.pin} ELSE pending
<1>1. guess \in Guess
  <2>1. now \in Nat
    BY Bounds DEF TypeOK
  <2> QED
    BY <2>1 DEF Request, Guess
<1>2. left \in SUBSET Pins /\ Fresh(left) \in SUBSET Pins
  BY DEF Fresh
<1>3. /\ pins' = Fresh(left)
      /\ stored' = [stored EXCEPT !.pins = Fresh(left)]
      /\ handling' = IF fits
                     THEN [cred |-> req.pin, name |-> req.name, machine |-> req.machine]
                     ELSE Nobody
      /\ failures' = IF fits \/ expired THEN counted ELSE counted \cup {guess}
      /\ guesses' = IF fits \/ expired THEN guesses ELSE guesses \cup {guess}
  BY DEF LookUp
<1>4. fits => [cred |-> req.pin, name |-> req.name, machine |-> req.machine] \in Admitting
  BY Constants DEF Request, Admitting
<1> HIDE DEF guess, fits, expired, left
<1>5. stored' \in Storage
  BY <1>2, <1>3 DEF TypeOK, Storage
<1> QED
  BY <1>1, <1>2, <1>3, <1>4, <1>5 DEF TypeOK

LEMMA TypeStep == TypeOK /\ IsFiniteSet(failures) /\ [Next]_vars => TypeOK'
<1> SUFFICES ASSUME TypeOK, IsFiniteSet(failures), [Next]_vars PROVE TypeOK'
  OBVIOUS
<1> USE DEF inflight, history, memory
<1>a. now \in 0..MaxClock /\ now \in Nat
  BY Bounds DEF TypeOK
<1>b. arrivals < MaxArrivals => arrivals + 1 \in 0..MaxArrivals
  BY Bounds DEF TypeOK
<1>c. \A S : Fresh(S) \subseteq S
  BY DEF Fresh
<1>d. FreshSpent \subseteq spent
  BY DEF FreshSpent
<1>1. ASSUME NEW p \in Pins, MintPin(p) PROVE TypeOK'
  <2>1. PICK store \in Mint(Fresh(pins), p) :
               pins' = store /\ stored' = [stored EXCEPT !.pins = store]
    BY <1>1 DEF MintPin
  <2>2. store \subseteq Pins
    BY <1>c, MintTypes DEF TypeOK
  <2>3. stored' \in Storage
    BY <2>1, <2>2 DEF TypeOK, Storage
  <2> QED
    BY <1>1, <1>a, <2>1, <2>2, <2>3 DEF TypeOK, MintPin
<1>2. ASSUME NEW p \in Pins, CancelPin(p) PROVE TypeOK'
  <2>1. pins' \subseteq Pins
    BY <1>2, <1>c DEF TypeOK, CancelPin
  <2>2. stored' \in Storage
    BY <1>2, <2>1 DEF TypeOK, Storage, CancelPin
  <2> QED
    BY <1>2, <2>1, <2>2, Constants DEF TypeOK, CancelPin
<1>3. ASSUME NEW p \in Pins \cup {Wrong}, NEW n \in PinNames, NEW m \in Machines, Arrive(p, n, m)
      PROVE  TypeOK'
  <2> DEFINE req == [no |-> arrivals, pin |-> p, name |-> n, machine |-> m, since |-> now,
                     wake |-> Turn + Penalty, penalty |-> Penalty]
  <2>1. Penalty \in Nat /\ Turn \in Nat
    BY PenaltyTypes
  <2>2. req \in Request /\ [req EXCEPT !.wake = now] \in Request
    BY <1>a, <2>1 DEF Request, TypeOK
  <2>3. Recent \in SUBSET Guess /\ Fresh(pins) \in SUBSET Pins
    BY <1>c DEF Recent, TypeOK
  <2>4. CASE Penalty = 0
    <3>1. LookUp([req EXCEPT !.wake = now], Recent, Fresh(pins))
      BY <1>3, <2>4 DEF Arrive
    <3>2. UNCHANGED <<waiting, nextTurn>>
      BY <1>3, <2>4 DEF Arrive
    <3> HIDE DEF req
    <3>3. /\ pins' \subseteq Pins /\ stored' \in Storage
          /\ handling' \in Admitting \cup {Nobody}
          /\ failures' \subseteq Guess /\ guesses' \subseteq Guess
      BY <3>1, <2>2, <2>3, LookUpTypes
    <3> QED
      BY <1>3, <1>b, <3>2, <3>3 DEF TypeOK, Arrive
  <2>5. CASE Penalty # 0
    <3>1. /\ pins' = Fresh(pins) /\ failures' = Recent
          /\ stored' = [stored EXCEPT !.pins = pins'] \/ UNCHANGED stored
          /\ UNCHANGED <<handling, guesses>>
          /\ \/ UNCHANGED <<waiting, nextTurn>>
             \/ (waiting' = waiting \cup {req} /\ nextTurn' = req.wake)
      BY <1>3, <2>5 DEF Arrive
    <3>2. req.wake \in Nat
      BY <2>1
    <3> HIDE DEF req
    <3>3. waiting' \subseteq Request /\ nextTurn' \in Nat
      BY <3>1, <3>2, <2>2 DEF TypeOK
    <3>4. stored' \in Storage
      BY <2>3, <3>1 DEF TypeOK, Storage
    <3> QED
      BY <1>3, <1>b, <2>3, <3>1, <3>3, <3>4 DEF TypeOK, Arrive
  <2> QED
    BY <2>4, <2>5
<1>4. ASSUME NEW req \in waiting, Wakes(req) PROVE TypeOK'
  <2>1. req \in Request /\ failures \in SUBSET Guess /\ pins \in SUBSET Pins
    BY DEF TypeOK
  <2>2. LookUp(req, failures, pins)
    BY <1>4 DEF Wakes
  <2>3. /\ pins' \subseteq Pins /\ stored' \in Storage
        /\ handling' \in Admitting \cup {Nobody}
        /\ failures' \subseteq Guess /\ guesses' \subseteq Guess
    BY <2>1, <2>2, LookUpTypes
  <2> QED
    BY <1>4, <2>3 DEF TypeOK, Wakes
<1>5. ASSUME FinishPin PROVE TypeOK'
  <2>1. handling \in Admitting
    BY <1>5 DEF TypeOK, FinishPin, Idle
  <2>2. handling.name \in Names /\ handling.machine \in Machines /\ handling.cred \in Creds
    BY <2>1 DEF Admitting
  <2>3. hosts' \in [Names -> Host]
    BY <1>5, <2>2, HostMade DEF TypeOK, FinishPin
  <2>4. stored' \in Storage
    BY <1>5, <2>3 DEF TypeOK, Storage, FinishPin
  <2>5. admitted' \subseteq Creds \X Machines
    BY <1>5, <2>2 DEF TypeOK, FinishPin
  <2> QED
    BY <1>5, <2>3, <2>4, <2>5 DEF TypeOK, FinishPin
<1>6. ASSUME NoteRunnerEnrolled PROVE TypeOK'
  <2>1. handling \in Admitting
    BY <1>6 DEF TypeOK, NoteRunnerEnrolled, Idle
  <2>2. admitted' \subseteq Creds \X Machines
    BY <1>6, <2>1 DEF TypeOK, NoteRunnerEnrolled, Admitting
  <2>3. /\ pins' \subseteq Pins /\ tickets' \subseteq Tickets /\ spent' \subseteq Spent
        /\ hosts' = hosts
    BY <1>6, <1>c, <1>d DEF TypeOK, NoteRunnerEnrolled, SaveAll
  <2>4. stored' \in Storage
    BY <1>6, <2>3 DEF TypeOK, Storage, NoteRunnerEnrolled, SaveAll
  <2> QED
    BY <1>6, <2>2, <2>3, <2>4 DEF TypeOK, NoteRunnerEnrolled
<1>7. ASSUME NEW t \in Tickets, MintTicket(t) PROVE TypeOK'
  <2>1. tickets' \subseteq Tickets /\ spent' \subseteq Spent
    BY <1>7, <1>c, <1>d, MintTypes DEF TypeOK, MintTicket
  <2>2. Fresh(pins) \subseteq Pins
    BY <1>c DEF TypeOK
  <2>3. stored' \in Storage
    BY <1>7, <2>1, <2>2, StorageMade DEF TypeOK, MintTicket
  <2> QED
    BY <1>7, <1>a, <2>1, <2>2, <2>3, Constants DEF TypeOK, MintTicket
<1>8. ASSUME NEW t \in Tickets, NEW m \in Machines, JobArrives(t, m) PROVE TypeOK'
  <2>1. [ticket |-> t, machine |-> m] \in Job
    BY DEF Job
  <2>2. tickets' \subseteq Tickets /\ spent' \subseteq Spent
    BY <1>8, <1>c, <1>d DEF TypeOK, JobArrives
  <2> QED
    BY <1>8, <1>b, <2>1, <2>2 DEF TypeOK, JobArrives
<1>9. ASSUME NEW t \in Tickets, NEW m \in Machines, VmArrives(t, m) PROVE TypeOK'
  <2>1. Fresh(pins) \subseteq Pins /\ Fresh(tickets) \subseteq Tickets /\ FreshSpent \subseteq Spent
    BY <1>c, <1>d DEF TypeOK
  <2>2. CASE t \in VmTickets /\ t \in Fresh(tickets)
    <3>1. SpendVmTicket(t, m) /\ presented' = [presented EXCEPT ![t] = @ \cup {m}]
      BY <1>9, <2>2 DEF VmArrives
    <3>2. [ticket |-> t, at |-> now] \in Spent
      BY <1>a, <2>2 DEF Spent
    <3>3. pins' \subseteq Pins /\ tickets' \subseteq Tickets
      BY <3>1, <2>1 DEF SpendVmTicket
    <3>4. spent' \subseteq Spent
      BY <3>1, <3>2, <2>1 DEF SpendVmTicket
    <3>a. t \in Creds /\ t \in Names /\ <<t, m>> \in Creds \X Machines
      BY <2>2, Constants
    <3>b. WithHost(t, m, t) \in [Names -> Host]
      BY <3>a, HostMade
    <3>c. hosts' \in [Names -> Host]
      BY <3>1, <3>b DEF SpendVmTicket, TypeOK
    <3>d. admitted' \subseteq admitted \cup {<<t, m>>}
      BY <3>1 DEF SpendVmTicket
    <3>5. hosts' \in [Names -> Host] /\ admitted' \subseteq Creds \X Machines
      BY <3>a, <3>c, <3>d DEF TypeOK
    <3>6. \E H \in [Names -> Host] :
             stored' = [pins |-> pins', tickets |-> tickets', spent |-> spent', hosts |-> H]
      BY <3>1, <3>5, StorageTypes DEF SpendVmTicket
    <3>7. stored' \in Storage
      BY <3>6, <3>3, <3>4, StorageMade
    <3>8. presented' \in [VmTickets -> SUBSET Machines]
      BY <3>1 DEF TypeOK
    <3> QED
      BY <1>9, <1>b, <3>3, <3>4, <3>5, <3>7, <3>8 DEF TypeOK, VmArrives
  <2>3. CASE t \in VmTickets /\ t \notin Fresh(tickets) /\ t \in SpentIn(FreshSpent)
    <3>1. VmSpentTwice(t, m) /\ presented' = [presented EXCEPT ![t] = @ \cup {m}]
      BY <1>9, <2>3 DEF VmArrives
    <3>2. pins' \subseteq Pins /\ tickets' \subseteq Tickets /\ spent' \subseteq Spent
      BY <3>1, <2>1 DEF VmSpentTwice
    <3>3. hosts' \in [Names -> Host]
      BY <3>1, RevokedTypes DEF VmSpentTwice, TypeOK
    <3>4. admitted' \subseteq Creds \X Machines
      BY <3>1, Constants DEF VmSpentTwice, TypeOK
    <3>5. \E H \in [Names -> Host] :
             stored' = [pins |-> pins', tickets |-> tickets', spent |-> spent', hosts |-> H]
      BY <3>1, <3>3, StorageTypes DEF VmSpentTwice
    <3>6. stored' \in Storage
      BY <3>5, <3>2, StorageMade
    <3>7. presented' \in [VmTickets -> SUBSET Machines]
      BY <3>1 DEF TypeOK
    <3> QED
      BY <1>9, <1>b, <3>2, <3>3, <3>4, <3>6, <3>7 DEF TypeOK, VmArrives
  <2>4. CASE ~(t \in VmTickets /\ t \in Fresh(tickets))
             /\ ~(t \in VmTickets /\ t \in SpentIn(FreshSpent))
    <3>1. /\ pins' = Fresh(pins) /\ tickets' = Fresh(tickets) /\ spent' = FreshSpent
          /\ stored' = [stored EXCEPT !.pins = pins', !.tickets = tickets', !.spent = spent']
          /\ UNCHANGED <<hosts, admitted, presented>>
      BY <1>9, <2>4 DEF VmArrives
    <3>2. stored' \in Storage
      BY <3>1, <2>1 DEF TypeOK, Storage
    <3> QED
      BY <1>9, <1>b, <2>1, <3>1, <3>2 DEF TypeOK, VmArrives
  <2> QED
    BY <2>2, <2>3, <2>4
<1>10. ASSUME NEW j \in verifying, JobRefused(j) PROVE TypeOK'
  BY <1>10 DEF TypeOK, JobRefused
<1>11. ASSUME NEW j \in verifying, JobVerified(j) PROVE TypeOK'
  <2>1. j.ticket \in Tickets /\ j.machine \in Machines
    BY DEF TypeOK, Job
  <2>2. pins' \subseteq Pins /\ tickets' \subseteq Tickets /\ spent' \subseteq Spent
    BY <1>11, <1>c, <1>d DEF TypeOK, JobVerified
  <2>3. hosts' \in [Names -> Host]
    BY <1>11, <2>1, HostMade, Constants DEF TypeOK, JobVerified
  <2>4. stored' \in Storage
    BY <1>11, <2>2 DEF TypeOK, Storage, JobVerified
  <2>8. <<j.ticket, j.machine>> \in Creds \X Machines
    BY <2>1, Constants
  <2>9. admitted' \subseteq admitted \cup {<<j.ticket, j.machine>>}
    BY <1>11 DEF JobVerified
  <2>5. admitted' \subseteq Creds \X Machines
    BY <2>8, <2>9 DEF TypeOK
  <2>6. [cred |-> j.ticket, name |-> j.machine, machine |-> j.machine] \in Admitting
    BY <2>1, Constants DEF Admitting
  <2>7. handling' \in Admitting \cup {Nobody}
    BY <1>11, <2>6 DEF JobVerified
  <2> QED
    BY <1>11, <2>2, <2>3, <2>4, <2>5, <2>7 DEF TypeOK, JobVerified
<1>12. ASSUME NEW n \in Names, Connect(n) PROVE TypeOK'
  <2>1. stored' \in Storage
    BY <1>12 DEF TypeOK, Storage, Connect
  <2> QED
    BY <1>12, <2>1 DEF TypeOK, Connect
<1>13. ASSUME NEW n \in Names, RevokeHost(n) PROVE TypeOK'
  <2>1. hosts' \in [Names -> Host]
    BY <1>13, RevokedTypes DEF RevokeHost
  <2>2. stored' \in Storage
    BY <1>13, <2>1 DEF TypeOK, Storage, RevokeHost
  <2> QED
    BY <1>13, <2>1, <2>2 DEF TypeOK, RevokeHost
<1>14. ASSUME NEW o \in People, ForgetPerson(o) PROVE TypeOK'
  <2>3. \/ UNCHANGED <<pins, tickets, spent, hosts, stored>>
        \/ \E P \in SUBSET pins, T \in SUBSET tickets, H \in [Names -> Host] : SaveAll(P, T, H)
    BY <1>14, RevokedTypes DEF ForgetPerson
  <2>1. hosts' \in [Names -> Host]
    BY <2>3 DEF TypeOK, SaveAll
  <2>2. pins' \subseteq Pins /\ tickets' \subseteq Tickets /\ spent' \subseteq Spent
    BY <2>3, <1>c, <1>d DEF TypeOK, SaveAll
  <2>4. stored' \in Storage
    BY <2>1, <2>2, <2>3 DEF TypeOK, Storage, SaveAll
  <2>5. withdrawn' \subseteq Creds /\ removed' \subseteq People
    BY <1>14 DEF TypeOK, ForgetPerson
  <2> QED
    BY <1>14, <2>1, <2>2, <2>4, <2>5 DEF TypeOK, ForgetPerson
<1>15. ASSUME Rebuild PROVE TypeOK'
  BY <1>15, <1>c, StorageTypes DEF TypeOK, Rebuild
<1>16. ASSUME Tick PROVE TypeOK'
  <2>1. now' \in 1..MaxClock
    BY <1>16, Bounds DEF TypeOK, Tick
  <2> QED
    BY <1>16, <2>1 DEF TypeOK, Tick
<1>17. CASE UNCHANGED vars
  BY <1>17 DEF TypeOK, vars
<1> QED
  BY <1>1, <1>2, <1>3, <1>4, <1>5, <1>6, <1>7, <1>8, <1>9, <1>10, <1>11, <1>12, <1>13,
     <1>14, <1>15, <1>16, <1>17 DEF Next

---------------------------------------------------------------------------
(* What most steps do to the stores: something leaves, nothing comes *)

Shrinks ==
    /\ minted' = minted /\ \A c \in Creds : Good(c)' => Good(c)
    /\ pins' \subseteq pins /\ tickets' \subseteq tickets
    /\ stored.pins' \subseteq stored.pins \cup pins
    /\ stored.tickets' \subseteq stored.tickets \cup tickets

LEMMA Shrunk ==
    ASSUME IInv, TypeOK, Shrinks
    PROVE  /\ HeldAreMinted' /\ \A c \in Creds : Unheld(c) => Unheld(c)'
           /\ withdrawn' = withdrawn => WithdrawnAreLost'
<1>1. HeldAreMinted'
  BY DEF IInv, HeldAreMinted, Shrinks
<1>2. \A c \in Creds : Unheld(c) => Unheld(c)'
  BY DEF Unheld, Shrinks
<1>3. ASSUME withdrawn' = withdrawn, NEW c \in withdrawn
      PROVE  /\ minted'[c] # 0 /\ c \notin pins' /\ c \notin tickets'
             /\ c \in stored.pins' \/ c \in stored.tickets' => ~Good(c)'
  <2>1. c \in Creds
    BY DEF TypeOK
  <2>2. /\ minted[c] # 0 /\ c \notin pins /\ c \notin tickets
        /\ c \in stored.pins \/ c \in stored.tickets => ~Good(c)
    BY DEF IInv, WithdrawnAreLost
  <2> QED
    BY <2>1, <2>2 DEF Shrinks
<1> QED
  BY <1>1, <1>2, <1>3 DEF WithdrawnAreLost

\* What is written is what memory keeps, or memory keeps what was good of it.
LEMMA HeldStill ==
    ASSUME IInv, TypeOK, \A c \in Creds : Good(c)' => Good(c),
           stored.pins' \subseteq pins'
             \/ (stored.pins' \subseteq stored.pins /\ Fresh(pins) \subseteq pins'),
           stored.tickets' \subseteq tickets'
             \/ (stored.tickets' \subseteq stored.tickets /\ Fresh(tickets) \subseteq tickets')
    PROVE  StoredAreHeld'
<1> SUFFICES ASSUME NEW c \in Creds, Good(c)'
             PROVE  /\ c \in stored.pins' => c \in pins'
                    /\ c \in stored.tickets' => c \in tickets'
  BY DEF StoredAreHeld
<1>1. Good(c)
  OBVIOUS
<1>2. (c \in stored.pins => c \in pins) /\ (c \in stored.tickets => c \in tickets)
  BY <1>1 DEF IInv, StoredAreHeld
<1>3. (c \in pins => c \in Fresh(pins)) /\ (c \in tickets => c \in Fresh(tickets))
  BY <1>1 DEF Fresh
<1> QED
  BY <1>2, <1>3

LEMMA HoldersStill ==
    ASSUME IInv, admitted \subseteq admitted', presented' = presented,
           \A t \in VmTickets : hosts'[t].status = "live" => hosts'[t] = hosts[t],
           stored.hosts' = hosts'
             \/ (stored.hosts' = stored.hosts /\ \A t \in VmTickets : hosts'[t] = hosts[t])
    PROVE  VmHolder'
<1> SUFFICES ASSUME NEW t \in VmTickets
             PROVE  /\ hosts'[t].status = "live" =>
                          <<t, hosts'[t].machine>> \in admitted'
                          /\ presented'[t] = {hosts'[t].machine}
                    /\ stored.hosts'[t].status = "live" => hosts'[t] = stored.hosts'[t]
  BY DEF VmHolder
<1>1. /\ hosts[t].status = "live" =>
              <<t, hosts[t].machine>> \in admitted /\ presented[t] = {hosts[t].machine}
      /\ stored.hosts[t].status = "live" => hosts[t] = stored.hosts[t]
  BY DEF IInv, VmHolder
<1> QED
  BY <1>1

\* Nobody is admitted, and nothing is spent.
LEMMA QuietStep ==
    ASSUME IInv, TypeOK, Shrinks, StoredAreHeld', VmHolder',
           spent' \subseteq spent \cup stored.spent,
           stored.spent' \subseteq spent \cup stored.spent,
           admitted' = admitted, presented' = presented, withdrawn' = withdrawn,
           handling' = handling \/ handling' = Nobody
    PROVE  IInv'
<1>1. /\ HeldAreMinted' /\ \A c \in Creds : Unheld(c) => Unheld(c)'
      /\ WithdrawnAreLost'
  BY Shrunk
<1>2. \A s \in spent \cup stored.spent : s.ticket \in Creds /\ Unheld(s.ticket)
  <2>1. \A s \in spent \cup stored.spent : s.ticket \in VmTickets
    BY StorageTypes DEF TypeOK, Spent
  <2> QED
    BY <2>1, Constants DEF IInv, UsedAreUnheld
<1>3. \A a \in admitted : a[1] \in Creds /\ Unheld(a[1])
  BY DEF TypeOK, IInv, UsedAreUnheld
<1>4. \A t \in VmTickets : presented[t] # {} => t \in Creds /\ Unheld(t)
  BY Constants DEF IInv, UsedAreUnheld
<1>5. UsedAreUnheld'
  <2>1. \A a \in admitted' : Unheld(a[1])'
    BY <1>1, <1>3
  <2>2. \A s \in spent' : Unheld(s.ticket)'
    BY <1>1, <1>2
  <2>3. \A s \in stored.spent' : Unheld(s.ticket)'
    BY <1>1, <1>2
  <2>4. \A t \in VmTickets : presented'[t] # {} => Unheld(t)'
    BY <1>1, <1>4
  <2> QED
    BY <2>1, <2>2, <2>3, <2>4 DEF UsedAreUnheld
<1>6. InHand'
  <2>1. CASE handling' = handling /\ ~Idle
    <3>1. handling \in Admitting
      BY <2>1 DEF TypeOK, Idle
    <3>2. handling.cred \in Creds
      BY <3>1 DEF Admitting
    <3>3. Unheld(handling.cred)'
      BY <1>1, <2>1, <3>2 DEF IInv, InHand
    <3> QED
      BY <2>1, <3>3 DEF IInv, InHand
  <2>2. CASE handling' = Nobody \/ Idle
    BY <2>2 DEF InHand, Idle
  <2> QED
    BY <2>1, <2>2
<1>7. OneMachine'
  BY DEF IInv, OneMachine
<1> QED
  BY <1>1, <1>5, <1>6, <1>7 DEF IInv

\* One credential, out of every store by now, is answered, or at least spent.
LEMMA AnswersStep ==
    ASSUME IInv, TypeOK, TypeOK', Shrinks, StoredAreHeld', VmHolder',
           NEW c \in Creds, NEW m \in Machines, Unheld(c)',
           \/ admitted' = admitted
           \/ admitted' = admitted \cup {<<c, m>>} /\ \A a \in admitted : a[1] = c => a[2] = m,
           \A s \in spent' \cup stored.spent' : s \in spent \cup stored.spent \/ s.ticket = c,
           \A t \in VmTickets : presented'[t] # {} => presented[t] # {} \/ t = c,
           withdrawn' = withdrawn, handling' = Nobody
    PROVE  IInv'
<1>1. /\ HeldAreMinted' /\ \A x \in Creds : Unheld(x) => Unheld(x)'
      /\ WithdrawnAreLost'
  BY Shrunk
<1>2. \A s \in spent \cup stored.spent : s.ticket \in Creds /\ Unheld(s.ticket)
  <2>1. \A s \in spent \cup stored.spent : s.ticket \in VmTickets
    BY StorageTypes DEF TypeOK, Spent
  <2> QED
    BY <2>1, Constants DEF IInv, UsedAreUnheld
<1>3. \A a \in admitted : a[1] \in Creds /\ Unheld(a[1])
  BY DEF TypeOK, IInv, UsedAreUnheld
<1>4. \A t \in VmTickets : presented[t] # {} => t \in Creds /\ Unheld(t)
  BY Constants DEF IInv, UsedAreUnheld
<1>5. UsedAreUnheld'
  <2>1. \A a \in admitted' : Unheld(a[1])'
    <3>1. \A a \in admitted' : a \in admitted \/ a = <<c, m>>
      OBVIOUS
    <3> QED
      BY <1>1, <1>3, <3>1
  <2>2. \A s \in spent' : Unheld(s.ticket)'
    BY <1>1, <1>2
  <2>3. \A s \in stored.spent' : Unheld(s.ticket)'
    BY <1>1, <1>2
  <2>4. \A t \in VmTickets : presented'[t] # {} => Unheld(t)'
    BY <1>1, <1>4
  <2> QED
    BY <2>1, <2>2, <2>3, <2>4 DEF UsedAreUnheld
<1>6. InHand'
  BY DEF InHand, Idle
<1>7. OneMachine'
  <2>1. CASE admitted' = admitted
    BY <2>1 DEF IInv, OneMachine
  <2>2. CASE admitted' = admitted \cup {<<c, m>>} /\ \A a \in admitted : a[1] = c => a[2] = m
    BY <2>2 DEF IInv, OneMachine
  <2> QED
    BY <2>1, <2>2
<1> QED
  BY <1>1, <1>5, <1>6, <1>7 DEF IInv

---------------------------------------------------------------------------
(* Facts about single steps *)

LEMMA SameGood ==
    ASSUME UNCHANGED <<now, minted>>
    PROVE  \A c \in Creds : Good(c)' = Good(c)
  BY DEF Good

LEMMA SweptLess ==
    \A S : Fresh(S) \subseteq S /\ FreshSpent \subseteq spent
  BY DEF Fresh, FreshSpent

\* Not minted yet, so nowhere.
LEMMA Unminted ==
    ASSUME IInv, TypeOK, NEW c \in Creds, minted[c] = 0
    PROVE  /\ c \notin pins /\ c \notin tickets /\ c \notin stored.pins /\ c \notin stored.tickets
           /\ c \notin withdrawn /\ ~Unheld(c)
  BY DEF IInv, HeldAreMinted, WithdrawnAreLost, Unheld

\* Minting: c alone comes into the stores, and c is new.
LEMMA Mints ==
    ASSUME IInv, TypeOK, Idle, NEW c \in Creds, minted[c] = 0, now # 0, now' = now,
           minted' = [minted EXCEPT ![c] = now],
           pins' \subseteq pins \cup ({c} \cap Pins), tickets' \subseteq tickets \cup ({c} \cap Tickets),
           stored.pins' \subseteq pins' \/ (stored.pins' = stored.pins /\ pins' = pins),
           stored.tickets' \subseteq tickets' \/ (stored.tickets' = stored.tickets /\ tickets' = tickets),
           spent' \subseteq spent, stored.spent' \subseteq spent \cup stored.spent,
           hosts' = hosts, stored.hosts' = hosts \/ stored.hosts' = stored.hosts,
           UNCHANGED <<admitted, presented, withdrawn, handling>>
    PROVE  IInv'
<1>1. /\ c \notin pins /\ c \notin tickets /\ c \notin stored.pins /\ c \notin stored.tickets
      /\ c \notin withdrawn /\ ~Unheld(c)
  BY Unminted
<1>2. \A x \in Creds : x # c => minted'[x] = minted[x] /\ Good(x)' = Good(x)
  BY DEF Good, TypeOK
<1>3. minted'[c] # 0
  BY DEF TypeOK
<1>4. \A x \in Creds : Unheld(x) => x # c /\ Unheld(x)'
  BY <1>1, <1>2 DEF Unheld
<1>5. HeldAreMinted'
  BY <1>2, <1>3 DEF IInv, HeldAreMinted
<1>6. UsedAreUnheld'
  <2>1. \A s \in spent \cup stored.spent : s.ticket \in Creds /\ Unheld(s.ticket)
    <3>1. \A s \in spent \cup stored.spent : s.ticket \in VmTickets
      BY StorageTypes DEF TypeOK, Spent
    <3> QED
      BY <3>1, Constants DEF IInv, UsedAreUnheld
  <2>2. \A a \in admitted : a[1] \in Creds /\ Unheld(a[1])
    BY DEF TypeOK, IInv, UsedAreUnheld
  <2>3. \A t \in VmTickets : presented[t] # {} => t \in Creds /\ Unheld(t)
    BY Constants DEF IInv, UsedAreUnheld
  <2>4. \A a \in admitted' : Unheld(a[1])'
    BY <1>4, <2>2
  <2>5. \A s \in spent' : Unheld(s.ticket)'
    BY <1>4, <2>1
  <2>6. \A s \in stored.spent' : Unheld(s.ticket)'
    BY <1>4, <2>1
  <2>7. \A t \in VmTickets : presented'[t] # {} => Unheld(t)'
    BY <1>4, <2>3
  <2> QED
    BY <2>4, <2>5, <2>6, <2>7 DEF UsedAreUnheld
<1>7. StoredAreHeld'
  <2> SUFFICES ASSUME NEW x \in Creds, Good(x)'
               PROVE  /\ x \in stored.pins' => x \in pins'
                      /\ x \in stored.tickets' => x \in tickets'
    BY DEF StoredAreHeld
  <2>1. x # c => (x \in stored.pins => x \in pins) /\ (x \in stored.tickets => x \in tickets)
    BY <1>2 DEF IInv, StoredAreHeld
  <2> QED
    BY <1>1, <2>1
<1>8. WithdrawnAreLost'
  <2> SUFFICES ASSUME NEW x \in withdrawn
               PROVE  /\ minted'[x] # 0 /\ x \notin pins' /\ x \notin tickets'
                      /\ x \in stored.pins' \/ x \in stored.tickets' => ~Good(x)'
    BY DEF WithdrawnAreLost
  <2>1. x \in Creds /\ x # c
    BY <1>1 DEF TypeOK
  <2>2. /\ minted[x] # 0 /\ x \notin pins /\ x \notin tickets
        /\ x \in stored.pins \/ x \in stored.tickets => ~Good(x)
    BY DEF IInv, WithdrawnAreLost
  <2> QED
    BY <1>2, <2>1, <2>2
<1>9. InHand' /\ VmHolder' /\ OneMachine'
  BY DEF IInv, InHand, VmHolder, OneMachine, Idle
<1> QED
  BY <1>5, <1>6, <1>7, <1>8, <1>9 DEF IInv

\* A lookup: what fits is in hand, and out of both stores.
LEMMA LooksUp ==
    ASSUME IInv, TypeOK, Idle, UNCHANGED <<now, minted, tickets, spent, hosts>>,
           UNCHANGED <<admitted, presented, withdrawn>>,
           NEW req \in Request, NEW counted, NEW pending \in SUBSET pins,
           Fresh(pins) \subseteq pending, LookUp(req, counted, pending)
    PROVE  IInv'
<1> DEFINE expired == req.pin \in pending /\ ~Good(req.pin)
           fits == req.pin \in pending /\ ~expired /\ BoundTo[req.pin] \in {AnyName, req.name}
           left == IF fits \/ expired THEN pending \ {req.pin} ELSE pending
<1>1. /\ pins' = Fresh(left)
      /\ stored' = [stored EXCEPT !.pins = Fresh(left)]
      /\ handling' = IF fits
                     THEN [cred |-> req.pin, name |-> req.name, machine |-> req.machine]
                     ELSE Nobody
  BY DEF LookUp
<1>2. left \subseteq pins
  OBVIOUS
<1>3. fits => req.pin \in pins /\ req.pin \notin left
  OBVIOUS
<1> HIDE DEF fits, left, expired
<1>4. /\ stored.pins' = Fresh(left) /\ stored.tickets' = stored.tickets
      /\ stored.spent' = stored.spent /\ stored.hosts' = stored.hosts
  BY <1>1 DEF TypeOK, Storage
<1>5. Fresh(left) \subseteq left /\ Fresh(tickets) \subseteq tickets
  BY DEF Fresh
<1>6. \A c \in Creds : Good(c)' = Good(c)
  BY SameGood
<1>7. Shrinks
  BY <1>1, <1>2, <1>4, <1>5, <1>6 DEF Shrinks
<1>8. StoredAreHeld'
  BY <1>1, <1>4, <1>5, <1>6, HeldStill
<1>9. VmHolder'
  BY <1>4, HoldersStill
<1>10. CASE ~fits
  <2>1. handling' = Nobody
    BY <1>1, <1>10
  <2> QED
    BY <1>4, <1>7, <1>8, <1>9, <2>1, QuietStep
<1>11. CASE fits
  <2> DEFINE c == req.pin
  <2>1. c \in pins /\ c \in Pins /\ c \in Creds /\ c \notin Tickets /\ c \notin VmTickets
    BY <1>3, <1>11, Constants DEF TypeOK
  <2>2. handling'.cred = c /\ handling'.name \notin VmTickets
    BY <1>1, <1>11, Constants DEF Request
  <2>3. /\ HeldAreMinted' /\ \A x \in Creds : Unheld(x) => Unheld(x)'
        /\ WithdrawnAreLost'
    BY <1>7, Shrunk
  <2> HIDE DEF c
  <2>4. minted[c] # 0 /\ ~Unheld(c) /\ c \notin withdrawn
    BY <2>1 DEF IInv, HeldAreMinted, Unheld, WithdrawnAreLost
  <2>5. stored.tickets \subseteq Tickets
    BY StorageTypes
  <2>6. c \notin left
    BY <1>3, <1>11 DEF c
  <2>7. Unheld(c)'
    BY <1>1, <1>4, <1>5, <2>1, <2>4, <2>5, <2>6 DEF Unheld, TypeOK
  <2>8. \A a \in admitted : a[1] # c
    BY <2>4 DEF IInv, UsedAreUnheld
  <2>9. InHand'
    BY <2>1, <2>2, <2>4, <2>7, <2>8 DEF InHand
  <2>10. UsedAreUnheld'
    <3>1. \A s \in spent \cup stored.spent : s.ticket \in Creds /\ Unheld(s.ticket)
      <4>1. \A s \in spent \cup stored.spent : s.ticket \in VmTickets
        BY StorageTypes DEF TypeOK, Spent
      <4> QED
        BY <4>1, Constants DEF IInv, UsedAreUnheld
    <3>2. \A a \in admitted : a[1] \in Creds /\ Unheld(a[1])
      BY DEF TypeOK, IInv, UsedAreUnheld
    <3>3. \A t \in VmTickets : presented[t] # {} => t \in Creds /\ Unheld(t)
      BY Constants DEF IInv, UsedAreUnheld
    <3> QED
      BY <1>4, <2>3, <3>1, <3>2, <3>3 DEF UsedAreUnheld
  <2> QED
    BY <1>8, <1>9, <2>3, <2>9, <2>10 DEF IInv, OneMachine
<1> QED
  BY <1>10, <1>11

---------------------------------------------------------------------------
(* The invariant, step by step *)

LEMMA InvInit == Init => IInv
<1> SUFFICES ASSUME Init PROVE IInv
  OBVIOUS
<1>1. \A t \in VmTickets : hosts[t].status = "none" /\ stored.hosts[t].status = "none"
  BY Constants DEF Init, NoHost
<1>2. HeldAreMinted /\ StoredAreHeld /\ UsedAreUnheld
  BY DEF Init, HeldAreMinted, StoredAreHeld, UsedAreUnheld
<1>3. VmHolder
  BY <1>1 DEF VmHolder
<1> QED
  BY <1>2, <1>3 DEF Init, IInv, InHand, WithdrawnAreLost, OneMachine, Idle

\* The handlers that a write had cut in two.
LEMMA InHandStep ==
    ASSUME IInv, TypeOK, TypeOK', FinishPin \/ NoteRunnerEnrolled
    PROVE  IInv'
<1>1. ~Idle /\ handling \in Admitting
  BY DEF FinishPin, NoteRunnerEnrolled, TypeOK, Idle
<1>2. PICK c \in Creds, m \in Machines : c = handling.cred /\ m = handling.machine
  BY <1>1 DEF Admitting
<1>a. /\ Unheld(c) /\ \A a \in admitted : a[1] # c
      /\ handling.name \notin VmTickets
  BY <1>1, <1>2 DEF IInv, InHand
<1>3. /\ UNCHANGED <<now, minted, presented, withdrawn>>
      /\ pins' \subseteq pins /\ tickets' \subseteq tickets /\ spent' \subseteq spent
      /\ Fresh(pins) \subseteq pins' /\ Fresh(tickets) \subseteq tickets'
  BY SweptLess DEF FinishPin, NoteRunnerEnrolled, SaveAll
<1>4. \A x \in Creds : Good(x)' = Good(x)
  BY <1>3, SameGood
<1>5. /\ stored.pins' = stored.pins \/ stored.pins' = pins'
      /\ stored.tickets' = stored.tickets \/ stored.tickets' = tickets'
      /\ stored.spent' = stored.spent \/ stored.spent' \subseteq spent
  <2>1. CASE FinishPin
    BY <2>1 DEF FinishPin, TypeOK, Storage
  <2>2. CASE NoteRunnerEnrolled
    BY <2>2, SweptLess DEF NoteRunnerEnrolled, SaveAll
  <2> QED
    BY <2>1, <2>2
<1>6. Shrinks
  BY <1>3, <1>4, <1>5 DEF Shrinks
<1>8. StoredAreHeld'
  BY <1>3, <1>4, <1>5, HeldStill
<1>9. handling' = Nobody /\ admitted \subseteq admitted'
  BY DEF FinishPin, NoteRunnerEnrolled
<1>10. VmHolder'
  <2>1. CASE FinishPin
    <3>2. \A t \in VmTickets : hosts'[t] = hosts[t]
      BY <2>1, <1>a DEF FinishPin, WithHost, TypeOK
    <3>3. stored.hosts' = hosts' \/ (stored.hosts' = stored.hosts /\ hosts' = hosts)
      BY <2>1 DEF FinishPin, TypeOK, Storage
    <3> QED
      BY <1>3, <1>9, <3>2, <3>3, HoldersStill
  <2>2. CASE NoteRunnerEnrolled
    <3>1. hosts' = hosts /\ stored.hosts' = hosts'
      BY <2>2 DEF NoteRunnerEnrolled, SaveAll
    <3> QED
      BY <1>3, <1>9, <3>1, HoldersStill
  <2> QED
    BY <2>1, <2>2
<1>11. \/ admitted' = admitted
       \/ admitted' = admitted \cup {<<handling.cred, handling.machine>>}
  BY DEF FinishPin, NoteRunnerEnrolled
<1>12. Unheld(c)'
  BY <1>a, <1>6, Shrunk
<1>13. admitted' = admitted \/ admitted' = admitted \cup {<<c, m>>}
  BY <1>2, <1>11
<1>14. \A s \in spent' \cup stored.spent' : s \in spent \cup stored.spent
  BY <1>3, <1>5
<1> QED
  BY <1>3, <1>6, <1>8, <1>9, <1>10, <1>12, <1>13, <1>14, <1>a, AnswersStep

\* A ticket of a VM, presented for the first time.
LEMMA SpendStep ==
    ASSUME IInv, TypeOK, TypeOK', Idle, NEW t \in VmTickets, NEW m \in Machines,
           t \in Fresh(tickets), SpendVmTicket(t, m),
           presented' = [presented EXCEPT ![t] = @ \cup {m}],
           UNCHANGED <<now, minted, handling, withdrawn>>
    PROVE  IInv'
<1>1. t \in tickets /\ t \in Creds /\ t \in Tickets /\ t \in Names /\ t \notin Pins
  BY SweptLess, Constants
<1>2. minted[t] # 0 /\ ~Unheld(t)
  BY <1>1 DEF IInv, HeldAreMinted, Unheld
<1>3. \A c \in Creds : Good(c)' = Good(c)
  BY SameGood
<1>4. /\ tickets' = Fresh(tickets) \ {t} /\ pins' = Fresh(pins)
      /\ stored.pins' = pins' /\ stored.tickets' = tickets' /\ stored.spent' = spent'
  BY DEF SpendVmTicket
<1>5. \A s \in spent' : s \in spent \/ s.ticket = t
  BY SweptLess DEF SpendVmTicket
<1>6. Shrinks
  BY <1>3, <1>4, SweptLess DEF Shrinks
<1>7. StoredAreHeld'
  BY <1>3, <1>4, HeldStill
<1>8. Unheld(t)'
  BY <1>1, <1>2, <1>4, SweptLess DEF Unheld, TypeOK
<1>9. presented[t] = {} /\ (\A a \in admitted : a[1] # t)
  BY <1>2 DEF IInv, UsedAreUnheld
<1>10. hosts[t].status # "live" /\ stored.hosts[t].status # "live"
  BY <1>9 DEF IInv, VmHolder
<1>11. VmHolder'
  <2> SUFFICES ASSUME NEW u \in VmTickets
               PROVE  /\ hosts'[u].status = "live" =>
                            <<u, hosts'[u].machine>> \in admitted'
                            /\ presented'[u] = {hosts'[u].machine}
                      /\ stored.hosts'[u].status = "live" => hosts'[u] = stored.hosts'[u]
    BY DEF VmHolder
  <2>1. /\ hosts[u].status = "live" =>
              <<u, hosts[u].machine>> \in admitted /\ presented[u] = {hosts[u].machine}
        /\ stored.hosts[u].status = "live" => hosts[u] = stored.hosts[u]
    BY DEF IInv, VmHolder
  <2>2. stored.hosts' = hosts' \/ stored.hosts' = stored.hosts
    BY DEF SpendVmTicket
  <2>3. CASE u # t
    <3>1. hosts'[u] = hosts[u] /\ presented'[u] = presented[u] /\ admitted \subseteq admitted'
      BY <2>3, Constants DEF SpendVmTicket, WithHost, TypeOK
    <3> QED
      BY <2>1, <2>2, <3>1
  <2>4. CASE u = t
    <3>1. presented'[t] = {m}
      BY <1>9 DEF TypeOK
    <3>2. CASE hosts' = hosts
      BY <1>10, <2>2, <2>4, <3>2
    <3>3. CASE hosts' # hosts
      <4>1. hosts' = WithHost(t, m, t) /\ <<t, m>> \in admitted'
        BY <3>3 DEF SpendVmTicket
      <4>2. hosts'[t].machine = m
        BY <4>1, <1>1 DEF WithHost, TypeOK
      <4> QED
        BY <1>10, <2>2, <2>4, <3>1, <4>1, <4>2
    <3> QED
      BY <3>2, <3>3
  <2> QED
    BY <2>3, <2>4
<1>12. \/ admitted' = admitted
       \/ admitted' = admitted \cup {<<t, m>>} /\ \A a \in admitted : a[1] = t => a[2] = m
  BY <1>9 DEF SpendVmTicket
<1>13. \A u \in VmTickets : presented'[u] # {} => presented[u] # {} \/ u = t
  BY DEF TypeOK
<1>14. handling' = Nobody
  BY DEF Idle
<1> QED
  BY <1>1, <1>4, <1>5, <1>6, <1>7, <1>8, <1>11, <1>12, <1>13, <1>14, AnswersStep

\* Presented again: by the machine that was admitted, nothing changes; by
\* another, the host goes.
LEMMA SpentTwiceStep ==
    ASSUME IInv, TypeOK, TypeOK', Idle, NEW t \in VmTickets, NEW m \in Machines,
           t \in SpentIn(FreshSpent), VmSpentTwice(t, m),
           presented' = [presented EXCEPT ![t] = @ \cup {m}],
           UNCHANGED <<now, minted, handling, withdrawn>>
    PROVE  IInv' /\ admitted' = admitted
<1>1. t \in Creds /\ t \in Names
  BY Constants
<1>2. Unheld(t)
  BY SweptLess DEF SpentIn, IInv, UsedAreUnheld
<1>3. \A c \in Creds : Good(c)' = Good(c)
  BY SameGood
<1>4. /\ tickets' = Fresh(tickets) /\ pins' = Fresh(pins) /\ spent' = FreshSpent
      /\ stored.pins' = pins' /\ stored.tickets' = tickets' /\ stored.spent' = spent'
  BY DEF VmSpentTwice
<1>5. Shrinks
  BY <1>3, <1>4, SweptLess DEF Shrinks
<1>6. StoredAreHeld'
  BY <1>3, <1>4, HeldStill
<1>7. Unheld(t)'
  BY <1>1, <1>2, <1>5, Shrunk
<1>8. /\ hosts[t].status = "live" =>
            <<t, hosts[t].machine>> \in admitted /\ presented[t] = {hosts[t].machine}
      /\ stored.hosts[t].status = "live" => hosts[t] = stored.hosts[t]
  BY DEF IInv, VmHolder
<1>9. admitted' = admitted
  BY <1>8 DEF VmSpentTwice
<1>10. VmHolder'
  <2> SUFFICES ASSUME NEW u \in VmTickets
               PROVE  /\ hosts'[u].status = "live" =>
                            <<u, hosts'[u].machine>> \in admitted'
                            /\ presented'[u] = {hosts'[u].machine}
                      /\ stored.hosts'[u].status = "live" => hosts'[u] = stored.hosts'[u]
    BY DEF VmHolder
  <2>1. /\ hosts[u].status = "live" =>
              <<u, hosts[u].machine>> \in admitted /\ presented[u] = {hosts[u].machine}
        /\ stored.hosts[u].status = "live" => hosts[u] = stored.hosts[u]
    BY DEF IInv, VmHolder
  <2>2. CASE hosts[t].status = "live" /\ hosts[t].machine # m
    <3>1. hosts' = Revoked({t}) /\ stored.hosts' = hosts'
      BY <2>2 DEF VmSpentTwice
    <3>2. hosts'[t].status # "live"
      BY <1>1, <3>1, <2>2 DEF Revoked, TypeOK, Host
    <3>3. u # t => hosts'[u] = hosts[u] /\ presented'[u] = presented[u]
      BY <3>1, Constants DEF Revoked, TypeOK
    <3> QED
      BY <1>9, <2>1, <3>1, <3>2, <3>3
  <2>3. CASE ~(hosts[t].status = "live" /\ hosts[t].machine # m)
    <3>1. hosts' = hosts /\ stored.hosts' = stored.hosts
      BY <2>3 DEF VmSpentTwice
    <3>2. u # t => presented'[u] = presented[u]
      BY DEF TypeOK
    <3>3. hosts[t].status = "live" => presented'[t] = presented[t]
      BY <1>8, <2>3 DEF TypeOK
    <3> QED
      BY <1>9, <2>1, <3>1, <3>2, <3>3
  <2> QED
    BY <2>2, <2>3
<1>11. \A u \in VmTickets : presented'[u] # {} => presented[u] # {} \/ u = t
  BY DEF TypeOK
<1>12. handling' = Nobody /\ \A s \in spent' \cup stored.spent' : s \in spent \cup stored.spent
  BY <1>4, SweptLess DEF Idle
<1> QED
  BY <1>1, <1>5, <1>6, <1>7, <1>9, <1>10, <1>11, <1>12, AnswersStep

\* A job whose token was good.
LEMMA VerifiedStep ==
    ASSUME IInv, TypeOK, TypeOK', NEW j \in verifying, JobVerified(j)
    PROVE  IInv'
<1>1. Idle /\ UNCHANGED <<now, minted, presented, withdrawn>>
  BY DEF JobVerified
<1>2. PICK t \in Tickets, m \in Machines : t = j.ticket /\ m = j.machine
  BY DEF TypeOK, Job
<1> DEFINE found == t \in Fresh(tickets)
           ok == found /\ t \in JobTickets /\ Enrols(m, FALSE, FALSE)
<1>3. /\ tickets' = Fresh(tickets) \ {t} /\ spent' = FreshSpent
      /\ pins' = Fresh(pins) \/ pins' = pins
      /\ hosts' = IF ok THEN WithHost(m, m, t) ELSE hosts
      /\ handling' = IF ok /\ t \in Starting
                     THEN [cred |-> t, name |-> m, machine |-> m] ELSE Nobody
      /\ admitted' = IF ok /\ t \notin Starting THEN admitted \cup {<<t, m>>} ELSE admitted
  BY <1>2 DEF JobVerified
<1>4. ok => t \in tickets /\ t \in JobTickets
  BY SweptLess
<1> HIDE DEF ok, found
<1>5. /\ stored.pins' = pins' \/ stored.pins' = stored.pins
      /\ stored.tickets' = tickets' /\ stored.spent' = spent' /\ stored.hosts' = stored.hosts
  BY DEF JobVerified, TypeOK, Storage
<1>6. \A c \in Creds : Good(c)' = Good(c)
  BY <1>1, SameGood
<1>7. Shrinks
  BY <1>1, <1>3, <1>5, <1>6, SweptLess DEF Shrinks
<1>8. StoredAreHeld'
  BY <1>3, <1>5, <1>6, SweptLess, HeldStill
<1>9. VmHolder'
  <2>1. admitted \subseteq admitted'
    BY <1>3
  <2>2. m \notin VmTickets
    BY Constants
  <2>3. \A u \in VmTickets : hosts'[u] = hosts[u]
    BY <1>3, <2>2 DEF WithHost, TypeOK
  <2> QED
    BY <1>1, <1>5, <2>1, <2>3, HoldersStill
<1>10. \A s \in spent' \cup stored.spent' : s \in spent \cup stored.spent
  BY <1>3, <1>5, SweptLess
<1>11. CASE ~ok
  BY <1>1, <1>3, <1>7, <1>8, <1>9, <1>10, <1>11, QuietStep
<1>12. CASE ok
  <2>1. t \in Creds /\ t \notin Pins /\ t \notin VmTickets /\ m \notin VmTickets
    BY <1>4, <1>12, Constants
  <2>2. minted[t] # 0 /\ ~Unheld(t) /\ t \notin withdrawn
    BY <1>4, <1>12, <2>1 DEF IInv, HeldAreMinted, Unheld, WithdrawnAreLost
  <2>3. Unheld(t)'
    BY <1>1, <1>3, <1>5, <2>1, <2>2, StorageTypes DEF Unheld, TypeOK
  <2>4. \A a \in admitted : a[1] # t
    BY <2>2 DEF IInv, UsedAreUnheld
  <2>5. CASE t \notin Starting
    <3>1. handling' = Nobody /\ admitted' = admitted \cup {<<t, m>>}
      BY <1>3, <1>12, <2>5
    <3> QED
      BY <1>1, <1>7, <1>8, <1>9, <1>10, <2>1, <2>3, <2>4, <3>1, AnswersStep
  <2>6. CASE t \in Starting
    <3>1. handling' = [cred |-> t, name |-> m, machine |-> m] /\ admitted' = admitted
      BY <1>3, <1>12, <2>6
    <3>2. InHand'
      BY <1>1, <2>1, <2>2, <2>3, <2>4, <3>1 DEF InHand
    <3>3. /\ HeldAreMinted' /\ \A x \in Creds : Unheld(x) => Unheld(x)'
          /\ WithdrawnAreLost'
      BY <1>1, <1>7, Shrunk
    <3>4. UsedAreUnheld'
      <4>1. \A s \in spent \cup stored.spent : s.ticket \in Creds /\ Unheld(s.ticket)
        <5>1. \A s \in spent \cup stored.spent : s.ticket \in VmTickets
          BY StorageTypes DEF TypeOK, Spent
        <5> QED
          BY <5>1, Constants DEF IInv, UsedAreUnheld
      <4>2. \A a \in admitted : a[1] \in Creds /\ Unheld(a[1])
        BY DEF TypeOK, IInv, UsedAreUnheld
      <4>3. \A u \in VmTickets : presented[u] # {} => u \in Creds /\ Unheld(u)
        BY Constants DEF IInv, UsedAreUnheld
      <4> QED
        BY <1>1, <1>10, <3>1, <3>3, <4>1, <4>2, <4>3 DEF UsedAreUnheld
    <3> QED
      BY <1>8, <1>9, <3>1, <3>2, <3>3, <3>4 DEF IInv, OneMachine
  <2> QED
    BY <2>5, <2>6
<1> QED
  BY <1>11, <1>12

\* What somebody withdraws is out of memory by then; out of storage too, or
\* no longer good.
LEMMA WithdrawStep ==
    ASSUME IInv, TypeOK, TypeOK',
           (\E p \in Pins : CancelPin(p)) \/ (\E o \in People : ForgetPerson(o))
    PROVE  IInv'
<1>1. /\ Idle /\ UNCHANGED <<now, minted, handling, admitted, presented>>
      /\ spent' \subseteq spent /\ pins' \subseteq pins /\ tickets' \subseteq tickets
  BY SweptLess DEF CancelPin, ForgetPerson, SaveAll, inflight
<1>2. \A c \in Creds : Good(c)' = Good(c)
  BY <1>1, SameGood
<1>3. PICK W \in SUBSET Creds :
        /\ withdrawn' = withdrawn \cup W
        /\ \A c \in W : minted[c] # 0 /\ c \notin pins' /\ c \notin tickets'
  <2>1. ASSUME NEW p \in Pins, CancelPin(p)
        PROVE  \E W \in SUBSET Creds :
                  /\ withdrawn' = withdrawn \cup W
                  /\ \A c \in W : minted[c] # 0 /\ c \notin pins' /\ c \notin tickets'
    <3>1. p \in pins /\ p \in Creds /\ p \notin tickets /\ p \notin pins' /\ tickets' = tickets
      BY <2>1, SweptLess, Constants DEF CancelPin, TypeOK
    <3>2. minted[p] # 0
      BY <3>1 DEF IInv, HeldAreMinted
    <3> {p} \in SUBSET Creds
      BY <3>1
    <3> WITNESS {p} \in SUBSET Creds
    <3> QED
      BY <2>1, <3>1, <3>2 DEF CancelPin
  <2>2. ASSUME NEW o \in People, ForgetPerson(o)
        PROVE  \E W \in SUBSET Creds :
                  /\ withdrawn' = withdrawn \cup W
                  /\ \A c \in W : minted[c] # 0 /\ c \notin pins' /\ c \notin tickets'
    <3> DEFINE W == {c \in {x \in Creds : OwnerOf[x] = o} : minted[c] # 0}
    <3>1. withdrawn' = withdrawn \cup W
      BY <2>2 DEF ForgetPerson
    <3>2. \A c \in W : c \notin pins' /\ c \notin tickets'
      BY <2>2, SweptLess DEF ForgetPerson, SaveAll
    <3> WITNESS W \in SUBSET Creds
    <3> QED
      BY <3>1, <3>2
  <2> QED
    BY <2>1, <2>2
<1>4. \/ /\ stored.pins' \subseteq pins' /\ stored.tickets' \subseteq tickets'
         /\ stored.spent' \subseteq spent /\ stored.hosts' = hosts'
      \/ /\ stored.pins' \subseteq pins' /\ tickets' = tickets
         /\ stored.tickets' = stored.tickets /\ stored.spent' = stored.spent
         /\ stored.hosts' = stored.hosts /\ hosts' = hosts
      \/ stored' = stored /\ <<pins', tickets', hosts'>> = <<pins, tickets, hosts>>
  <2>1. ASSUME NEW p \in Pins, CancelPin(p)
        PROVE  /\ stored.pins' \subseteq pins' /\ tickets' = tickets
               /\ stored.tickets' = stored.tickets /\ stored.spent' = stored.spent
               /\ stored.hosts' = stored.hosts /\ hosts' = hosts
    BY <2>1 DEF CancelPin, TypeOK, Storage
  <2>2. ASSUME NEW o \in People, ForgetPerson(o), NEW P, NEW T, NEW H, SaveAll(P, T, H)
        PROVE  /\ stored.pins' \subseteq pins' /\ stored.tickets' \subseteq tickets'
               /\ stored.spent' \subseteq spent /\ stored.hosts' = hosts'
    BY <2>2, SweptLess DEF SaveAll
  <2>3. ASSUME NEW o \in People, ForgetPerson(o), UNCHANGED <<pins, tickets, spent, hosts, stored>>
        PROVE  stored' = stored /\ <<pins', tickets', hosts'>> = <<pins, tickets, hosts>>
    BY <2>3
  <2>4. ASSUME NEW o \in People, ForgetPerson(o)
        PROVE  \/ UNCHANGED <<pins, tickets, spent, hosts, stored>>
               \/ \E P, T, H : SaveAll(P, T, H)
    BY <2>4 DEF ForgetPerson
  <2> QED
    BY <2>1, <2>2, <2>3, <2>4
<1>5. Shrinks
  BY <1>1, <1>2, <1>4 DEF Shrinks
<1>6. StoredAreHeld'
  BY <1>1, <1>2, <1>4, SweptLess, HeldStill
<1>7. VmHolder'
  <2>1. \A t \in VmTickets : hosts'[t].status = "live" => hosts'[t] = hosts[t]
    <3>1. ASSUME NEW o \in People, ForgetPerson(o), NEW t \in VmTickets,
                 hosts'[t].status = "live"
          PROVE  hosts'[t] = hosts[t]
      <4>1. t \in Names /\ hosts[t] \in Host
        BY Constants DEF TypeOK
      <4> QED
        BY <3>1, <4>1 DEF ForgetPerson, SaveAll, Revoked, Host
    <3>2. ASSUME NEW p \in Pins, CancelPin(p) PROVE hosts' = hosts
      BY <3>2 DEF CancelPin
    <3> QED
      BY <3>1, <3>2
  <2> QED
    BY <1>1, <1>4, <2>1, HoldersStill
<1>8. /\ HeldAreMinted' /\ \A x \in Creds : Unheld(x) => Unheld(x)'
  BY <1>5, Shrunk
<1>9. WithdrawnAreLost'
  <2> SUFFICES ASSUME NEW c \in withdrawn'
               PROVE  /\ minted'[c] # 0 /\ c \notin pins' /\ c \notin tickets'
                      /\ c \in stored.pins' \/ c \in stored.tickets' => ~Good(c)'
    BY DEF WithdrawnAreLost
  <2>1. c \in Creds
    BY DEF TypeOK
  <2>2. minted'[c] # 0 /\ c \notin pins' /\ c \notin tickets'
    BY <1>1, <1>3 DEF IInv, WithdrawnAreLost
  <2> QED
    BY <1>6, <2>1, <2>2 DEF StoredAreHeld
<1>10. UsedAreUnheld'
  <2>1. \A s \in spent \cup stored.spent : s.ticket \in Creds /\ Unheld(s.ticket)
    <3>1. \A s \in spent \cup stored.spent : s.ticket \in VmTickets
      BY StorageTypes DEF TypeOK, Spent
    <3> QED
      BY <3>1, Constants DEF IInv, UsedAreUnheld
  <2>2. \A a \in admitted : a[1] \in Creds /\ Unheld(a[1])
    BY DEF TypeOK, IInv, UsedAreUnheld
  <2>3. \A t \in VmTickets : presented[t] # {} => t \in Creds /\ Unheld(t)
    BY Constants DEF IInv, UsedAreUnheld
  <2> QED
    BY <1>1, <1>4, <1>8, <2>1, <2>2, <2>3 DEF UsedAreUnheld
<1> QED
  BY <1>1, <1>6, <1>7, <1>8, <1>9, <1>10 DEF IInv, InHand, OneMachine, Idle

LEMMA RebuildStep ==
    ASSUME IInv, TypeOK, TypeOK', Rebuild
    PROVE  IInv'
<1>1. \A c \in Creds : Good(c)' = Good(c)
  BY SameGood DEF Rebuild
<1>2. pins' \subseteq pins /\ tickets' \subseteq tickets
  BY Constants, StorageTypes DEF Rebuild, Fresh, IInv, StoredAreHeld
<1>3. stored' = stored /\ handling' = Nobody /\ spent' \subseteq stored.spent
  BY DEF Rebuild
<1>4. Shrinks
  BY <1>1, <1>2, <1>3 DEF Shrinks, Rebuild
<1>5. StoredAreHeld'
  <2> SUFFICES ASSUME NEW c \in Creds, Good(c)'
               PROVE  /\ c \in stored.pins' => c \in pins'
                      /\ c \in stored.tickets' => c \in tickets'
    BY DEF StoredAreHeld
  <2> QED
    BY <1>1 DEF Rebuild, Fresh
<1>6. VmHolder'
  <2>1. \A t \in VmTickets : hosts'[t].status = "live" => hosts'[t] = hosts[t]
    BY DEF Rebuild, IInv, VmHolder
  <2>2. stored.hosts' = hosts' /\ admitted \subseteq admitted' /\ presented' = presented
    BY DEF Rebuild
  <2> QED
    BY <2>1, <2>2, HoldersStill
<1> QED
  BY <1>3, <1>4, <1>5, <1>6, QuietStep DEF Rebuild

LEMMA InvStep == IInv /\ TypeOK /\ TypeOK' /\ [Next]_vars => IInv'
<1> SUFFICES ASSUME IInv, TypeOK, TypeOK', [Next]_vars PROVE IInv'
  OBVIOUS
<1> USE DEF inflight, history, memory
<1>0. now # 0 /\ now \in Nat
  BY Bounds DEF TypeOK
<1>1. ASSUME NEW p \in Pins, MintPin(p) PROVE IInv'
  <2>1. p \in Creds /\ minted[p] = 0 /\ Idle
    BY <1>1, Constants DEF MintPin
  <2>2. /\ pins' \subseteq pins \cup ({p} \cap Pins)
        /\ stored.pins' = pins' /\ stored.tickets' = stored.tickets
        /\ stored.spent' = stored.spent /\ stored.hosts' = stored.hosts
    BY <1>1, SweptLess, MintTypes DEF MintPin, TypeOK, Storage
  <2> QED
    BY <1>0, <1>1, <2>1, <2>2, Mints DEF MintPin
<1>2. ASSUME NEW t \in Tickets, MintTicket(t) PROVE IInv'
  <2>1. t \in Creds /\ minted[t] = 0 /\ Idle
    BY <1>2, Constants DEF MintTicket
  <2>2. tickets' \subseteq tickets \cup ({t} \cap Tickets)
    BY <1>2, SweptLess, MintTypes DEF MintTicket
  <2>3. /\ stored.pins' = Fresh(pins) /\ stored.tickets' = tickets'
        /\ stored.spent' = FreshSpent /\ stored.hosts' = hosts /\ spent' = FreshSpent
    BY <1>2 DEF MintTicket
  <2> QED
    BY <1>0, <1>2, <2>1, <2>2, <2>3, SweptLess, Mints DEF MintTicket
<1>3. ASSUME NEW p \in Pins \cup {Wrong}, NEW n \in PinNames, NEW m \in Machines, Arrive(p, n, m)
      PROVE  IInv'
  <2> DEFINE req == [no |-> arrivals, pin |-> p, name |-> n, machine |-> m, since |-> now,
                     wake |-> now, penalty |-> Penalty]
  <2>1. CASE Penalty = 0
    <3>1. LookUp(req, Recent, Fresh(pins))
      BY <1>3, <2>1 DEF Arrive
    <3>2. req \in Request
      BY <1>0, <2>1 DEF Request, TypeOK
    <3>3. /\ Idle /\ UNCHANGED <<now, minted, tickets, spent, hosts>>
          /\ UNCHANGED <<admitted, presented, withdrawn>>
      BY <1>3 DEF Arrive
    <3> HIDE DEF req
    <3>4. Fresh(pins) \in SUBSET pins
      BY SweptLess
    <3> QED
      BY <3>1, <3>2, <3>3, <3>4, LooksUp
  <2>2. CASE Penalty # 0
    <3>1. /\ pins' = Fresh(pins)
          /\ stored.pins' = stored.pins \/ stored.pins' = pins'
          /\ stored.tickets' = stored.tickets /\ stored.spent' = stored.spent
          /\ stored.hosts' = stored.hosts
          /\ UNCHANGED <<now, minted, tickets, spent, hosts, admitted, presented, withdrawn, handling>>
      BY <1>3, <2>2 DEF Arrive, TypeOK, Storage
    <3>2. \A c \in Creds : Good(c)' = Good(c)
      BY <3>1, SameGood
    <3>3. Shrinks
      BY <3>1, <3>2, SweptLess DEF Shrinks
    <3>4. StoredAreHeld'
      BY <3>1, <3>2, SweptLess, HeldStill
    <3>5. VmHolder'
      BY <3>1, HoldersStill
    <3> QED
      BY <3>1, <3>3, <3>4, <3>5, QuietStep
  <2> QED
    BY <2>1, <2>2
<1>4. ASSUME NEW req \in waiting, Wakes(req) PROVE IInv'
  <2>1. req \in Request /\ pins \in SUBSET pins /\ Fresh(pins) \subseteq pins
    BY SweptLess DEF TypeOK
  <2>2. /\ Idle /\ UNCHANGED <<now, minted, tickets, spent, hosts>>
        /\ UNCHANGED <<admitted, presented, withdrawn>> /\ LookUp(req, failures, pins)
    BY <1>4 DEF Wakes
  <2> QED
    BY <2>1, <2>2, LooksUp
<1>5. ASSUME NEW t \in Tickets, NEW m \in Machines, VmArrives(t, m) PROVE IInv'
  <2>1. Idle /\ UNCHANGED <<now, minted, handling, withdrawn>>
    BY <1>5 DEF VmArrives
  <2>2. CASE /\ t \in VmTickets \cap Fresh(tickets) /\ SpendVmTicket(t, m)
             /\ presented' = [presented EXCEPT ![t] = @ \cup {m}]
    BY <2>1, <2>2, SpendStep
  <2>3. CASE /\ t \in VmTickets \cap SpentIn(FreshSpent) /\ VmSpentTwice(t, m)
             /\ presented' = [presented EXCEPT ![t] = @ \cup {m}]
    BY <2>1, <2>3, SpentTwiceStep
  <2>4. CASE /\ pins' = Fresh(pins) /\ tickets' = Fresh(tickets) /\ spent' = FreshSpent
             /\ stored' = [stored EXCEPT !.pins = pins', !.tickets = tickets', !.spent = spent']
             /\ UNCHANGED <<hosts, admitted, presented>>
    <3>1. \A c \in Creds : Good(c)' = Good(c)
      BY <2>1, SameGood
    <3>2. /\ stored.pins' = pins' /\ stored.tickets' = tickets' /\ stored.spent' = spent'
          /\ stored.hosts' = stored.hosts
      BY <2>4 DEF TypeOK, Storage
    <3>3. Shrinks
      BY <2>1, <2>4, <3>1, <3>2, SweptLess DEF Shrinks
    <3>4. StoredAreHeld'
      BY <3>1, <3>2, HeldStill
    <3>5. VmHolder'
      BY <2>4, <3>2, HoldersStill
    <3> QED
      BY <2>1, <2>4, <3>2, <3>3, <3>4, <3>5, SweptLess, QuietStep
  <2> QED
    BY <1>5, <2>2, <2>3, <2>4 DEF VmArrives
<1>6. ASSUME \/ \E t \in Tickets, m \in Machines : JobArrives(t, m)
             \/ \E j \in verifying : JobRefused(j)
             \/ \E n \in Names : Connect(n) \/ RevokeHost(n)
             \/ Tick
             \/ UNCHANGED vars
      PROVE  IInv'
  <2>1. /\ UNCHANGED <<minted, pins, admitted, presented, withdrawn, handling>>
        /\ tickets' \subseteq tickets /\ Fresh(tickets) \subseteq tickets' /\ spent' \subseteq spent
        /\ stored.pins' = stored.pins /\ stored.tickets' = stored.tickets
        /\ stored.spent' = stored.spent
    BY <1>6, SweptLess DEF JobArrives, JobRefused, Connect, RevokeHost, Tick, vars, TypeOK,
       Storage
  <2>2. \A c \in Creds : Good(c)' => Good(c)
    <3>1. now' \in Nat /\ now <= now'
      <4>1. now' = now \/ now' = now + 1
        BY <1>6 DEF JobArrives, JobRefused, Connect, RevokeHost, Tick, vars
      <4> QED
        BY <1>0, <4>1
    <3>2. ASSUME NEW c \in Creds, now' < minted[c] + TTL[c] PROVE now < minted[c] + TTL[c]
      <4>1. minted[c] \in Nat /\ TTL[c] \in Nat
        BY Lifetimes, Bounds DEF TypeOK
      <4>2. \A a, b, d \in Nat : a <= b /\ b < d => a < d
        OBVIOUS
      <4>3. minted[c] + TTL[c] \in Nat
        BY <4>1
      <4> QED
        BY <1>0, <3>1, <3>2, <4>2, <4>3
    <3> QED
      BY <2>1, <3>2 DEF Good
  <2>3. Shrinks
    BY <2>1, <2>2 DEF Shrinks
  <2>4. StoredAreHeld'
    BY <2>1, <2>2, SweptLess, HeldStill
  <2>5. /\ \A t \in VmTickets : hosts'[t].status = "live" => hosts'[t] = hosts[t]
        /\ stored.hosts' = hosts' \/ (stored.hosts' = stored.hosts /\ hosts' = hosts)
    <3>1. ASSUME NEW n \in Names, RevokeHost(n), NEW t \in VmTickets, hosts'[t].status = "live"
          PROVE  hosts'[t] = hosts[t]
      <4>1. t \in Names /\ hosts[t] \in Host
        BY Constants DEF TypeOK
      <4> QED
        BY <3>1, <4>1 DEF RevokeHost, Revoked, Host
    <3>2. ASSUME NEW n \in Names, RevokeHost(n) PROVE stored.hosts' = hosts'
      BY <3>2 DEF RevokeHost, TypeOK, Storage
    <3>3. ASSUME NEW n \in Names, Connect(n) PROVE stored.hosts' = hosts' /\ hosts' = hosts
      BY <3>3 DEF Connect, TypeOK, Storage
    <3>4. ASSUME \/ \E t \in Tickets, m \in Machines : JobArrives(t, m)
                 \/ \E j \in verifying : JobRefused(j)
                 \/ Tick
                 \/ UNCHANGED vars
          PROVE  stored' = stored /\ hosts' = hosts
      BY <3>4 DEF JobArrives, JobRefused, Tick, vars
    <3> QED
      BY <1>6, <3>1, <3>2, <3>3, <3>4
  <2>6. VmHolder'
    BY <2>1, <2>5, HoldersStill
  <2> QED
    BY <2>1, <2>3, <2>4, <2>6, QuietStep
<1> QED
  BY <1>1, <1>2, <1>3, <1>4, <1>5, <1>6, InHandStep, VerifiedStep, WithdrawStep, RebuildStep
  DEF Next

\* Whom a step admits was not withdrawn before it.
LEMMA AdmitsStep ==
    ASSUME IInv, TypeOK, TypeOK', [Next]_vars
    PROVE  \A a \in admitted' \ admitted : a[1] \notin withdrawn
<1> SUFFICES ASSUME NEW a \in admitted', a \notin admitted
             PROVE  a[1] \notin withdrawn
  OBVIOUS
<1> USE DEF inflight, history, memory
<1>1. CASE FinishPin \/ NoteRunnerEnrolled
  <2>1. ~Idle /\ a[1] = handling.cred
    BY <1>1 DEF FinishPin, NoteRunnerEnrolled
  <2> QED
    BY <2>1 DEF IInv, InHand
<1>2. ASSUME NEW j \in verifying, JobVerified(j) PROVE a[1] \notin withdrawn
  <2>1. j.ticket \in Fresh(tickets) /\ a = <<j.ticket, j.machine>>
    BY <1>2 DEF JobVerified
  <2>2. a[1] \in tickets
    BY <2>1, SweptLess
  <2> QED
    BY <2>2 DEF IInv, WithdrawnAreLost
<1>3. ASSUME NEW t \in Tickets, NEW m \in Machines, VmArrives(t, m) PROVE a[1] \notin withdrawn
  <2>1. Idle /\ UNCHANGED <<now, minted, handling, withdrawn>>
    BY <1>3 DEF VmArrives
  <2>2. CASE t \in VmTickets \cap Fresh(tickets) /\ SpendVmTicket(t, m)
    <3>0. a = <<t, m>>
      BY <2>2 DEF SpendVmTicket
    <3>1. a[1] = t /\ t \in tickets
      BY <2>2, <3>0, SweptLess
    <3> QED
      BY <3>1 DEF IInv, WithdrawnAreLost
  <2>3. CASE /\ t \in VmTickets \cap SpentIn(FreshSpent) /\ VmSpentTwice(t, m)
             /\ presented' = [presented EXCEPT ![t] = @ \cup {m}]
    BY <2>1, <2>3, SpentTwiceStep
  <2> QED
    BY <1>3, <2>2, <2>3 DEF VmArrives
<1>4. CASE /\ ~(FinishPin \/ NoteRunnerEnrolled) /\ ~(\E j \in verifying : JobVerified(j))
           /\ ~(\E t \in Tickets, m \in Machines : VmArrives(t, m))
  <2>1. admitted' = admitted
    BY <1>4 DEF Next, vars, MintPin, CancelPin, Arrive, Wakes, MintTicket, JobArrives,
                JobRefused, Connect, RevokeHost, ForgetPerson, Rebuild, Tick
  <2> QED
    BY <2>1
<1> QED
  BY <1>1, <1>2, <1>3, <1>4

---------------------------------------------------------------------------
(* Admission implements SingleUse *)

\* The credentials nobody has yet, and those that would admit somebody.
Unissued  == {c \in Creds : minted[c] = 0}
StillGood == pins \cup tickets

LEMMA Lapses ==
    ASSUME StillGood' \subseteq StillGood, InTheDoor' \in {InTheDoor, {}},
           minted' = minted, admitted' = admitted, withdrawn' = withdrawn
    PROVE  Promise!Next
  BY DEF Promise!Next, Promise!Lapse, StillGood

LEMMA Issues ==
    ASSUME TypeOK, NEW c \in Creds, minted[c] = 0, minted' = [minted EXCEPT ![c] = now],
           Idle, StillGood' \subseteq StillGood \cup {c},
           UNCHANGED <<handling, admitted, withdrawn>>
    PROVE  Promise!Next
<1>1. Unissued' = Unissued \ {c}
  <2>1. now # 0
    BY Bounds DEF TypeOK
  <2> QED
    BY <2>1 DEF TypeOK, Unissued
<1>2. InTheDoor = {} /\ InTheDoor' = {}
  BY DEF InTheDoor, Idle
<1> QED
  BY <1>1, <1>2 DEF Promise!Next, Promise!Issue, Unissued, StillGood

\* What a lookup or a spend takes is in hand, or answered at once.
LEMMA Redeems ==
    ASSUME NEW c \in StillGood, c \in Creds, NEW m \in Machines, Idle,
           StillGood' \subseteq StillGood \ {c},
           \/ InTheDoor' = {<<c, m>>} /\ admitted' = admitted
           \/ InTheDoor' = {} /\ admitted' = admitted \cup {<<c, m>>},
           UNCHANGED <<minted, withdrawn>>
    PROVE  Promise!Next
<1>1. InTheDoor = {}
  BY DEF InTheDoor
<1>2. Promise!Redeem(c, m)
  BY <1>1 DEF Promise!Redeem, StillGood
<1> QED
  BY <1>2 DEF Promise!Next

LEMMA Withdraws ==
    ASSUME NEW S \in SUBSET Creds, \A c \in S : minted[c] # 0, Idle,
           StillGood' \subseteq StillGood \ S, withdrawn' = withdrawn \cup S,
           UNCHANGED <<minted, handling, admitted>>
    PROVE  Promise!Next
<1>1. InTheDoor = {} /\ InTheDoor' = {}
  BY DEF InTheDoor, Idle
<1>2. S \cap Unissued = {}
  BY DEF Unissued
<1>3. Promise!Withdraw(S)
  BY <1>1, <1>2 DEF Promise!Withdraw, StillGood, Unissued
<1> QED
  BY <1>3 DEF Promise!Next

\* What fits is taken; nothing else changes what is good but for the worse.
LEMMA LookUpKeepsThePromise ==
    ASSUME TypeOK, Idle, NEW req \in Request, NEW counted, NEW pending \in SUBSET pins,
           LookUp(req, counted, pending), UNCHANGED <<minted, tickets, admitted, withdrawn>>
    PROVE  Promise!Next
<1> DEFINE expired == req.pin \in pending /\ ~Good(req.pin)
           fits == req.pin \in pending /\ ~expired /\ BoundTo[req.pin] \in {AnyName, req.name}
           left == IF fits \/ expired THEN pending \ {req.pin} ELSE pending
<1>1. /\ pins' = Fresh(left)
      /\ handling' = IF fits
                     THEN [cred |-> req.pin, name |-> req.name, machine |-> req.machine]
                     ELSE Nobody
  BY DEF LookUp
<1>2. pins' \subseteq left
  BY <1>1, SweptLess
<1>3. left \subseteq pending /\ (fits => req.pin \notin left /\ req.pin \in pins)
  OBVIOUS
<1> HIDE DEF fits, expired, left
<1>4. CASE fits
  <2>1. req.pin \in pins /\ req.pin \in Creds /\ req.pin \notin tickets
    BY <1>3, <1>4, Constants DEF TypeOK
  <2>2. req.machine \in Machines
    BY DEF Request
  <2>3. handling' = [cred |-> req.pin, name |-> req.name, machine |-> req.machine]
    BY <1>1, <1>4
  <2>5. req.pin \in StillGood /\ StillGood' \subseteq StillGood \ {req.pin}
    BY <1>2, <1>3, <1>4, <2>1 DEF StillGood
  <2>4. InTheDoor' \in {{}, {<<req.pin, req.machine>>}}
    BY <2>3 DEF InTheDoor, Idle
  <2>6. CASE InTheDoor' = {}
    BY <2>5, <2>6, Lapses
  <2>7. CASE InTheDoor' = {<<req.pin, req.machine>>}
    BY <2>1, <2>2, <2>5, <2>7, Redeems
  <2> QED
    BY <2>4, <2>6, <2>7
<1>5. CASE ~fits
  <2>1. InTheDoor' = {}
    BY <1>1, <1>5 DEF InTheDoor, Idle
  <2>2. StillGood' \subseteq StillGood
    BY <1>2, <1>3 DEF StillGood
  <2> QED
    BY <2>1, <2>2, Lapses
<1> QED
  BY <1>4, <1>5

\* What is in the hand of a handler is answered, or the record refused it.
LEMMA AnswersKeepThePromise ==
    ASSUME ~Idle, FinishPin \/ NoteRunnerEnrolled
    PROVE  Promise!Next
<1> USE DEF memory, inflight, history
<1>1. InTheDoor = {<<handling.cred, handling.machine>>} /\ InTheDoor' = {}
  BY DEF InTheDoor, Idle, FinishPin, NoteRunnerEnrolled
<1>2. StillGood' \subseteq StillGood
  BY SweptLess DEF StillGood, FinishPin, NoteRunnerEnrolled, SaveAll
<1>3. UNCHANGED <<minted, withdrawn>>
  BY DEF FinishPin, NoteRunnerEnrolled
<1>4. admitted' = admitted \/ admitted' = admitted \cup InTheDoor
  BY <1>1 DEF FinishPin, NoteRunnerEnrolled
<1>5. CASE admitted' = admitted
  BY <1>1, <1>2, <1>3, <1>5, Lapses
<1>6. CASE admitted' = admitted \cup InTheDoor
  <2>1. Promise!Answer
    BY <1>1, <1>2, <1>3, <1>6 DEF Promise!Answer, StillGood
  <2> QED
    BY <2>1 DEF Promise!Next
<1> QED
  BY <1>4, <1>5, <1>6

\* A job's ticket is taken when GitHub vouches for it, or nobody has it.
LEMMA JobKeepsThePromise ==
    ASSUME TypeOK, NEW j \in verifying, JobVerified(j)
    PROVE  Promise!Next
<1> DEFINE t == j.ticket
           m == j.machine
           ok == t \in Fresh(tickets) /\ t \in JobTickets /\ Enrols(m, FALSE, FALSE)
<1>1. t \in Tickets /\ m \in Machines /\ t \in Creds /\ t \notin Pins
  BY Constants DEF TypeOK, Job
<1>2. /\ Idle /\ tickets' = Fresh(tickets) \ {t} /\ pins' \subseteq pins
      /\ handling' = IF ok /\ t \in Starting
                     THEN [cred |-> t, name |-> m, machine |-> m] ELSE Nobody
      /\ admitted' = IF ok /\ t \notin Starting THEN admitted \cup {<<t, m>>} ELSE admitted
      /\ UNCHANGED <<minted, withdrawn>>
  BY SweptLess DEF JobVerified
<1>3. StillGood' \subseteq StillGood \ {t}
  BY <1>1, <1>2, SweptLess DEF StillGood, TypeOK
<1>4. ok => t \in StillGood
  BY SweptLess DEF StillGood
<1> HIDE DEF ok
<1>5. CASE ok /\ t \notin Starting
  <2>1. InTheDoor' = {} /\ admitted' = admitted \cup {<<t, m>>}
    BY <1>2, <1>5 DEF InTheDoor, Idle
  <2> QED
    BY <1>1, <1>2, <1>3, <1>4, <1>5, <2>1, Redeems
<1>6. CASE ~(ok /\ t \notin Starting)
  <2>1. admitted' = admitted
    BY <1>2, <1>6
  <2>2. CASE InTheDoor' = {}
    BY <1>2, <1>3, <2>1, <2>2, Lapses
  <2>3. CASE InTheDoor' # {}
    <3>1. ok /\ InTheDoor' = {<<t, m>>}
      BY <1>2, <2>3 DEF InTheDoor, Idle
    <3> QED
      BY <1>1, <1>2, <1>3, <1>4, <2>1, <3>1, Redeems
  <2> QED
    BY <2>2, <2>3
<1> QED
  BY <1>5, <1>6

\* A VM's ticket is spent with the answer; whoever holds it already is told so again.
LEMMA VmKeepsThePromise ==
    ASSUME IInv, TypeOK, NEW t \in Tickets, NEW m \in Machines, VmArrives(t, m)
    PROVE  Promise!Next
<1> USE DEF inflight
<1>1. t \in Creds /\ t \notin Pins
  BY Constants
<1>2. /\ Idle /\ UNCHANGED <<minted, withdrawn, handling>>
      /\ pins' = Fresh(pins) /\ tickets' \subseteq Fresh(tickets)
  BY DEF VmArrives, SpendVmTicket, VmSpentTwice
<1>3. InTheDoor' = {} /\ StillGood' \subseteq StillGood
  BY <1>2, SweptLess DEF InTheDoor, Idle, StillGood
<1>4. CASE admitted' = admitted
  BY <1>2, <1>3, <1>4, Lapses
<1>5. CASE t \in VmTickets \cap Fresh(tickets) /\ SpendVmTicket(t, m)
  <2>1. admitted' = admitted \/ admitted' = admitted \cup {<<t, m>>}
    BY <1>5 DEF SpendVmTicket
  <2>2. t \in StillGood /\ StillGood' \subseteq StillGood \ {t}
    <3>1. tickets' = Fresh(tickets) \ {t} /\ pins' = Fresh(pins) /\ t \in tickets
      BY <1>5, SweptLess DEF SpendVmTicket
    <3> QED
      BY <1>1, <3>1, SweptLess DEF StillGood, TypeOK
  <2>3. CASE admitted' = admitted \cup {<<t, m>>}
    BY <1>1, <1>2, <1>3, <2>2, <2>3, Redeems
  <2> QED
    BY <1>4, <2>1, <2>3
<1>6. CASE t \in VmTickets /\ VmSpentTwice(t, m)
  <2>1. hosts[t].status = "live" => <<t, hosts[t].machine>> \in admitted
    BY <1>6 DEF IInv, VmHolder
  <2>2. admitted' = admitted
    BY <1>6, <2>1 DEF VmSpentTwice
  <2> QED
    BY <1>4, <2>2
<1> QED
  BY <1>4, <1>5, <1>6 DEF VmArrives

\* The stores that come back hold nothing that memory had lost, but what is not
\* good any more.
LEMMA RebuildKeepsThePromise ==
    ASSUME IInv, TypeOK, Rebuild
    PROVE  Promise!Next
<1>1. pins' \subseteq pins
  <2> SUFFICES ASSUME NEW p \in Fresh(stored.pins) PROVE p \in pins
    BY DEF Rebuild
  <2>1. p \in stored.pins /\ Good(p) /\ p \in Creds
    BY StorageTypes, Constants DEF Fresh
  <2> QED
    BY <2>1 DEF IInv, StoredAreHeld
<1>2. tickets' \subseteq tickets
  <2> SUFFICES ASSUME NEW t \in Fresh(stored.tickets) PROVE t \in tickets
    BY DEF Rebuild
  <2>1. t \in stored.tickets /\ Good(t) /\ t \in Creds
    BY StorageTypes, Constants DEF Fresh
  <2> QED
    BY <2>1 DEF IInv, StoredAreHeld
<1>3. InTheDoor' = {} /\ UNCHANGED <<minted, admitted, withdrawn>>
  BY DEF Rebuild, InTheDoor, Idle
<1> QED
  BY <1>1, <1>2, <1>3, Lapses DEF StillGood

LEMMA PromiseKept ==
    ASSUME IInv, TypeOK, [Next]_vars
    PROVE  [Promise!Next]_(Promise!vars)
<1> USE DEF inflight, history, memory
<1>1. ASSUME NEW p \in Pins, MintPin(p) PROVE Promise!Next
  <2>1. pins' \subseteq pins \cup {p}
    BY <1>1, MintTypes, SweptLess DEF MintPin
  <2>2. p \in Creds /\ StillGood' \subseteq StillGood \cup {p}
    BY <1>1, <2>1, Constants DEF MintPin, StillGood
  <2> QED
    BY <1>1, <2>2, Issues DEF MintPin
<1>2. ASSUME NEW p \in Pins, CancelPin(p) PROVE Promise!Next
  <2>1. p \in pins /\ p \in Creds /\ p \notin tickets
    BY <1>2, SweptLess, Constants DEF CancelPin, TypeOK
  <2>2. minted[p] # 0
    BY <2>1 DEF IInv, HeldAreMinted
  <2>3. StillGood' \subseteq StillGood \ {p}
    BY <1>2, <2>1, SweptLess DEF CancelPin, StillGood
  <2> QED
    BY <1>2, <2>1, <2>2, <2>3, Withdraws DEF CancelPin
<1>3. ASSUME NEW p \in Pins \cup {Wrong}, NEW n \in PinNames, NEW m \in Machines, Arrive(p, n, m)
      PROVE  Promise!Next
  <2> DEFINE asked == [no |-> arrivals, pin |-> p, name |-> n, machine |-> m, since |-> now,
                       wake |-> now, penalty |-> Penalty]
  <2>0. Idle /\ UNCHANGED <<minted, tickets, admitted, withdrawn>>
    BY <1>3 DEF Arrive
  <2>1. CASE Penalty = 0
    <3>1. LookUp(asked, Recent, Fresh(pins))
      BY <1>3, <2>1 DEF Arrive
    <3>2. asked \in Request
      BY <2>1, Bounds DEF Request, TypeOK
    <3>3. Fresh(pins) \in SUBSET pins
      BY SweptLess
    <3> HIDE DEF asked
    <3> QED
      BY <2>0, <3>1, <3>2, <3>3, LookUpKeepsThePromise
  <2>2. CASE Penalty # 0
    <3>1. pins' = Fresh(pins) /\ handling' = handling
      BY <1>3, <2>2 DEF Arrive
    <3>2. StillGood' \subseteq StillGood /\ InTheDoor' = InTheDoor
      BY <2>0, <3>1, SweptLess DEF StillGood, InTheDoor, Idle
    <3> QED
      BY <2>0, <3>2, Lapses
  <2> QED
    BY <2>1, <2>2
<1>4. ASSUME NEW req \in waiting, Wakes(req) PROVE Promise!Next
  <2>1. req \in Request /\ pins \in SUBSET pins
    BY DEF TypeOK
  <2>2. /\ Idle /\ LookUp(req, failures, pins)
        /\ UNCHANGED <<minted, tickets, admitted, withdrawn>>
    BY <1>4 DEF Wakes
  <2> QED
    BY <2>1, <2>2, LookUpKeepsThePromise
<1>5. ASSUME FinishPin \/ NoteRunnerEnrolled PROVE Promise!Next
  BY <1>5, AnswersKeepThePromise DEF FinishPin, NoteRunnerEnrolled
<1>6. ASSUME NEW t \in Tickets, MintTicket(t) PROVE Promise!Next
  <2>1. pins' \subseteq pins /\ tickets' \subseteq tickets \cup {t}
    BY <1>6, MintTypes, SweptLess DEF MintTicket
  <2>2. t \in Creds /\ StillGood' \subseteq StillGood \cup {t}
    BY <2>1, Constants DEF StillGood
  <2> QED
    BY <1>6, <2>2, Issues DEF MintTicket
<1>7. ASSUME NEW t \in Tickets, NEW m \in Machines, VmArrives(t, m) PROVE Promise!Next
  BY <1>7, VmKeepsThePromise
<1>8. ASSUME NEW j \in verifying, JobVerified(j) PROVE Promise!Next
  BY <1>8, JobKeepsThePromise
<1>9. ASSUME NEW o \in People, ForgetPerson(o) PROVE Promise!Next
  <2> DEFINE theirs == {c \in Creds : OwnerOf[c] = o}
             out == {c \in theirs : minted[c] # 0}
  <2>1. /\ Idle /\ withdrawn' = withdrawn \cup out
        /\ UNCHANGED <<minted, handling, admitted>>
    BY <1>9 DEF ForgetPerson
  <2>2. \/ theirs \cap (pins \cup tickets) = {} /\ UNCHANGED <<pins, tickets>>
        \/ pins' \subseteq pins \ theirs /\ tickets' \subseteq tickets \ theirs
    BY <1>9, SweptLess DEF ForgetPerson, SaveAll
  <2>3. out \in SUBSET Creds /\ out \subseteq theirs /\ \A c \in out : minted[c] # 0
    OBVIOUS
  <2>4. StillGood' \subseteq StillGood \ theirs
    BY <2>2 DEF StillGood
  <2> HIDE DEF out, theirs
  <2> QED
    BY <2>1, <2>3, <2>4, Withdraws
<1>10. ASSUME Rebuild PROVE Promise!Next
  BY <1>10, RebuildKeepsThePromise
<1>11. ASSUME NEW t \in Tickets, NEW m \in Machines, JobArrives(t, m) PROVE Promise!Next
  <2>1. StillGood' \subseteq StillGood /\ InTheDoor' = InTheDoor
    BY <1>11, SweptLess DEF JobArrives, StillGood, InTheDoor, Idle
  <2> QED
    BY <1>11, <2>1, Lapses DEF JobArrives
<1>12. CASE \/ \E j \in verifying : JobRefused(j)
            \/ \E n \in Names : Connect(n) \/ RevokeHost(n)
            \/ Tick \/ UNCHANGED vars
  <2>1. UNCHANGED <<minted, pins, tickets, handling, admitted, withdrawn>>
    BY <1>12 DEF JobRefused, Connect, RevokeHost, Tick, vars
  <2> QED
    BY <2>1 DEF Promise!vars, InTheDoor, Idle
<1> QED
  BY <1>1, <1>2, <1>3, <1>4, <1>5, <1>6, <1>7, <1>8, <1>9, <1>10, <1>11, <1>12 DEF Next

LEMMA PromiseInit == Init => Promise!Init
  BY DEF Init, Promise!Init, InTheDoor, Idle

---------------------------------------------------------------------------
(* The pin door's queue *)

LEMMA TurnsStep ==
    ASSUME TypeOK, TurnsTaken, LookupsTakeTurns, [Next]_vars
    PROVE  TurnsTaken' /\ LookupsTakeTurns'
<1> USE DEF inflight, history, memory
<1>1. \A req, counted, pending :
          LookUp(req, counted, pending) =>
              \E g : failures' = counted \/ failures' = counted \cup {g}
  <2> SUFFICES ASSUME NEW req, NEW counted, NEW pending, LookUp(req, counted, pending)
               PROVE  \E g : failures' = counted \/ failures' = counted \cup {g}
    OBVIOUS
  <2> DEFINE guess == [no |-> req.no, at |-> now, waited |-> req.wake > req.since]
  <2>1. failures' = counted \/ failures' = counted \cup {guess}
    BY DEF LookUp
  <2> HIDE DEF guess
  <2> QED
    BY <2>1
<1>2. IsFiniteSet(Recent)
  <2>1. IsFiniteSet(failures) /\ Recent \in SUBSET failures
    BY DEF Recent, TurnsTaken
  <2> QED
    BY <2>1, FS_Subset, Zenon
<1>3. ASSUME NEW p \in Pins \cup {Wrong}, NEW n \in PinNames, NEW m \in Machines, Arrive(p, n, m)
      PROVE  TurnsTaken' /\ LookupsTakeTurns'
  <2> DEFINE req == [no |-> arrivals, pin |-> p, name |-> n, machine |-> m, since |-> now,
                     wake |-> Turn + Penalty, penalty |-> Penalty]
  <2>1. \E g : failures' = Recent \/ failures' = Recent \cup {g}
    BY <1>1, <1>3 DEF Arrive
  <2>2. IsFiniteSet(failures')
    BY <1>2, <2>1, FS_AddElement
  <2>3. /\ Penalty \in Nat /\ Penalty <= PenaltyMax /\ Turn \in Nat /\ Turn >= now
        /\ Turn >= nextTurn
    BY PenaltyTypes DEF TurnsTaken
  <2>4. arrivals \in Nat /\ now \in Nat /\ nextTurn \in Nat /\ arrivals' = arrivals + 1
    BY <1>3, Bounds DEF TypeOK, Arrive
  <2>5. \A r \in waiting : /\ r.no \in Nat /\ r.wake \in Nat /\ r.since \in Nat /\ r.penalty \in Nat
                           /\ r.no < arrivals /\ r.wake <= nextTurn
                           /\ r.wake - r.since <= MaxQueue + PenaltyMax
    BY DEF TypeOK, Request, TurnsTaken, LookupsTakeTurns
  <2>6. CASE UNCHANGED <<waiting, nextTurn>>
    BY <2>2, <2>4, <2>5, <2>6 DEF TurnsTaken, LookupsTakeTurns
  <2>7. CASE waiting' = waiting \cup {req} /\ nextTurn' = req.wake /\ Turn - now <= MaxQueue
    <3>1. req.no = arrivals /\ req.wake = Turn + Penalty /\ req.since = now /\ req.penalty = Penalty
      OBVIOUS
    <3> HIDE DEF req
    <3>2. \A r \in waiting' : r.no < arrivals' /\ r.wake <= nextTurn'
      <4>1. ASSUME NEW r \in waiting PROVE r.no < arrivals + 1 /\ r.wake <= Turn + Penalty
        BY <2>3, <2>4, <2>5
      <4>2. req.no < arrivals + 1 /\ req.wake <= Turn + Penalty
        BY <2>3, <2>4, <3>1
      <4> QED
        BY <2>4, <2>7, <3>1, <4>1, <4>2
    <3>3. req.wake - req.since <= MaxQueue + PenaltyMax
      BY <2>3, <2>4, <2>7, <3>1, Bounds
    <3>4. ASSUME NEW r \in waiting', NEW q \in waiting', r.no < q.no
          PROVE  r.wake + q.penalty <= q.wake
      <4>1. CASE r \in waiting /\ q \in waiting
        BY <3>4, <4>1 DEF LookupsTakeTurns
      <4>2. CASE r \in waiting /\ q = req
        <5>1. r.wake \in Nat /\ r.wake <= nextTurn
          BY <2>5, <4>2
        <5> QED
          BY <2>3, <2>4, <3>1, <4>2, <5>1
      <4>3. CASE r = req
        <5>1. q.no = arrivals \/ (q.no \in Nat /\ q.no < arrivals)
          BY <2>5, <2>7, <3>1
        <5> QED
          BY <2>4, <3>1, <3>4, <4>3, <5>1
      <4> QED
        BY <2>7, <4>1, <4>2, <4>3
    <3>5. \A r \in waiting' : r.wake - r.since <= MaxQueue + PenaltyMax
      BY <2>5, <2>7, <3>3
    <3> QED
      BY <2>2, <3>2, <3>4, <3>5 DEF TurnsTaken, LookupsTakeTurns
  <2>8. ~(Turn - now > MaxQueue) => Turn - now <= MaxQueue
    BY <2>3, <2>4, Bounds
  <2> QED
    BY <1>3, <2>6, <2>7, <2>8 DEF Arrive
<1>4. ASSUME NEW req \in waiting, Wakes(req) PROVE TurnsTaken' /\ LookupsTakeTurns'
  <2>1. \E g : failures' = failures \/ failures' = failures \cup {g}
    BY <1>1, <1>4 DEF Wakes
  <2>2. IsFiniteSet(failures')
    BY <2>1, FS_AddElement DEF TurnsTaken
  <2>3. waiting' \subseteq waiting /\ arrivals' = arrivals /\ nextTurn' = nextTurn
    BY <1>4 DEF Wakes
  <2> QED
    BY <2>2, <2>3 DEF TurnsTaken, LookupsTakeTurns
<1>5. CASE Rebuild
  BY <1>5, FS_EmptySet DEF Rebuild, TurnsTaken, LookupsTakeTurns
<1>6. CASE /\ UNCHANGED <<failures, waiting, nextTurn>>
           /\ arrivals' = arrivals \/ arrivals' = arrivals + 1
  <2>1. \A r \in waiting : r.no \in Nat /\ arrivals \in Nat
    BY Bounds DEF TypeOK, Request
  <2> QED
    BY <1>6, <2>1 DEF TurnsTaken, LookupsTakeTurns
<1>7. CASE ~Rebuild /\ ~(\E req \in waiting : Wakes(req))
           /\ ~(\E p \in Pins \cup {Wrong}, n \in PinNames, m \in Machines : Arrive(p, n, m))
  <2>1. /\ UNCHANGED <<failures, waiting, nextTurn>>
        /\ arrivals' = arrivals \/ arrivals' = arrivals + 1
    BY <1>7 DEF Next, vars, MintPin, CancelPin, FinishPin, NoteRunnerEnrolled, MintTicket,
                JobArrives, JobRefused, JobVerified, VmArrives, Connect, RevokeHost, ForgetPerson,
                Tick
  <2> QED
    BY <1>6, <2>1
<1> QED
  BY <1>3, <1>4, <1>5, <1>7

LEMMA TurnsInit == Init => TurnsTaken /\ LookupsTakeTurns
  BY FS_EmptySet DEF Init, TurnsTaken, LookupsTakeTurns

---------------------------------------------------------------------------
(* Wrong guesses *)

\* The guesses looked up without a wait that a window ending now holds.
FreeNow == {f \in guesses : ~f.waited /\ f.at + Window > now}

\* What the delay counts is all of the window, and leaves the budget alone.
GuessesCounted ==
    /\ IsFiniteSet(guesses)
    /\ \A f \in guesses : f.at <= now /\ (f.at + Window > now => f \in failures)
    /\ Cardinality(FreeNow) <= MaxFailures
    /\ \A r \in waiting : r.wake > r.since

LEMMA FreeIsFinite ==
    ASSUME IsFiniteSet(guesses)
    PROVE  IsFiniteSet(FreeNow)
  BY FS_Subset DEF FreeNow

\* Past the budget there is a penalty to wait for.
LEMMA PenaltyFromBudget ==
    ASSUME TypeOK, IsFiniteSet(failures)
    PROVE  /\ IsFiniteSet(Recent) /\ Cardinality(Recent) \in Nat
           /\ Penalty = 0 => Cardinality(Recent) < MaxFailures
<1>1. IsFiniteSet(Recent)
  BY FS_Subset DEF Recent
<1>2. Cardinality(Recent) \in Nat
  BY <1>1, FS_CardinalityType
<1>3. ASSUME ~(Cardinality(Recent) < MaxFailures) PROVE Penalty # 0
  <2> DEFINE over == (Cardinality(Recent) + 1) - MaxFailures
  <2>1. over \in Nat /\ over > 0
    BY <1>2, <1>3, Bounds
  <2>2. over * Step > 0
    BY ONLY <2>1, Bounds
  <2>3. Penalty = IF over * Step < PenaltyMax THEN over * Step ELSE PenaltyMax
    BY <1>3 DEF Penalty
  <2> HIDE DEF over
  <2> QED
    BY <2>2, <2>3, Bounds
<1> QED
  BY <1>1, <1>2, <1>3

\* The window that ends at an earlier guess holds what it held.
LEMMA GuessAdded ==
    ASSUME TypeOK, GuessesCounted, FreeGuessesBounded,
           NEW g \in Guess, g.at = now, guesses' = guesses \cup {g}, now' = now,
           g \in failures', \A f \in failures : f.at + Window > now => f \in failures',
           ~g.waited => Cardinality(FreeNow) < MaxFailures
    PROVE  /\ IsFiniteSet(guesses') /\ FreeGuessesBounded'
           /\ \A f \in guesses' : f.at <= now' /\ (f.at + Window > now' => f \in failures')
           /\ Cardinality(FreeNow') <= MaxFailures
<1>1. now \in Nat /\ Window \in Nat \ {0} /\ MaxFailures \in Nat
  BY Bounds DEF TypeOK
<1>2. IsFiniteSet(guesses')
  BY FS_AddElement DEF GuessesCounted
<1>3. \A f \in guesses' : f.at \in Nat /\ f.at <= now
  BY <1>1 DEF GuessesCounted, TypeOK, Guess
<1>4. IsFiniteSet(FreeNow)
  BY FreeIsFinite DEF GuessesCounted
<1>5. Cardinality(FreeNow) \in Nat
  BY <1>4, FS_CardinalityType
<1>6. Cardinality(FreeNow') <= MaxFailures
  <2>1. CASE g.waited
    <3>1. FreeNow' = FreeNow
      BY <2>1 DEF FreeNow
    <3> QED
      BY <3>1 DEF GuessesCounted
  <2>2. CASE ~g.waited
    <3>1. FreeNow' = FreeNow \cup {g}
      BY <1>1, <2>2 DEF FreeNow
    <3>2. Cardinality(FreeNow \cup {g}) <= Cardinality(FreeNow) + 1
      <4>1. \/ Cardinality(FreeNow \cup {g}) = Cardinality(FreeNow)
            \/ Cardinality(FreeNow \cup {g}) = Cardinality(FreeNow) + 1
        BY <1>4, FS_AddElement
      <4> QED
        BY <1>5, <4>1
    <3>3. IsFiniteSet(FreeNow \cup {g})
      BY <1>4, FS_AddElement
    <3>4. Cardinality(FreeNow \cup {g}) \in Nat
      BY <3>3, FS_CardinalityType
    <3> QED
      BY <1>1, <1>5, <2>2, <3>1, <3>2, <3>4
  <2> QED
    BY <2>1, <2>2
<1>7. ASSUME NEW h \in guesses'
      PROVE  Cardinality({f \in guesses' : ~f.waited /\ f.at <= h.at /\ f.at + Window > h.at})
                 <= MaxFailures
  <2> DEFINE F == {f \in guesses' : ~f.waited /\ f.at <= h.at /\ f.at + Window > h.at}
  <2>1. CASE h.at = now
    <3>1. F = FreeNow'
      BY <1>3, <2>1 DEF FreeNow
    <3> QED
      BY <1>6, <3>1
  <2>2. CASE h.at # now
    <3>1. h \in guesses /\ h.at \in Nat /\ h.at < now
      BY <1>1, <1>3, <2>2
    <3>2. F = {f \in guesses : ~f.waited /\ f.at <= h.at /\ f.at + Window > h.at}
      BY <1>1, <3>1
    <3> QED
      BY <3>1, <3>2 DEF FreeGuessesBounded
  <2> QED
    BY <2>1, <2>2
<1> QED
  BY <1>2, <1>3, <1>6, <1>7 DEF FreeGuessesBounded, GuessesCounted

\* A lookup of one that waited, or with the budget not used up.
LEMMA LookUpCounted ==
    ASSUME TypeOK, GuessesCounted, FreeGuessesBounded,
           NEW req \in Request, NEW counted, NEW pending, LookUp(req, counted, pending),
           now' = now, \A f \in failures : f.at + Window > now => f \in counted,
           ~(req.wake > req.since) => Cardinality(FreeNow) < MaxFailures
    PROVE  /\ IsFiniteSet(guesses') /\ FreeGuessesBounded'
           /\ \A f \in guesses' : f.at <= now' /\ (f.at + Window > now' => f \in failures')
           /\ Cardinality(FreeNow') <= MaxFailures
<1> DEFINE guess == [no |-> req.no, at |-> now, waited |-> req.wake > req.since]
<1>1. \/ failures' = counted /\ guesses' = guesses
      \/ failures' = counted \cup {guess} /\ guesses' = guesses \cup {guess}
  BY DEF LookUp
<1>2. CASE failures' = counted /\ guesses' = guesses
  BY <1>2 DEF GuessesCounted, FreeGuessesBounded, FreeNow
<1>3. CASE failures' = counted \cup {guess} /\ guesses' = guesses \cup {guess}
  <2>1. guess \in Guess /\ guess.at = now /\ guess.waited = (req.wake > req.since)
    <3>1. now \in Nat
      BY Bounds DEF TypeOK
    <3> QED
      BY <3>1 DEF Request, Guess
  <2>2. guess \in failures' /\ guesses' = guesses \cup {guess}
        /\ \A f \in failures : f.at + Window > now => f \in failures'
    BY <1>3
  <2> HIDE DEF guess
  <2> QED
    BY <2>1, <2>2, GuessAdded
<1> QED
  BY <1>1, <1>2, <1>3

LEMMA GuessStep ==
    ASSUME TypeOK, TypeOK', TurnsTaken, GuessesCounted, FreeGuessesBounded, [Next]_vars
    PROVE  GuessesCounted' /\ FreeGuessesBounded'
<1> USE DEF inflight, history, memory
<1>1. now \in Nat /\ Window \in Nat \ {0} /\ MaxFailures \in Nat
  BY Bounds DEF TypeOK
<1>2. \A f \in guesses : f.at \in Nat
  BY DEF TypeOK, Guess
<1>3. ASSUME NEW p \in Pins \cup {Wrong}, NEW n \in PinNames, NEW m \in Machines, Arrive(p, n, m)
      PROVE  GuessesCounted' /\ FreeGuessesBounded'
  <2> DEFINE req == [no |-> arrivals, pin |-> p, name |-> n, machine |-> m, since |-> now,
                     wake |-> Turn + Penalty, penalty |-> Penalty]
             asked == [req EXCEPT !.wake = now]
  <2>1. /\ Penalty \in Nat /\ Turn \in Nat /\ Turn >= now
        /\ IsFiniteSet(Recent) /\ Cardinality(Recent) \in Nat
        /\ Penalty = 0 => Cardinality(Recent) < MaxFailures
    BY PenaltyTypes, PenaltyFromBudget DEF TurnsTaken
  <2>2. arrivals \in Nat /\ now' = now
    BY <1>3, Bounds DEF TypeOK, Arrive
  <2>3. CASE Penalty = 0
    <3>1. LookUp(asked, Recent, Fresh(pins)) /\ UNCHANGED waiting
      BY <1>3, <2>3 DEF Arrive
    <3>2. asked \in Request /\ asked.wake = now /\ asked.since = now
      <4>1. asked = [no |-> arrivals, pin |-> p, name |-> n, machine |-> m, since |-> now,
                     wake |-> now, penalty |-> Penalty]
        OBVIOUS
      <4> QED
        BY <1>1, <2>1, <2>2, <4>1 DEF Request
    <3>3. FreeNow \subseteq Recent
      BY DEF FreeNow, Recent, GuessesCounted
    <3>4. Cardinality(FreeNow) <= Cardinality(Recent)
      BY <2>1, <3>3, FS_Subset
    <3>5. Cardinality(FreeNow) < MaxFailures
      <4>1. IsFiniteSet(FreeNow)
        BY FreeIsFinite DEF GuessesCounted
      <4>2. Cardinality(FreeNow) \in Nat
        BY <4>1, FS_CardinalityType
      <4> QED
        BY <1>1, <2>1, <2>3, <3>4, <4>2
    <3>6. \A f \in failures : f.at + Window > now => f \in Recent
      BY DEF Recent
    <3> HIDE DEF asked, req
    <3> QED
      BY <2>2, <3>1, <3>2, <3>5, <3>6, LookUpCounted DEF GuessesCounted
  <2>4. CASE Penalty # 0
    <3>1. failures' = Recent /\ UNCHANGED guesses
          /\ (UNCHANGED waiting \/ waiting' = waiting \cup {req})
      BY <1>3, <2>4 DEF Arrive
    <3>2. req.wake > req.since
      BY <1>1, <2>1, <2>4
    <3> HIDE DEF req
    <3>3. \A r \in waiting' : r.wake > r.since
      BY <3>1, <3>2 DEF GuessesCounted
    <3>4. \A f \in guesses : f.at + Window > now => f \in failures'
      BY <3>1 DEF Recent, GuessesCounted
    <3> QED
      BY <2>2, <3>1, <3>3, <3>4 DEF GuessesCounted, FreeGuessesBounded, FreeNow
  <2> QED
    BY <2>3, <2>4
<1>4. ASSUME NEW req \in waiting, Wakes(req) PROVE GuessesCounted' /\ FreeGuessesBounded'
  <2>1. /\ LookUp(req, failures, pins) /\ now' = now /\ waiting' \subseteq waiting
        /\ req \in Request /\ req.wake > req.since
    BY <1>4 DEF Wakes, TypeOK, GuessesCounted
  <2> QED
    BY <2>1, LookUpCounted DEF GuessesCounted
<1>5. CASE Rebuild
  <2>1. guesses' = {} /\ waiting' = {} /\ FreeNow' = {}
    BY <1>5 DEF Rebuild, FreeNow
  <2> QED
    BY <1>1, <2>1, FS_EmptySet DEF GuessesCounted, FreeGuessesBounded
<1>6. CASE Tick
  <2>1. now' = now + 1 /\ UNCHANGED <<guesses, failures, waiting>>
    BY <1>6 DEF Tick
  <2>2. FreeNow' \subseteq FreeNow
    BY <1>1, <1>2, <2>1 DEF FreeNow
  <2>3. IsFiniteSet(FreeNow)
    BY FreeIsFinite DEF GuessesCounted
  <2> DEFINE later == FreeNow'
  <2>4. Cardinality(FreeNow) \in Nat
    BY <2>3, FS_CardinalityType
  <2>5. Cardinality(later) <= Cardinality(FreeNow) /\ Cardinality(later) \in Nat
    <3>1. later \subseteq FreeNow
      BY <2>2
    <3> HIDE DEF later
    <3>2. IsFiniteSet(later) /\ Cardinality(later) <= Cardinality(FreeNow)
      BY <2>3, <3>1, FS_Subset
    <3> QED
      BY <3>2, FS_CardinalityType
  <2>6. Cardinality(FreeNow') <= MaxFailures
    BY <1>1, <2>4, <2>5 DEF GuessesCounted
  <2> QED
    BY <1>1, <1>2, <2>1, <2>6 DEF GuessesCounted, FreeGuessesBounded
<1>7. CASE ~Rebuild /\ ~Tick /\ ~(\E req \in waiting : Wakes(req))
           /\ ~(\E p \in Pins \cup {Wrong}, n \in PinNames, m \in Machines : Arrive(p, n, m))
  <2>1. UNCHANGED <<guesses, failures, waiting, now>>
    BY <1>7 DEF Next, vars, MintPin, CancelPin, FinishPin, NoteRunnerEnrolled, MintTicket,
                JobArrives, JobRefused, JobVerified, VmArrives, Connect, RevokeHost, ForgetPerson
  <2> QED
    BY <2>1 DEF GuessesCounted, FreeGuessesBounded, FreeNow
<1> QED
  BY <1>3, <1>4, <1>5, <1>6, <1>7

LEMMA GuessInit == Init => GuessesCounted /\ FreeGuessesBounded
<1> SUFFICES ASSUME Init PROVE GuessesCounted /\ FreeGuessesBounded
  OBVIOUS
<1>1. guesses = {} /\ waiting = {} /\ FreeNow = {}
  BY DEF Init, FreeNow
<1> QED
  BY <1>1, FS_EmptySet, Bounds DEF GuessesCounted, FreeGuessesBounded

---------------------------------------------------------------------------
(* What a machine somebody waits for leaves in storage *)

OnRecord(h)  == h.status # "none"
TicketNames  == Names \ PinNames
HostKept(t) == \E n \in TicketNames : OnRecord(stored.hosts[n]) /\ stored.hosts[n].cred = t

\* A host enrolled with a ticket keeps its record, whoever revokes it, and what
\* storage has of one is what memory has.
OnRecordKept ==
    /\ \A n \in TicketNames : OnRecord(stored.hosts[n]) =>
          OnRecord(hosts[n]) /\ hosts[n].cred = stored.hosts[n].cred
    /\ \A t \in VmTickets : OnRecord(hosts[t]) => hosts[t].cred = t
    /\ \A t \in VmTickets \cap Starting : OnRecord(hosts[t]) => OnRecord(stored.hosts[t])

\* A handler cut in two has enrolled its job's host already, or has only a name
\* typed with a pin to write.
CutInTwo ==
    ~Idle =>
        /\ handling.cred \in JobTickets =>
              /\ handling.name \in TicketNames /\ OnRecord(hosts[handling.name])
              /\ hosts[handling.name].cred = handling.cred
        /\ handling.cred \in Pins => handling.name \in PinNames

AwaitedAreKept == \A a \in admitted : a[1] \in Starting => HostKept(a[1])

HalvesInv == OnRecordKept /\ CutInTwo /\ AwaitedAreKept

\* No record of a ticket's host is lost or given to another ticket.
NoneLost ==
    \A n \in TicketNames :
        OnRecord(hosts[n]) => OnRecord(hosts'[n]) /\ hosts'[n].cred = hosts[n].cred

LEMMA RecordsStep ==
    ASSUME OnRecordKept, NoneLost,
           \A t \in VmTickets : OnRecord(hosts'[t]) => hosts'[t].cred = t,
           \/ stored.hosts' = hosts'
           \/ /\ stored.hosts' = stored.hosts
              /\ \A t \in VmTickets \cap Starting : OnRecord(hosts'[t]) => OnRecord(hosts[t])
    PROVE  OnRecordKept' /\ \A t : HostKept(t) => HostKept(t)'
<1> USE DEF OnRecord
<1>1. ASSUME NEW n \in TicketNames, OnRecord(stored.hosts[n])
      PROVE  /\ OnRecord(stored.hosts'[n]) /\ stored.hosts'[n].cred = stored.hosts[n].cred
             /\ OnRecord(hosts'[n]) /\ hosts'[n].cred = stored.hosts[n].cred
  <2>1. OnRecord(hosts[n]) /\ hosts[n].cred = stored.hosts[n].cred
    BY <1>1 DEF OnRecordKept
  <2>2. OnRecord(hosts'[n]) /\ hosts'[n].cred = hosts[n].cred
    BY <2>1 DEF NoneLost
  <2> QED
    BY <1>1, <2>1, <2>2
<1>2. \A n \in TicketNames : OnRecord(stored.hosts'[n]) =>
          OnRecord(hosts'[n]) /\ hosts'[n].cred = stored.hosts'[n].cred
  BY <1>1
<1>3. \A t \in VmTickets \cap Starting : OnRecord(hosts'[t]) => OnRecord(stored.hosts'[t])
  BY DEF OnRecordKept
<1>4. OnRecordKept'
  BY <1>2, <1>3 DEF OnRecordKept, OnRecord
<1>5. ASSUME NEW t, HostKept(t) PROVE HostKept(t)'
  <2>1. PICK n \in TicketNames : OnRecord(stored.hosts[n]) /\ stored.hosts[n].cred = t
    BY <1>5 DEF HostKept
  <2>2. OnRecord(stored.hosts'[n]) /\ stored.hosts'[n].cred = t
    BY <1>1, <2>1
  <2>3. OnRecord(stored.hosts[n])'
    BY <2>2 DEF OnRecord
  <2> QED
    BY <2>2, <2>3 DEF HostKept
<1> QED
  BY <1>4, <1>5

\* A step that enrols nobody and admits nobody.
LEMMA IdleHosts ==
    ASSUME HalvesInv, admitted' = admitted, hosts' = hosts,
           stored.hosts' = stored.hosts \/ stored.hosts' = hosts, CutInTwo'
    PROVE  HalvesInv'
<1> USE DEF OnRecord
<1>1. NoneLost
  BY DEF NoneLost
<1>2. \A t \in VmTickets : OnRecord(hosts'[t]) => hosts'[t].cred = t
  BY DEF HalvesInv, OnRecordKept
<1>3. OnRecordKept' /\ \A t : HostKept(t) => HostKept(t)'
  BY <1>1, <1>2, RecordsStep DEF HalvesInv
<1>4. AwaitedAreKept'
  BY <1>3 DEF HalvesInv, AwaitedAreKept
<1> QED
  BY <1>3, <1>4 DEF HalvesInv

LEMMA RevokedKeeps ==
    ASSUME TypeOK, NEW S
    PROVE  \A n \in Names : /\ OnRecord(Revoked(S)[n]) <=> OnRecord(hosts[n])
                            /\ Revoked(S)[n].cred = hosts[n].cred
<1> USE DEF OnRecord
<1> SUFFICES ASSUME NEW n \in Names
             PROVE  /\ OnRecord(Revoked(S)[n]) <=> OnRecord(hosts[n])
                    /\ Revoked(S)[n].cred = hosts[n].cred
  OBVIOUS
<1>1. hosts[n] \in Host
  BY DEF TypeOK
<1>2. /\ [hosts[n] EXCEPT !.status = "revoked"].status = "revoked"
      /\ [hosts[n] EXCEPT !.status = "revoked"].cred = hosts[n].cred
  BY <1>1 DEF Host
<1> QED
  BY <1>2 DEF Revoked, OnRecord

\* Hosts are taken out, and nobody is admitted by it.
LEMMA RevokingKeeps ==
    ASSUME HalvesInv, TypeOK, NEW S, hosts' = Revoked(S), stored.hosts' = hosts',
           admitted' = admitted, Idle'
    PROVE  HalvesInv'
<1> USE DEF OnRecord
<1>1. \A n \in Names : /\ OnRecord(hosts'[n]) <=> OnRecord(hosts[n])
                       /\ hosts'[n].cred = hosts[n].cred
  BY RevokedKeeps
<1>2. NoneLost
  BY <1>1 DEF NoneLost, TicketNames
<1>3. \A t \in VmTickets : OnRecord(hosts'[t]) => hosts'[t].cred = t
  BY <1>1, Constants DEF HalvesInv, OnRecordKept
<1>4. OnRecordKept' /\ \A t : HostKept(t) => HostKept(t)'
  BY <1>2, <1>3, RecordsStep DEF HalvesInv
<1> QED
  BY <1>4 DEF HalvesInv, AwaitedAreKept, CutInTwo

\* A host of a new name is enrolled with a ticket.
LEMMA EnrolledAnew ==
    ASSUME TypeOK, NEW n \in TicketNames, NEW m \in Machines, NEW t \in Tickets,
           Enrols(n, FALSE, FALSE), hosts' = WithHost(n, m, t)
    PROVE  /\ NoneLost /\ OnRecord(hosts'[n]) /\ hosts'[n].cred = t
           /\ \A x \in Names \ {n} : hosts'[x] = hosts[x]
<1> USE DEF OnRecord
<1>1. n \in Names /\ hosts[n] \in Host /\ hosts \in [Names -> Host]
  BY DEF TypeOK, TicketNames
<1>2. ~OnRecord(hosts[n])
  BY <1>1 DEF Enrols, OnRecord, Host
<1>3. hosts'[n] = [status |-> "live", machine |-> m, cred |-> t]
  BY <1>1 DEF WithHost
<1>4. \A x \in Names \ {n} : hosts'[x] = hosts[x]
  BY <1>1 DEF WithHost
<1>5. OnRecord(hosts'[n]) /\ hosts'[n].cred = t
  BY <1>3 DEF OnRecord
<1> QED
  BY <1>2, <1>4, <1>5 DEF NoneLost, TicketNames

LEMMA LookUpHalves ==
    ASSUME HalvesInv, TypeOK, NEW req \in Request, NEW counted, NEW pending \in SUBSET Pins,
           LookUp(req, counted, pending), UNCHANGED <<hosts, admitted>>
    PROVE  HalvesInv'
<1>1. stored.hosts' = stored.hosts
  BY DEF LookUp, TypeOK, Storage
<1>2. \/ handling' = Nobody
      \/ /\ handling' = [cred |-> req.pin, name |-> req.name, machine |-> req.machine]
         /\ req.pin \in pending
  BY DEF LookUp
<1>3. req.name \in PinNames
  BY DEF Request
<1>4. req.pin \in pending => req.pin \notin JobTickets
  BY Constants
<1>5. CutInTwo'
  BY <1>2, <1>3, <1>4 DEF CutInTwo, Idle
<1> QED
  BY <1>1, <1>5, IdleHosts

\* A pin's host has a typed name, which no ticket's has.
LEMMA PinHalves ==
    ASSUME HalvesInv, TypeOK, FinishPin
    PROVE  HalvesInv'
<1> USE DEF OnRecord, inflight, history, memory
<1> DEFINE n == handling.name
<1>1. ~Idle /\ handling' = Nobody /\ handling.cred \in Pins /\ n \in PinNames
  BY DEF FinishPin, HalvesInv, CutInTwo
<1>2. /\ \A x \in TicketNames : hosts'[x] = hosts[x]
      /\ stored.hosts' = hosts' \/ (stored.hosts' = stored.hosts /\ hosts' = hosts)
  <2>1. \A x \in TicketNames : WithHost(n, handling.machine, handling.cred)[x] = hosts[x]
    BY <1>1 DEF WithHost, TicketNames, TypeOK
  <2> QED
    BY <2>1 DEF FinishPin, TypeOK, Storage
<1>3. NoneLost
  BY <1>2 DEF NoneLost
<1>4. \A t \in VmTickets : t \in TicketNames
  BY Constants DEF TicketNames
<1>5. \A t \in VmTickets : OnRecord(hosts'[t]) => hosts'[t].cred = t
  BY <1>2, <1>4 DEF HalvesInv, OnRecordKept
<1>6. OnRecordKept' /\ \A t : HostKept(t) => HostKept(t)'
  BY <1>2, <1>3, <1>5, RecordsStep DEF HalvesInv
<1>7. \A a \in admitted' : a[1] \in Starting => a \in admitted
  <2>1. handling.cred \notin Starting
    BY <1>1, AdmissionAssumption
  <2> QED
    BY <2>1 DEF FinishPin
<1>8. AwaitedAreKept'
  BY <1>6, <1>7 DEF HalvesInv, AwaitedAreKept
<1> QED
  BY <1>1, <1>6, <1>8 DEF HalvesInv, CutInTwo, Idle

\* The write that noteRunnerEnrolled causes has the host of the ticket in it.
LEMMA NotedHalves ==
    ASSUME HalvesInv, TypeOK, NoteRunnerEnrolled
    PROVE  HalvesInv'
<1> USE DEF OnRecord, inflight, history, memory
<1>1. /\ ~Idle /\ handling' = Nobody /\ handling.cred \in JobTickets
      /\ hosts' = hosts /\ stored.hosts' = hosts
      /\ admitted' = admitted \cup {<<handling.cred, handling.machine>>}
  BY DEF NoteRunnerEnrolled, SaveAll
<1>2. NoneLost
  BY <1>1 DEF NoneLost
<1>3. \A t \in VmTickets : OnRecord(hosts'[t]) => hosts'[t].cred = t
  BY <1>1 DEF HalvesInv, OnRecordKept
<1>4. OnRecordKept' /\ \A t : HostKept(t) => HostKept(t)'
  BY <1>1, <1>2, <1>3, RecordsStep DEF HalvesInv
<1>5. ASSUME NEW c, c = handling.cred PROVE HostKept(c)'
  <2>1. /\ handling.name \in TicketNames /\ OnRecord(hosts[handling.name])
        /\ hosts[handling.name].cred = handling.cred
    BY <1>1 DEF HalvesInv, CutInTwo
  <2>2. PICK n \in TicketNames : OnRecord(hosts[n]) /\ hosts[n].cred = c
    BY <1>5, <2>1
  <2>3. OnRecord(stored.hosts'[n]) /\ stored.hosts'[n].cred = c
    BY <1>1, <2>2
  <2> QED
    BY <2>3 DEF HostKept
<1> QED
  BY <1>1, <1>4, <1>5 DEF HalvesInv, AwaitedAreKept, CutInTwo, Idle

LEMMA JobHalves ==
    ASSUME HalvesInv, TypeOK, NEW j \in verifying, JobVerified(j)
    PROVE  HalvesInv'
<1> USE DEF OnRecord
<1>1. PICK t \in Tickets, m \in Machines : t = j.ticket /\ m = j.machine
  BY DEF TypeOK, Job
<1> DEFINE ok == t \in Fresh(tickets) /\ t \in JobTickets /\ Enrols(m, FALSE, FALSE)
<1>2. /\ Idle /\ hosts' = IF ok THEN WithHost(m, m, t) ELSE hosts
      /\ stored.hosts' = stored.hosts
      /\ handling' = IF ok /\ t \in Starting
                     THEN [cred |-> t, name |-> m, machine |-> m] ELSE Nobody
      /\ admitted' = IF ok /\ t \notin Starting THEN admitted \cup {<<t, m>>} ELSE admitted
  BY <1>1 DEF JobVerified, TypeOK, Storage
<1>3. ok => t \in JobTickets /\ Enrols(m, FALSE, FALSE)
  OBVIOUS
<1> HIDE DEF ok
<1>4. CASE ~ok
  <2>1. CutInTwo'
    BY <1>2, <1>4 DEF CutInTwo, Idle
  <2> QED
    BY <1>2, <1>4, <2>1, IdleHosts
<1>5. CASE ok
  <2>1. m \in TicketNames /\ m \notin VmTickets /\ t \notin Pins
    BY Constants, AdmissionAssumption DEF TicketNames
  <2>2. hosts' = WithHost(m, m, t) /\ t \in JobTickets /\ Enrols(m, FALSE, FALSE)
    BY <1>2, <1>3, <1>5
  <2>3. /\ NoneLost /\ OnRecord(hosts'[m]) /\ hosts'[m].cred = t
        /\ \A x \in Names \ {m} : hosts'[x] = hosts[x]
    BY <2>1, <2>2, EnrolledAnew
  <2>4. \A u \in VmTickets : hosts'[u] = hosts[u]
    BY <2>1, <2>3, Constants
  <2>5. OnRecordKept' /\ \A u : HostKept(u) => HostKept(u)'
    <3>1. \A u \in VmTickets : OnRecord(hosts'[u]) => hosts'[u].cred = u
      BY <2>4 DEF HalvesInv, OnRecordKept
    <3> QED
      BY <1>2, <2>3, <2>4, <3>1, RecordsStep DEF HalvesInv
  <2>6. AwaitedAreKept'
    BY <1>2, <2>5 DEF HalvesInv, AwaitedAreKept
  <2>7. CutInTwo'
    BY <1>2, <2>1, <2>3 DEF CutInTwo, Idle
  <2> QED
    BY <2>5, <2>6, <2>7 DEF HalvesInv
<1> QED
  BY <1>4, <1>5

\* A machine that spends its ticket: where it is awaited, its host is written
\* with the ticket.
LEMMA VmHalves ==
    ASSUME HalvesInv, TypeOK, NEW t \in VmTickets, NEW m \in Machines, Idle, handling' = handling,
           SpendVmTicket(t, m)
    PROVE  HalvesInv'
<1> USE DEF OnRecord
<1>1. t \in TicketNames /\ t \in Tickets
  BY Constants DEF TicketNames
<1> DEFINE ok == Enrols(t, FALSE, FALSE)
<1>2. /\ hosts' = IF ok THEN WithHost(t, m, t) ELSE hosts
      /\ admitted' = IF ok THEN admitted \cup {<<t, m>>} ELSE admitted
      /\ stored.hosts' = IF ok /\ t \in Starting THEN hosts' ELSE stored.hosts
  BY DEF SpendVmTicket
<1>3. CutInTwo'
  BY DEF CutInTwo, Idle
<1>4. CASE ~ok
  BY <1>2, <1>3, <1>4, IdleHosts
<1>5. CASE ok
  <2>1. hosts' = WithHost(t, m, t)
    BY <1>2, <1>5
  <2>2. /\ NoneLost /\ OnRecord(hosts'[t]) /\ hosts'[t].cred = t
        /\ \A x \in Names \ {t} : hosts'[x] = hosts[x]
    BY <1>1, <1>5, <2>1, EnrolledAnew
  <2>3. \A u \in VmTickets \ {t} : hosts'[u] = hosts[u]
    BY <2>2, Constants
  <2>4. \A u \in VmTickets : OnRecord(hosts'[u]) => hosts'[u].cred = u
    BY <2>2, <2>3 DEF HalvesInv, OnRecordKept
  <2>5. OnRecordKept' /\ \A u : HostKept(u) => HostKept(u)'
    BY <1>2, <1>5, <2>2, <2>3, <2>4, RecordsStep DEF HalvesInv
  <2>6. t \in Starting => HostKept(t)'
    <3>1. ASSUME t \in Starting
          PROVE  OnRecord(stored.hosts'[t]) /\ stored.hosts'[t].cred = t
      BY <1>2, <1>5, <2>2, <3>1
    <3> QED
      BY <1>1, <3>1 DEF HostKept
  <2>7. AwaitedAreKept'
    BY <1>2, <1>5, <2>5, <2>6 DEF HalvesInv, AwaitedAreKept
  <2> QED
    BY <1>3, <2>5, <2>7 DEF HalvesInv
<1> QED
  BY <1>4, <1>5

\* A second presentation answers a machine whose record was written with the
\* first, or takes it out.
LEMMA VmAgainHalves ==
    ASSUME HalvesInv, TypeOK, NEW t \in VmTickets, NEW m \in Machines, Idle, handling' = handling,
           VmSpentTwice(t, m)
    PROVE  HalvesInv'
<1> USE DEF OnRecord
<1> DEFINE same == hosts[t].status = "live" /\ hosts[t].machine = m
           out  == hosts[t].status = "live" /\ hosts[t].machine # m
<1>1. /\ hosts' = IF out THEN Revoked({t}) ELSE hosts
      /\ admitted' = IF same THEN admitted \cup {<<t, m>>} ELSE admitted
      /\ stored.hosts' = IF out THEN hosts' ELSE stored.hosts
  BY DEF VmSpentTwice
<1>2. CutInTwo' /\ Idle'
  BY DEF CutInTwo, Idle
<1>3. CASE out
  <2>1. hosts' = Revoked({t}) /\ stored.hosts' = hosts' /\ admitted' = admitted
    BY <1>1, <1>3
  <2> QED
    BY <1>2, <2>1, RevokingKeeps
<1>4. CASE same
  <2>1. hosts' = hosts /\ stored.hosts' = stored.hosts /\ admitted' = admitted \cup {<<t, m>>}
    BY <1>1, <1>4
  <2>2. t \in Starting => HostKept(t)
    <3>1. ASSUME t \in Starting PROVE OnRecord(stored.hosts[t]) /\ stored.hosts[t].cred = t
      <4>1. t \in TicketNames
        BY Constants DEF TicketNames
      <4>2. OnRecord(hosts[t]) /\ hosts[t].cred = t
        BY <1>4 DEF HalvesInv, OnRecordKept
      <4>3. OnRecord(stored.hosts[t])
        BY <3>1, <4>2 DEF HalvesInv, OnRecordKept
      <4> QED
        BY <4>1, <4>2, <4>3 DEF HalvesInv, OnRecordKept
    <3>2. t \in TicketNames
      BY Constants DEF TicketNames
    <3> QED
      BY <3>1, <3>2 DEF HostKept
  <2>3. NoneLost
    BY <2>1 DEF NoneLost
  <2>4. \A u \in VmTickets : OnRecord(hosts'[u]) => hosts'[u].cred = u
    BY <2>1 DEF HalvesInv, OnRecordKept
  <2>5. OnRecordKept' /\ \A u : HostKept(u) => HostKept(u)'
    BY <2>1, <2>3, <2>4, RecordsStep DEF HalvesInv
  <2>6. AwaitedAreKept'
    BY <2>1, <2>2, <2>5 DEF HalvesInv, AwaitedAreKept
  <2> QED
    BY <1>2, <2>5, <2>6 DEF HalvesInv
<1>5. CASE ~out /\ ~same
  BY <1>1, <1>2, <1>5, IdleHosts
<1> QED
  BY <1>3, <1>4, <1>5

LEMMA HalvesStep == HalvesInv /\ TypeOK /\ [Next]_vars => HalvesInv'
<1> SUFFICES ASSUME HalvesInv, TypeOK, [Next]_vars PROVE HalvesInv'
  OBVIOUS
<1> USE DEF inflight, history, memory
<1>1. ASSUME NEW p \in Pins, MintPin(p) \/ CancelPin(p) PROVE HalvesInv'
  <2>1. /\ Idle /\ handling' = handling /\ admitted' = admitted /\ hosts' = hosts
        /\ stored.hosts' = stored.hosts
    BY <1>1 DEF MintPin, CancelPin, TypeOK, Storage
  <2> QED
    BY <2>1, IdleHosts DEF CutInTwo, Idle
<1>2. ASSUME NEW p \in Pins \cup {Wrong}, NEW n \in PinNames, NEW m \in Machines, Arrive(p, n, m)
      PROVE  HalvesInv'
  <2> DEFINE req == [no |-> arrivals, pin |-> p, name |-> n, machine |-> m, since |-> now,
                     wake |-> now, penalty |-> Penalty]
  <2>1. CASE Penalty = 0
    <3>1. LookUp(req, Recent, Fresh(pins)) /\ UNCHANGED <<hosts, admitted>>
      BY <1>2, <2>1 DEF Arrive
    <3>2. req \in Request
      BY <2>1, Bounds DEF Request, TypeOK
    <3>3. Fresh(pins) \in SUBSET Pins
      BY DEF Fresh, TypeOK
    <3> HIDE DEF req
    <3> QED
      BY <3>1, <3>2, <3>3, LookUpHalves
  <2>2. CASE Penalty # 0
    <3>1. /\ Idle /\ handling' = handling /\ admitted' = admitted /\ hosts' = hosts
          /\ stored.hosts' = stored.hosts
      BY <1>2, <2>2 DEF Arrive, TypeOK, Storage
    <3> QED
      BY <3>1, IdleHosts DEF CutInTwo, Idle
  <2> QED
    BY <2>1, <2>2
<1>3. ASSUME NEW req \in waiting, Wakes(req) PROVE HalvesInv'
  <2>1. req \in Request /\ pins \in SUBSET Pins
    BY DEF TypeOK
  <2>2. LookUp(req, failures, pins) /\ UNCHANGED <<hosts, admitted>>
    BY <1>3 DEF Wakes
  <2> QED
    BY <2>1, <2>2, LookUpHalves
<1>4. ASSUME \/ \E t \in Tickets : MintTicket(t)
             \/ \E t \in Tickets, m \in Machines : JobArrives(t, m)
             \/ \E j \in verifying : JobRefused(j)
             \/ \E n \in Names : Connect(n)
             \/ Tick
      PROVE  HalvesInv'
  <2>1. /\ Idle /\ handling' = handling /\ admitted' = admitted /\ hosts' = hosts
        /\ stored.hosts' = stored.hosts \/ stored.hosts' = hosts
    BY <1>4 DEF MintTicket, JobArrives, JobRefused, Connect, Tick, TypeOK, Storage
  <2> QED
    BY <2>1, IdleHosts DEF CutInTwo, Idle
<1>5. ASSUME NEW t \in Tickets, NEW m \in Machines, VmArrives(t, m) PROVE HalvesInv'
  <2>1. Idle /\ handling' = handling
    BY <1>5 DEF VmArrives
  <2>2. CASE t \in VmTickets \cap Fresh(tickets) /\ SpendVmTicket(t, m)
    BY <2>1, <2>2, VmHalves
  <2>3. CASE t \in VmTickets \cap SpentIn(FreshSpent) /\ VmSpentTwice(t, m)
    BY <2>1, <2>3, VmAgainHalves
  <2>4. CASE /\ stored' = [stored EXCEPT !.pins = pins', !.tickets = tickets', !.spent = spent']
             /\ UNCHANGED <<hosts, admitted>>
    <3>1. stored.hosts' = stored.hosts
      BY <2>4 DEF TypeOK, Storage
    <3> QED
      BY <2>1, <2>4, <3>1, IdleHosts DEF CutInTwo, Idle
  <2> QED
    BY <1>5, <2>2, <2>3, <2>4 DEF VmArrives
<1>6. ASSUME NEW n \in Names, RevokeHost(n) PROVE HalvesInv'
  <2>1. /\ Idle' /\ admitted' = admitted /\ hosts' = Revoked({n}) /\ stored.hosts' = hosts'
    BY <1>6 DEF RevokeHost, TypeOK, Storage, Idle
  <2> QED
    BY <2>1, RevokingKeeps
<1>7. ASSUME NEW o \in People, ForgetPerson(o) PROVE HalvesInv'
  <2> DEFINE S == {n \in Names : hosts[n].cred \in Tickets \cap {c \in Creds : OwnerOf[c] = o}}
  <2>1. /\ Idle /\ handling' = handling /\ admitted' = admitted
        /\ \/ UNCHANGED <<hosts, stored>>
           \/ hosts' = Revoked(S) /\ stored.hosts' = hosts'
    BY <1>7 DEF ForgetPerson, SaveAll
  <2>2. CutInTwo' /\ Idle'
    BY <2>1 DEF CutInTwo, Idle
  <2> HIDE DEF S
  <2>3. CASE UNCHANGED <<hosts, stored>>
    BY <2>1, <2>2, <2>3, IdleHosts
  <2>4. CASE hosts' = Revoked(S) /\ stored.hosts' = hosts'
    BY <2>1, <2>2, <2>4, RevokingKeeps
  <2> QED
    BY <2>1, <2>3, <2>4
<1>8. ASSUME Rebuild PROVE HalvesInv'
  <2>1. /\ hosts' = stored.hosts /\ stored' = stored /\ admitted' = admitted
        /\ handling' = Nobody
    BY <1>8 DEF Rebuild
  <2>2. \A t \in VmTickets : t \in TicketNames
    BY Constants DEF TicketNames
  <2>3. OnRecordKept'
    BY <2>1, <2>2 DEF HalvesInv, OnRecordKept, OnRecord
  <2>4. AwaitedAreKept'
    BY <2>1 DEF HalvesInv, AwaitedAreKept, HostKept, OnRecord
  <2> QED
    BY <2>1, <2>3, <2>4 DEF HalvesInv, CutInTwo, Idle
<1>9. ASSUME UNCHANGED vars PROVE HalvesInv'
  <2>1. /\ handling' = handling /\ admitted' = admitted /\ hosts' = hosts
        /\ stored.hosts' = stored.hosts
    BY <1>9 DEF vars
  <2>2. CutInTwo'
    BY <2>1 DEF HalvesInv, CutInTwo, Idle, OnRecord
  <2> QED
    BY <2>1, <2>2, IdleHosts
<1> QED
  BY <1>1, <1>2, <1>3, <1>4, <1>5, <1>6, <1>7, <1>8, <1>9, PinHalves, NotedHalves, JobHalves
  DEF Next

LEMMA HalvesInit == Init => HalvesInv
<1> SUFFICES ASSUME Init PROVE HalvesInv
  OBVIOUS
<1>1. \A n \in Names : hosts[n] = NoHost
  BY DEF Init
<1>2. stored.hosts = hosts /\ handling = Nobody /\ admitted = {}
  BY DEF Init
<1>3. \A t \in VmTickets : t \in Names
  BY Constants
<1> QED
  BY <1>1, <1>2, <1>3
  DEF HalvesInv, OnRecordKept, CutInTwo, AwaitedAreKept, OnRecord, NoHost, TicketNames, Idle

---------------------------------------------------------------------------
(* Theorems *)

\* Every store, request and record of the three doors keeps its type, and the
\* pin door's queue is in order, whatever arrives and whenever the object ends.
THEOREM TypesAndTurns == Spec => [](TypeOK /\ TurnsTaken /\ LookupsTakeTurns)
<1>1. Init => TypeOK /\ TurnsTaken /\ LookupsTakeTurns
  BY TypeInit, TurnsInit
<1>2. TypeOK /\ TurnsTaken /\ LookupsTakeTurns /\ [Next]_vars
          => (TypeOK /\ TurnsTaken /\ LookupsTakeTurns)'
  <2>1. TurnsTaken => IsFiniteSet(failures)
    BY DEF TurnsTaken
  <2> QED
    BY <2>1, TypeStep, TurnsStep
<1> QED
  BY <1>1, <1>2, PTL DEF Spec

\* Types alone.
THEOREM TypeCorrect == Spec => []TypeOK
  BY TypesAndTurns, PTL

\* Past the budget of wrong guesses, lookups happen one per penalty, whoever
\* sends them: each claims its turn before it sleeps (enrollment.js:55).
THEOREM TakingTurns == Spec => []LookupsTakeTurns
  BY TypesAndTurns, PTL

\* The wrong guesses looked up without a wait are never more in a window than
\* the budget (enrollment.js:27), whatever wakes, expires or is told to come
\* back in it.
THEOREM GuessesAreBounded == Spec => []FreeGuessesBounded
<1>1. TypeOK /\ TypeOK' /\ TurnsTaken /\ GuessesCounted /\ FreeGuessesBounded /\ [Next]_vars
          => (GuessesCounted /\ FreeGuessesBounded)'
  BY GuessStep
<1> QED
  BY <1>1, GuessInit, TypesAndTurns, PTL DEF Spec

\* The inductive invariant holds of every behaviour of the tickets and pins kept
\* by the hub's coordinator: what the theorems below are read off from.
THEOREM Inductive == Spec => []IInv
<1>1. TypeOK /\ TypeOK' /\ IInv /\ [Next]_vars => IInv'
  BY InvStep
<1> QED
  BY <1>1, InvInit, TypeCorrect, PTL DEF Spec

\* One pin or ticket admits one machine, and what admitted a machine is not in
\* storage to be restored (enrollment.js:9, runner-tickets.js:22), for any
\* number of doors, redemptions in flight and evictions.
THEOREM EachIsUsedOnce == Spec => []OneMachinePerCredential
<1>1. IInv => OneMachinePerCredential
  BY DEF IInv, OneMachine, UsedAreUnheld, Unheld, OneMachinePerCredential
<1> QED
  BY <1>1, Inductive, PTL

\* A VM's ticket that two machines presented has no host in the fleet, nor one
\* to restore (core.js:8133).
THEOREM SpentTwiceIsUndone == Spec => []TwoHoldersNoHost
<1>1. IInv => TwoHoldersNoHost
  <2> SUFFICES ASSUME IInv, NEW t \in VmTickets, Cardinality(presented[t]) > 1
               PROVE  hosts[t].status # "live" /\ stored.hosts[t].status # "live"
    BY DEF TwoHoldersNoHost
  <2>1. ASSUME hosts[t].status = "live" PROVE FALSE
    <3>1. presented[t] = {hosts[t].machine}
      BY <2>1 DEF IInv, VmHolder
    <3>2. Cardinality(presented[t]) = 1
      BY <3>1, FS_Singleton
    <3> QED
      BY <3>2
  <2>2. stored.hosts[t].status = "live" => hosts[t].status = "live"
    BY DEF IInv, VmHolder
  <2> QED
    BY <2>1, <2>2
<1> QED
  BY <1>1, Inductive, PTL

\* A cancelled pin, and whatever a removed person had, admits nobody afterwards
\* (fleet-do.js:1300, core.js:3055), a redemption asleep and a restart included.
THEOREM CancelledStaysCancelled == Spec => WithdrawnStaysOut
<1>1. IInv /\ TypeOK /\ TypeOK' /\ [Next]_vars
          => [\A a \in admitted' \ admitted : a[1] \notin withdrawn]_vars
  BY AdmitsStep
<1> QED
  BY <1>1, Inductive, TypeCorrect, PTL DEF Spec, WithdrawnStaysOut

\* Where a session or a place waits for the machine, an answered enrolment has
\* its ticket out of storage and its host in it, together and for good: what
\* fleet-do.js:694 says of every machine holds of these, because the core has
\* everything written once more (core.js:5598 and :8181).
THEOREM AwaitedHaveBothHalves ==
    Spec => [](AwaitedBothHalves /\ \A a \in admitted : a[1] \notin stored.tickets)
<1>1. HalvesInv /\ TypeOK /\ [Next]_vars => HalvesInv'
  BY HalvesStep
<1>2. HalvesInv => AwaitedBothHalves
  BY DEF HalvesInv, AwaitedAreKept, HostKept, TicketNames, AwaitedBothHalves
<1>3. IInv => \A a \in admitted : a[1] \notin stored.tickets
  BY DEF IInv, UsedAreUnheld, Unheld
<1> QED
  BY <1>1, <1>2, <1>3, HalvesInit, Inductive, TypeCorrect, PTL DEF Spec

\* The three doors implement SingleUse: a pin or ticket goes from unissued to good,
\* is taken once and answered, or lapses, and never becomes good again, for any
\* interleaving of the doors, their waits and the ends of the object.
THEOREM AdmissionGivesEachOnce == Spec => GivesEachOnce
<1>1. IInv /\ TypeOK /\ [Next]_vars => [Promise!Next]_(Promise!vars)
  BY PromiseKept
<1> QED
  BY <1>1, PromiseInit, Inductive, TypeCorrect, PTL DEF Spec, GivesEachOnce, Promise!Spec
=============================================================================
