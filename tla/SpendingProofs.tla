-------------------------- MODULE SpendingProofs ---------------------------
(***************************************************************************)
(* What the coordinator and its minter spend and must not spend twice:     *)
(* machines kept ready, calls to a model, the tokens of a Claude sign-in.  *)
(*                                                                         *)
(* Machines: that one given up on stays away needs its ticket: a kept      *)
(* machine that has not enrolled has a ticket as old as its place, and     *)
(* tally gives it up only when that place is older than any ticket gets    *)
(* (Waiting). That a surplus is stale needs the count an ask was begun     *)
(* under to be short still when its ticket is minted (Room): what is kept  *)
(* grows by the one ask under way, and by nothing else.                    *)
(*                                                                         *)
(* Calls: that two calls are a quiet time apart is about the past, while a *)
(* call is measured against the rows of one memory. LimitsKept joins them: *)
(* a call that still counts is in the rows of the memory in use and in     *)
(* those storage would give back, so neither waiting nor a rebuild forgets *)
(* one.                                                                    *)
(*                                                                         *)
(* Tokens: that a sign-in's end is told once rests on who holds its token. *)
(* The row's token is the one Anthropic takes unless somebody is about to  *)
(* write its successor back or the successor was lost (RowKept, WorkKept), *)
(* and what a check was begun on has not been told of; a deposit is of a   *)
(* sign-in nobody has yet (DepositsFresh).                                 *)
(***************************************************************************)
EXTENDS Standby, DecideBudget, ClaudeSignIn, FiniteSetTheorems, SequenceTheorems, TLAPS

---------------------------------------------------------------------------
(* Machines kept ready *)

Keeping == [kept : {TRUE}, kind : Kinds, age : 0..Pending + 1, enrolled : BOOLEAN]
Places  == [MachineIds -> {NotKept} \cup Keeping]

\* k keeps what j does, or less of it.
Less(k, j) == k \in Places /\ \A m \in MachineIds : k[m] = j[m] \/ k[m] = NotKept

LEMMA StandbyConstants ==
    /\ NotEnrolled \notin MachineIds /\ NotEnrolled \notin Holders /\ "gone" \notin Holders
    /\ MaxReady \in Nat /\ Pending \in Nat /\ Pending >= 1 /\ MaxChanges \in Nat
    /\ NoWish \notin Wishes
  BY StandbyAssumption

LEMMA Keepings ==
    /\ ~NotKept.kept /\ NotKept \notin Keeping
    /\ \A p \in {NotKept} \cup Keeping : p.kept => p \in Keeping
    /\ \A p \in Keeping : p.kept /\ p.age \in 0..Pending + 1 /\ p.enrolled \in BOOLEAN
<1>1. \A p \in Keeping : p.kept /\ p.age \in 0..Pending + 1 /\ p.enrolled \in BOOLEAN
  BY DEF Keeping
<1>2. ~NotKept.kept
  BY DEF NotKept
<1>3. NotKept \notin Keeping
  BY <1>1, <1>2
<1>4. \A p \in {NotKept} \cup Keeping : p.kept => p \in Keeping
  BY <1>2
<1> QED
  BY <1>1, <1>2, <1>3, <1>4

\* To take machines out leaves less.
LEMMA WithoutIsLess == ASSUME NEW k \in Places, NEW ms PROVE Less(KeptWithout(k, ms), k)
  BY DEF Less, KeptWithout, Places

LEMMA TalliedIsLess == ASSUME NEW k \in Places PROVE Less(Tallied(k), k)
  BY WithoutIsLess DEF Tallied

LEMMA LessOfLess ==
    ASSUME NEW i, NEW k \in Places, NEW j, Less(i, k), Less(k, j) PROVE Less(i, j)
  BY DEF Less

\* What a tally of less gives up on, a tally of all would have.
LEMMA LessGivesUpLess ==
    ASSUME NEW j \in Places, NEW k, Less(k, j) PROVE NeverCame(k) \subseteq NeverCame(j)
  BY Keepings DEF Less, NeverCame, Of, Places

---------------------------------------------------------------------------
(* What the actions that keep no new machine do *)

\* What is kept and given up on afterwards, of an action that notes nothing.
Forgets ==
    /\ Less(kept', kept)
    /\ givenUp' \subseteq givenUp \cup NeverCame(kept)

LEMMA TopsUpForgets ==
    ASSUME kept \in Places, NEW k, Less(k, kept), NEW w, TopsUp(k, w) PROVE Forgets
<1>1. k \in Places
  BY DEF Less
<1>2. CASE kept' = k /\ givenUp' = givenUp
  BY <1>2 DEF Forgets
<1>3. CASE kept' = Tallied(k) /\ givenUp' = givenUp \cup NeverCame(k)
  BY <1>1, <1>3, TalliedIsLess, LessOfLess, LessGivesUpLess DEF Forgets
<1> QED
  BY <1>2, <1>3 DEF TopsUp

LEMMA SameForgets == ASSUME kept \in Places, UNCHANGED <<kept, givenUp>> PROVE Forgets
  BY DEF Forgets, Less

LEMMA NextBoxForgets ==
    ASSUME kept \in Places, NEW a \in asks, NextBox(a), UNCHANGED givenUp PROVE Forgets
  BY WithoutIsLess, SameForgets DEF NextBox, Forgets

\* Every step but a minting, a presenting, an end and a tick.
Plain ==
    \/ \E w \in Wishes \cup {NoWish} : SetWish(w)
    \/ TopUp \/ Snapshot \/ AskFails \/ Restarts
    \/ \E m \in MachineIds : Take(m)
    \/ \E h \in Holders : AskBox(h)
    \/ \E m \in MachineIds, h \in Holders :
         BoxMakes(m, h) \/ BoxRefuses(m, h) \/ BoxNeverHears(m, h)

LEMMA PlainForgets ==
    ASSUME kept \in Places, Plain PROVE Forgets /\ UNCHANGED <<ticket, host>>
<1>1. Less(kept, kept)
  BY DEF Less
<1>2. ASSUME NEW w \in Wishes \cup {NoWish}, SetWish(w) PROVE Forgets /\ UNCHANGED <<ticket, host>>
  BY <1>2, TopsUpForgets, WithoutIsLess DEF SetWish
<1>3. CASE TopUp
  BY <1>1, <1>3, TopsUpForgets DEF TopUp
<1>4. CASE Snapshot
  BY <1>4, TalliedIsLess DEF Snapshot, Forgets
<1>5. CASE AskFails
  BY <1>5, NextBoxForgets DEF AskFails
<1>6. CASE Restarts
  BY <1>6, SameForgets DEF Restarts
<1>7. ASSUME NEW m \in MachineIds, Take(m) PROVE Forgets /\ UNCHANGED <<ticket, host>>
  BY <1>7, TopsUpForgets, WithoutIsLess DEF Take
<1>8. ASSUME NEW h \in Holders, AskBox(h) PROVE Forgets /\ UNCHANGED <<ticket, host>>
  BY <1>8, SameForgets DEF AskBox
<1>9. ASSUME NEW m \in MachineIds, NEW h \in Holders, BoxMakes(m, h) \/ BoxNeverHears(m, h)
      PROVE  Forgets /\ UNCHANGED <<ticket, host>>
  BY <1>9, SameForgets DEF BoxMakes, BoxNeverHears
<1>10. ASSUME NEW m \in MachineIds, NEW h \in Holders, BoxRefuses(m, h)
       PROVE  Forgets /\ UNCHANGED <<ticket, host>>
  <2>1. PICK a \in Awaits(m, h) : NextBox(a) \/ (Settled(a) /\ kept' = KeptWithout(kept, {m}))
    BY <1>10 DEF BoxRefuses
  <2>2. a \in asks /\ givenUp' = givenUp /\ UNCHANGED <<ticket, host>>
    BY <1>10 DEF Awaits, BoxRefuses
  <2>3. CASE NextBox(a)
    BY <2>2, <2>3, NextBoxForgets
  <2>4. CASE kept' = KeptWithout(kept, {m})
    BY <2>2, <2>4, WithoutIsLess DEF Forgets
  <2> QED
    BY <2>1, <2>2, <2>3, <2>4
<1> QED
  BY <1>2, <1>3, <1>4, <1>5, <1>6, <1>7, <1>8, <1>9, <1>10 DEF Plain

LEMMA NextIsPlainOrNot ==
    StandbyNext => \/ Plain \/ StandbyTick
                   \/ \E m \in MachineIds : Minted(m) \/ Ends(m)
                   \/ \E m \in MachineIds, h \in Holders : Presents(m, h)
  BY DEF StandbyNext, Plain

---------------------------------------------------------------------------
(* Types *)

LEMMA TypesOfPlaces == StandbyTypeOK <=>
    /\ wish \in Wishes \cup {NoWish}
    /\ kept \in Places
    /\ ticket \in [MachineIds -> [is : {"none", "live", "spent", "over"}, age : 0..Pending]]
    /\ asks \subseteq TopUps
    /\ carried \subseteq MachineIds \X Holders
    /\ vms \in [MachineIds -> [Holders -> {"none", "booting", "up", "refused"}]]
    /\ host \in [MachineIds -> Holders \cup {NotEnrolled, "gone"}]
    /\ givenUp \subseteq MachineIds
    /\ changes \in 0..MaxChanges
  BY DEF StandbyTypeOK, Places, Keeping

\* What is being asked for stays what can be asked for.
LEMMA TopsUpTypes ==
    ASSUME asks \subseteq TopUps, NEW k, NEW w \in Wishes \cup {NoWish}, TopsUp(k, w)
    PROVE  asks' \subseteq TopUps
<1>1. w # NoWish => Beginnings(w) \subseteq TopUps
  BY DEF Beginnings, TopUps
<1> QED
  BY <1>1 DEF TopsUp

LEMMA NextBoxTypes ==
    ASSUME asks \subseteq TopUps, NEW a \in asks, NextBox(a) PROVE asks' \subseteq TopUps
<1>1. [a EXCEPT !.at = NotEnrolled] \in TopUps
  BY DEF TopUps
<1> QED
  BY <1>1 DEF NextBox, Settled

\* A plain step keeps every type but those of the places and of what is given
\* up on, which PlainForgets is about.
LEMMA PlainTypes ==
    ASSUME StandbyTypeOK, Plain
    PROVE  /\ wish' \in Wishes \cup {NoWish} /\ asks' \subseteq TopUps
           /\ carried' \subseteq MachineIds \X Holders /\ changes' \in 0..MaxChanges
           /\ vms' \in [MachineIds -> [Holders -> {"none", "booting", "up", "refused"}]]
<1> DEFINE Goal == /\ wish' \in Wishes \cup {NoWish} /\ asks' \subseteq TopUps
                   /\ carried' \subseteq MachineIds \X Holders /\ changes' \in 0..MaxChanges
                   /\ vms' \in [MachineIds -> [Holders -> {"none", "booting", "up", "refused"}]]
<1>0. /\ wish \in Wishes \cup {NoWish} /\ asks \subseteq TopUps
      /\ carried \subseteq MachineIds \X Holders /\ changes \in 0..MaxChanges
      /\ vms \in [MachineIds -> [Holders -> {"none", "booting", "up", "refused"}]]
  BY DEF StandbyTypeOK
<1>1. Change => changes' \in 0..MaxChanges
  BY <1>0, StandbyConstants DEF Change
<1>2. ASSUME NEW w \in Wishes \cup {NoWish}, SetWish(w) PROVE Goal
  BY <1>0, <1>1, <1>2, TopsUpTypes DEF SetWish
<1>3. CASE TopUp
  BY <1>0, <1>3, TopsUpTypes DEF TopUp
<1>4. CASE Snapshot
  BY <1>0, <1>4 DEF Snapshot
<1>5. CASE AskFails
  BY <1>0, <1>5, NextBoxTypes DEF AskFails
<1>6. CASE Restarts
  BY <1>0, <1>1, <1>6 DEF Restarts
<1>7. ASSUME NEW m \in MachineIds, Take(m) PROVE Goal
  BY <1>0, <1>1, <1>7, TopsUpTypes DEF Take
<1>8. ASSUME NEW h \in Holders, AskBox(h) PROVE Goal
  <2>1. PICK a \in asks :
          /\ a.id # NotEnrolled
          /\ asks' = (asks \ {a}) \cup {[a EXCEPT !.left = @ \ {h}, !.at = h]}
          /\ carried' = carried \cup {<<a.id, h>>}
    BY <1>8 DEF AskBox
  <2>2. a.id \in MachineIds /\ [a EXCEPT !.left = @ \ {h}, !.at = h] \in TopUps
    BY <1>0, <2>1 DEF TopUps
  <2> QED
    BY <1>0, <1>8, <2>1, <2>2 DEF AskBox
<1>9. ASSUME NEW m \in MachineIds, NEW h \in Holders, BoxMakes(m, h) PROVE Goal
  BY <1>0, <1>9 DEF BoxMakes, Settled
<1>10. ASSUME NEW m \in MachineIds, NEW h \in Holders, BoxRefuses(m, h) PROVE Goal
  <2>1. PICK a \in Awaits(m, h) : NextBox(a) \/ Settled(a)
    BY <1>10 DEF BoxRefuses
  <2>2. asks' \subseteq TopUps
    BY <1>0, <2>1, NextBoxTypes DEF Awaits, Settled
  <2> QED
    BY <1>0, <1>10, <2>2 DEF BoxRefuses
<1>11. ASSUME NEW m \in MachineIds, NEW h \in Holders, BoxNeverHears(m, h) PROVE Goal
  BY <1>0, <1>11 DEF BoxNeverHears
<1> QED
  BY <1>2, <1>3, <1>4, <1>5, <1>6, <1>7, <1>8, <1>9, <1>10, <1>11 DEF Plain

LEMMA MintedTypes == ASSUME StandbyTypeOK, NEW m \in MachineIds, Minted(m) PROVE StandbyTypeOK'
<1>1. PICK a \in asks :
        IF RoomToNote
        THEN /\ kept' = [kept EXCEPT ![m] = [kept |-> TRUE, kind |-> a.wish.kind,
                                             age |-> 0, enrolled |-> FALSE]]
             /\ asks' = (asks \ {a}) \cup {[a EXCEPT !.id = m]}
        ELSE asks' = asks \ {a} /\ UNCHANGED kept
  BY DEF Minted
<1>2. a \in TopUps
  BY DEF StandbyTypeOK
<1>3. [a EXCEPT !.id = m] \in TopUps
  BY <1>2 DEF TopUps
<1>4. [kept |-> TRUE, kind |-> a.wish.kind, age |-> 0, enrolled |-> FALSE] \in Keeping
  BY <1>2, StandbyConstants DEF TopUps, Wishes, Keeping
<1>5. kept' \in Places /\ asks' \subseteq TopUps
  BY <1>1, <1>3, <1>4, TypesOfPlaces DEF Places
<1>6. ticket' \in [MachineIds -> [is : {"none", "live", "spent", "over"}, age : 0..Pending]]
  BY DEF Minted, StandbyTypeOK
<1>7. UNCHANGED <<wish, carried, vms, host, givenUp, changes>>
  BY DEF Minted
<1> QED
  BY <1>5, <1>6, <1>7 DEF StandbyTypeOK, Places, Keeping

LEMMA PresentsTypes ==
    ASSUME StandbyTypeOK, NEW m \in MachineIds, NEW h \in Holders, Presents(m, h)
    PROVE  StandbyTypeOK'
<1>1. UNCHANGED <<wish, asks, carried, givenUp, changes>>
  BY DEF Presents
<1>2. vms' \in [MachineIds -> [Holders -> {"none", "booting", "up", "refused"}]]
  <2>1. PICK v \in {"none", "booting", "up", "refused"} : vms' = [vms EXCEPT ![m][h] = v]
    BY DEF Presents
  <2> QED
    BY <2>1 DEF StandbyTypeOK
<1>3. ticket' \in [MachineIds -> [is : {"none", "live", "spent", "over"}, age : 0..Pending]]
  BY DEF Presents, StandbyTypeOK
<1>4. host' \in [MachineIds -> Holders \cup {NotEnrolled, "gone"}]
  BY DEF Presents, StandbyTypeOK
<1>5. kept' \in Places
  <2>0. kept \in Places
    BY TypesOfPlaces
  <2>1. kept[m].kept => [kept[m] EXCEPT !.enrolled = TRUE] \in Keeping
    BY <2>0, Keepings DEF Places, Keeping
  <2>2. KeptWithout(kept, {m}) \in Places
    BY <2>0, WithoutIsLess DEF Less
  <2>3. kept[m].kept => [kept EXCEPT ![m].enrolled = TRUE] \in Places
    BY <2>0, <2>1 DEF Places
  <2> QED
    BY <2>0, <2>2, <2>3 DEF Presents
<1> QED
  BY <1>1, <1>2, <1>3, <1>4, <1>5 DEF StandbyTypeOK, Places, Keeping

LEMMA TickTypes == ASSUME StandbyTypeOK, StandbyTick PROVE StandbyTypeOK'
<1>1. kept' \in Places
  <2>1. ASSUME NEW m \in MachineIds, kept[m].kept, kept[m].age <= Pending
        PROVE  [kept[m] EXCEPT !.age = @ + 1] \in Keeping
    <3>1. kept[m] \in Keeping
      BY <2>1, TypesOfPlaces, Keepings DEF Places
    <3>0. kept[m].age \in 0..Pending + 1
      BY <3>1, Keepings
    <3>2. kept[m].age + 1 \in 0..Pending + 1
      BY <2>1, <3>0, StandbyConstants
    <3> QED
      BY <3>1, <3>2 DEF Keeping
  <2> QED
    BY <2>1, TypesOfPlaces DEF StandbyTick, Places
<1>2. ticket' \in [MachineIds -> [is : {"none", "live", "spent", "over"}, age : 0..Pending]]
  BY StandbyConstants DEF StandbyTick, StandbyTypeOK, Swept
<1>3. UNCHANGED <<wish, asks, carried, vms, host, givenUp, changes>>
  BY DEF StandbyTick
<1> QED
  BY <1>1, <1>2, <1>3 DEF StandbyTypeOK, Places, Keeping

\* Every value has its type.
THEOREM StandbyTypes == StandbySpec => []StandbyTypeOK
<1>1. StandbyInit => StandbyTypeOK
  BY StandbyConstants DEF StandbyInit, StandbyTypeOK
<1>2. StandbyTypeOK /\ [StandbyNext]_standbyVars => StandbyTypeOK'
  <2> SUFFICES ASSUME StandbyTypeOK, [StandbyNext]_standbyVars PROVE StandbyTypeOK'
    OBVIOUS
  <2>1. CASE Plain
    <3>1. Forgets /\ UNCHANGED <<ticket, host>>
      BY <2>1, PlainForgets, TypesOfPlaces
    <3>2. kept' \in Places /\ givenUp' \subseteq MachineIds
      BY <3>1, TypesOfPlaces DEF Forgets, Less, NeverCame, Of
    <3> QED
      BY <2>1, <3>1, <3>2, PlainTypes DEF StandbyTypeOK, Places, Keeping
  <2>2. CASE StandbyTick
    BY <2>2, TickTypes
  <2>3. ASSUME NEW m \in MachineIds, Minted(m) PROVE StandbyTypeOK'
    BY <2>3, MintedTypes
  <2>4. ASSUME NEW m \in MachineIds, Ends(m) PROVE StandbyTypeOK'
    <3>1. changes' \in 0..MaxChanges
      BY <2>4, StandbyConstants DEF Ends, Change, StandbyTypeOK
    <3>2. host' \in [MachineIds -> Holders \cup {NotEnrolled, "gone"}]
      BY <2>4 DEF Ends, StandbyTypeOK
    <3> QED
      BY <2>4, <3>1, <3>2 DEF Ends, StandbyTypeOK
  <2>5. ASSUME NEW m \in MachineIds, NEW h \in Holders, Presents(m, h) PROVE StandbyTypeOK'
    BY <2>5, PresentsTypes
  <2>6. CASE UNCHANGED standbyVars
    BY <2>6 DEF standbyVars, StandbyTypeOK
  <2> QED
    BY <2>1, <2>2, <2>3, <2>4, <2>5, <2>6, NextIsPlainOrNot
<1> QED
  BY <1>1, <1>2, PTL DEF StandbySpec

---------------------------------------------------------------------------
(* Given up is away *)

\* A ticket not minted yet names no machine, one not presented yet no host;
\* and a kept machine that has not enrolled has a ticket that is as old as its
\* place, or over.
Waiting ==
    \A m \in MachineIds :
        /\ ticket[m].is = "none" => ~kept[m].kept /\ ticket[m].age = 0
        /\ ticket[m].is \in {"none", "live"} => host[m] = NotEnrolled
        /\ ticket[m].is = "live" => ticket[m].age < Pending
        /\ (kept[m].kept /\ ~kept[m].enrolled) =>
              /\ host[m] = NotEnrolled
              /\ \/ ticket[m].is = "over"
                 \/ ticket[m].is = "live" /\ ticket[m].age = kept[m].age

\* One given up on has a ticket that is over.
GivenUpIsOver == \A m \in givenUp : ticket[m].is = "over" /\ host[m] = NotEnrolled

StandbyInv == StandbyTypeOK /\ Waiting /\ GivenUpIsOver

LEMMA NeverCameIsOver ==
    ASSUME StandbyInv, NEW m \in NeverCame(kept)
    PROVE  m \in MachineIds /\ ticket[m].is = "over" /\ host[m] = NotEnrolled
<1>1. m \in MachineIds /\ kept[m].kept /\ ~kept[m].enrolled /\ kept[m].age > Pending
  BY DEF NeverCame, Of
<1>2. ticket[m].age \in 0..Pending
  BY <1>1 DEF StandbyInv, StandbyTypeOK
<1> QED
  BY <1>1, <1>2, StandbyConstants DEF StandbyInv, Waiting

\* What is kept is less, of a ticket and a host as they were.
LEMMA PlainKeeps == StandbyInv /\ Plain => Waiting' /\ GivenUpIsOver'
<1> SUFFICES ASSUME StandbyInv, Plain PROVE Waiting' /\ GivenUpIsOver'
  OBVIOUS
<1>1. Less(kept', kept) /\ givenUp' \subseteq givenUp \cup NeverCame(kept) /\ UNCHANGED <<ticket, host>>
  BY PlainForgets, TypesOfPlaces DEF StandbyInv, Forgets
<1>2. Waiting'
  BY <1>1, Keepings DEF StandbyInv, Waiting, Less
<1>3. GivenUpIsOver'
  BY <1>1, NeverCameIsOver DEF StandbyInv, GivenUpIsOver
<1> QED
  BY <1>2, <1>3

LEMMA MintedKeeps ==
    ASSUME StandbyInv, NEW m \in MachineIds, Minted(m) PROVE Waiting' /\ GivenUpIsOver'
<1>1. /\ ticket[m].is = "none" /\ ticket[m].age = 0 /\ host[m] = NotEnrolled
      /\ UNCHANGED <<host, givenUp>>
  BY DEF Minted, StandbyInv, Waiting
<1>2. /\ ticket'[m].is = "live" /\ ticket'[m].age = 0
      /\ \A n \in MachineIds \ {m} : ticket'[n] = ticket[n]
  BY <1>1 DEF Minted, StandbyInv, StandbyTypeOK
<1>3. kept'[m].kept => kept'[m].age = 0
  BY <1>1, TypesOfPlaces DEF Minted, StandbyInv, Waiting, Places
<1>4. \A n \in MachineIds \ {m} : kept'[n] = kept[n]
  BY TypesOfPlaces DEF Minted, StandbyInv, Places
<1>5. Waiting'
  BY <1>1, <1>2, <1>3, <1>4, StandbyConstants DEF StandbyInv, Waiting
<1>6. GivenUpIsOver'
  BY <1>1, <1>2 DEF StandbyInv, GivenUpIsOver, StandbyTypeOK
<1> QED
  BY <1>5, <1>6

LEMMA PresentsKeeps ==
    ASSUME StandbyInv, NEW m \in MachineIds, NEW h \in Holders, Presents(m, h)
    PROVE  Waiting' /\ GivenUpIsOver'
<1>0. /\ kept \in Places /\ ticket \in [MachineIds -> [is : {"none", "live", "spent", "over"}, age : 0..Pending]]
      /\ host \in [MachineIds -> Holders \cup {NotEnrolled, "gone"}] /\ givenUp \subseteq MachineIds
  BY TypesOfPlaces DEF StandbyInv
<1>1. UNCHANGED givenUp
  BY DEF Presents
<1>2. \A n \in MachineIds \ {m} : UNCHANGED <<kept[n], ticket[n], host[n]>>
  BY <1>0 DEF Presents, KeptWithout, Places
<1>3. CASE ticket[m].is = "live"
  <2>1. ticket'[m].is = "spent"
    BY <1>0, <1>3 DEF Presents
  <2>2. kept'[m].kept => kept'[m].enrolled
    <3>1. CASE kept[m].kept
      <4>1. kept[m] \in Keeping
        BY <1>0, <3>1, Keepings DEF Places
      <4>2. kept'[m] = [kept[m] EXCEPT !.enrolled = TRUE]
        BY <1>0, <1>3, <3>1 DEF Presents, Places
      <4> QED
        BY <4>1, <4>2 DEF Keeping
    <3>2. CASE ~kept[m].kept
      BY <1>3, <3>2 DEF Presents
    <3> QED
      BY <3>1, <3>2
  <2> QED
    BY <1>0, <1>1, <1>2, <1>3, <2>1, <2>2 DEF StandbyInv, Waiting, GivenUpIsOver
<1>4. CASE ticket[m].is = "spent"
  <2>1. UNCHANGED ticket /\ (kept'[m] = kept[m] \/ kept'[m] = NotKept)
    BY <1>0, <1>4 DEF Presents, KeptWithout
  <2>2. ~(kept[m].kept /\ ~kept[m].enrolled) /\ m \notin givenUp
    BY <1>4 DEF StandbyInv, Waiting, GivenUpIsOver
  <2> QED
    BY <1>0, <1>1, <1>2, <1>4, <2>1, <2>2, Keepings DEF StandbyInv, Waiting, GivenUpIsOver
<1>5. CASE ticket[m].is = "over"
  BY <1>1, <1>5 DEF Presents, StandbyInv, Waiting, GivenUpIsOver
<1> QED
  BY <1>3, <1>4, <1>5 DEF Presents

LEMMA EndsKeeps ==
    ASSUME StandbyInv, NEW m \in MachineIds, Ends(m) PROVE Waiting' /\ GivenUpIsOver'
<1>1. /\ host[m] # NotEnrolled /\ UNCHANGED <<kept, ticket, givenUp>>
      /\ \A n \in MachineIds \ {m} : host'[n] = host[n]
  BY StandbyConstants DEF Ends, StandbyInv, StandbyTypeOK
<1> QED
  BY <1>1 DEF StandbyInv, Waiting, GivenUpIsOver, StandbyTypeOK

LEMMA TickKeeps == ASSUME StandbyInv, StandbyTick PROVE Waiting' /\ GivenUpIsOver'
<1>1. /\ UNCHANGED <<host, givenUp>>
      /\ \A m \in MachineIds : ticket'[m] = Swept(ticket[m])
  BY DEF StandbyTick
<1>2. ASSUME NEW m \in MachineIds, kept[m].kept
      PROVE  /\ kept'[m].kept /\ kept'[m].enrolled = kept[m].enrolled
             /\ kept[m].age <= Pending => kept'[m].age = kept[m].age + 1
  <2>1. kept[m] \in Keeping
    BY <1>2, TypesOfPlaces, Keepings DEF StandbyInv, Places
  <2> QED
    BY <1>2, <2>1 DEF StandbyTick, Keeping
<1>3. \A m \in MachineIds : ~kept[m].kept => kept'[m] = kept[m]
  BY DEF StandbyTick
<1>4. ASSUME NEW m \in MachineIds
      PROVE  /\ ticket[m].is \in {"none", "over"} => ticket'[m] = ticket[m]
             /\ ticket[m].is \in {"live", "spent"} =>
                   \/ ticket'[m].is = "over"
                   \/ /\ ticket'[m].is = ticket[m].is /\ ticket'[m].age = ticket[m].age + 1
                      /\ ticket'[m].age < Pending
  <2>1. /\ ticket'[m] = Swept(ticket[m])
        /\ ticket[m] \in [is : {"none", "live", "spent", "over"}, age : 0..Pending]
    BY <1>1 DEF StandbyInv, StandbyTypeOK
  <2>2. CASE ticket[m].is \in {"none", "over"}
    BY <2>1, <2>2 DEF Swept
  <2>3. CASE ticket[m].is \in {"live", "spent"} /\ ticket[m].age + 1 >= Pending
    BY <2>1, <2>3 DEF Swept
  <2>4. CASE ticket[m].is \in {"live", "spent"} /\ ~(ticket[m].age + 1 >= Pending)
    <3>1. ticket'[m] = [ticket[m] EXCEPT !.age = @ + 1]
      BY <2>1, <2>4 DEF Swept
    <3> QED
      BY <2>1, <2>4, <3>1, StandbyConstants
  <2> QED
    BY <2>1, <2>2, <2>3, <2>4
<1>5. Waiting'
  <2> SUFFICES ASSUME NEW m \in MachineIds
               PROVE  /\ ticket'[m].is = "none" => ~kept'[m].kept /\ ticket'[m].age = 0
                      /\ ticket'[m].is \in {"none", "live"} => host'[m] = NotEnrolled
                      /\ ticket'[m].is = "live" => ticket'[m].age < Pending
                      /\ (kept'[m].kept /\ ~kept'[m].enrolled) =>
                            /\ host'[m] = NotEnrolled
                            /\ \/ ticket'[m].is = "over"
                               \/ ticket'[m].is = "live" /\ ticket'[m].age = kept'[m].age
    BY DEF Waiting
  <2>0. ticket[m].age \in Nat /\ ticket[m].is \in {"none", "live", "spent", "over"}
    BY DEF StandbyInv, StandbyTypeOK
  <2>1. ticket'[m].is = "none" => ~kept'[m].kept /\ ticket'[m].age = 0
    BY <1>3, <1>4, <2>0 DEF StandbyInv, Waiting
  <2>2. ticket'[m].is \in {"none", "live"} => host'[m] = NotEnrolled
    BY <1>1, <1>4, <2>0 DEF StandbyInv, Waiting
  <2>3. ticket'[m].is = "live" => ticket'[m].age < Pending
    BY <1>4, <2>0
  <2>4. ASSUME kept'[m].kept, ~kept'[m].enrolled
        PROVE  /\ host'[m] = NotEnrolled
               /\ \/ ticket'[m].is = "over"
                  \/ ticket'[m].is = "live" /\ ticket'[m].age = kept'[m].age
    <3>1. kept[m].kept /\ ~kept[m].enrolled
      BY <1>2, <1>3, <2>4
    <3>2. host'[m] = NotEnrolled
      BY <1>1, <3>1 DEF StandbyInv, Waiting
    <3>3. CASE ticket[m].is = "over"
      BY <1>4, <3>2, <3>3
    <3>4. CASE ticket[m].is = "live" /\ ticket[m].age = kept[m].age
      <4>1. kept[m].age <= Pending
        BY <3>4, <2>0, StandbyConstants DEF StandbyInv, Waiting
      <4> QED
        BY <1>2, <1>4, <3>1, <3>2, <3>4, <4>1
    <3> QED
      BY <3>1, <3>3, <3>4 DEF StandbyInv, Waiting
  <2> QED
    BY <2>1, <2>2, <2>3, <2>4
<1>6. GivenUpIsOver'
  BY <1>1, <1>4 DEF StandbyInv, StandbyTypeOK, GivenUpIsOver
<1> QED
  BY <1>5, <1>6

\* A machine tally gives up on never joins afterwards, for every number of
\* machines and boxes and however calls, presentations, restarts and changes of
\* the wish fall: #sweep ends its ticket no later than tally its place.
THEOREM GivenUpIsGone == StandbySpec => []GivenUpStaysAway
<1>1. StandbyInit => Waiting /\ GivenUpIsOver
  BY Keepings DEF StandbyInit, Waiting, GivenUpIsOver
<1>2. StandbyInv /\ [StandbyNext]_standbyVars => Waiting' /\ GivenUpIsOver'
  <2>1. CASE UNCHANGED standbyVars
    BY <2>1 DEF standbyVars, StandbyInv, Waiting, GivenUpIsOver
  <2> QED
    BY <2>1, PlainKeeps, MintedKeeps, EndsKeeps, PresentsKeeps, TickKeeps, NextIsPlainOrNot
<1>3. GivenUpIsOver => GivenUpStaysAway
  BY DEF GivenUpIsOver, GivenUpStaysAway
<1> QED
  BY StandbyTypes, <1>1, <1>2, <1>3, PTL DEF StandbySpec, StandbyInv
---------------------------------------------------------------------------
(* A surplus is stale *)

\* One top-up at a time, and until its ticket is minted what is kept is short
\* of the wish it was begun under.
OneAsk == \A a, b \in asks : a = b
Room == \A a \in asks : a.id = NotEnrolled => Short(kept, a.wish)

\* What k keeps j keeps, of the same kind.
Within(k, j) == \A m \in MachineIds : k[m].kept => j[m].kept /\ k[m].kind = j[m].kind

LEMMA MatchingIsFinite ==
    ASSUME NEW k, NEW w
    PROVE  IsFiniteSet(Matching(k, w)) /\ Cardinality(Matching(k, w)) \in Nat
<1>1. Matching(k, w) \in SUBSET MachineIds
  BY DEF Matching, Of
<1> QED
  BY <1>1, StandbyAssumption, FS_Subset, FS_CardinalityType

LEMMA WithinMatches ==
    ASSUME NEW k, NEW j, Within(k, j), NEW w
    PROVE  /\ Matching(k, w) \subseteq Matching(j, w)
           /\ Cardinality(Matching(k, w)) <= Cardinality(Matching(j, w))
<1>1. Matching(k, w) \subseteq Matching(j, w)
  BY DEF Within, Matching, Of
<1> QED
  BY <1>1, MatchingIsFinite, FS_Subset

LEMMA LessIsWithin == ASSUME NEW k, NEW j, Less(k, j) PROVE Within(k, j)
  BY Keepings DEF Less, Within

\* What a step that mints nothing does to what is kept.
LEMMA OthersKeepWithin ==
    ASSUME StandbyTypeOK, Plain \/ StandbyTick
               \/ (\E m \in MachineIds : Ends(m)) \/ (\E m \in MachineIds, h \in Holders : Presents(m, h))
    PROVE  Within(kept', kept)
<1>0. kept \in Places
  BY TypesOfPlaces
<1>1. CASE Plain
  BY <1>0, <1>1, PlainForgets, LessIsWithin DEF Forgets
<1>2. CASE StandbyTick
  <2>1. ASSUME NEW m \in MachineIds, kept'[m].kept PROVE kept[m].kept /\ kept'[m].kind = kept[m].kind
    <3>1. CASE kept[m].kept
      <4>1. kept[m] \in Keeping
        BY <1>0, <3>1, Keepings DEF Places
      <4> QED
        BY <1>2, <3>1, <4>1 DEF StandbyTick, Keeping
    <3>2. CASE ~kept[m].kept
      BY <1>2, <2>1, <3>2 DEF StandbyTick
    <3> QED
      BY <3>1, <3>2
  <2> QED
    BY <2>1 DEF Within
<1>3. ASSUME NEW m \in MachineIds, Ends(m) PROVE Within(kept', kept)
  BY <1>3 DEF Ends, Within
<1>4. ASSUME NEW m \in MachineIds, NEW h \in Holders, Presents(m, h) PROVE Within(kept', kept)
  <2>1. CASE kept' = kept
    BY <2>1 DEF Within
  <2>2. CASE kept' = KeptWithout(kept, {m})
    BY <1>0, <2>2, WithoutIsLess, LessIsWithin
  <2>3. CASE kept[m].kept /\ kept' = [kept EXCEPT ![m].enrolled = TRUE]
    <3>1. kept[m] \in Keeping
      BY <1>0, <2>3, Keepings DEF Places
    <3>2. kept'[m] = [kept[m] EXCEPT !.enrolled = TRUE] /\ \A n \in MachineIds \ {m} : kept'[n] = kept[n]
      BY <1>0, <2>3 DEF Places
    <3> QED
      BY <2>3, <3>1, <3>2 DEF Keeping, Within
  <2> QED
    BY <1>4, <2>1, <2>2, <2>3 DEF Presents
<1> QED
  BY <1>1, <1>2, <1>3, <1>4

\* An ask whose ticket is not minted was one before, or was begun short.
Continues ==
    /\ OneAsk'
    /\ \A b \in asks' : b.id = NotEnrolled =>
          \/ \E a \in asks : a.id = NotEnrolled /\ a.wish = b.wish
          \/ Short(kept', b.wish)

LEMMA TopsUpContinues ==
    ASSUME OneAsk, NEW k, NEW w, TopsUp(k, w) PROVE Continues
<1>1. CASE asks' = asks \/ asks' = {}
  BY <1>1 DEF Continues, OneAsk
<1>2. ASSUME NEW a \in Beginnings(w), Short(Tallied(k), w), kept' = Tallied(k), asks' = {a}
      PROVE  Continues
  <2>1. a.wish = w
    BY DEF Beginnings
  <2> QED
    BY <1>2, <2>1 DEF Continues, OneAsk
<1> QED
  BY <1>1, <1>2 DEF TopsUp

\* An ask that is replaced by one of the same ticket and wish, or is gone.
LEMMA MovingOnContinues ==
    ASSUME OneAsk, NEW a \in asks, NEW b, b.id = a.id, b.wish = a.wish,
           asks' \subseteq (asks \ {a}) \cup {b}
    PROVE  Continues
  BY DEF Continues, OneAsk

LEMMA NextBoxContinues ==
    ASSUME OneAsk, asks \subseteq TopUps, NEW a \in asks, NextBox(a) \/ Settled(a) PROVE Continues
<1>1. [a EXCEPT !.at = NotEnrolled].id = a.id /\ [a EXCEPT !.at = NotEnrolled].wish = a.wish
  BY DEF TopUps
<1>2. asks' \subseteq (asks \ {a}) \cup {[a EXCEPT !.at = NotEnrolled]}
  BY DEF NextBox, Settled
<1> QED
  BY <1>1, <1>2, MovingOnContinues

LEMMA PlainContinues == ASSUME StandbyTypeOK, OneAsk, Plain PROVE Continues
<1>0. asks \subseteq TopUps
  BY DEF StandbyTypeOK
<1>1. asks' = asks \/ asks' = {} => Continues
  BY DEF Continues, OneAsk
<1>2. ASSUME NEW w \in Wishes \cup {NoWish}, SetWish(w) PROVE Continues
  BY <1>2, TopsUpContinues DEF SetWish
<1>3. CASE TopUp
  BY <1>3, TopsUpContinues DEF TopUp
<1>4. CASE Snapshot \/ Restarts
  BY <1>1, <1>4 DEF Snapshot, Restarts
<1>5. CASE AskFails
  BY <1>0, <1>5, NextBoxContinues DEF AskFails
<1>6. ASSUME NEW m \in MachineIds, Take(m) PROVE Continues
  BY <1>6, TopsUpContinues DEF Take
<1>7. ASSUME NEW h \in Holders, AskBox(h) PROVE Continues
  <2>1. PICK a \in asks : asks' = (asks \ {a}) \cup {[a EXCEPT !.left = @ \ {h}, !.at = h]}
    BY <1>7 DEF AskBox
  <2>2. /\ [a EXCEPT !.left = @ \ {h}, !.at = h].id = a.id
        /\ [a EXCEPT !.left = @ \ {h}, !.at = h].wish = a.wish
    BY <1>0, <2>1 DEF TopUps
  <2> QED
    BY <2>1, <2>2, MovingOnContinues
<1>8. ASSUME NEW m \in MachineIds, NEW h \in Holders,
             BoxMakes(m, h) \/ BoxRefuses(m, h) \/ BoxNeverHears(m, h)
      PROVE  Continues
  BY <1>0, <1>1, <1>8, NextBoxContinues DEF BoxMakes, BoxRefuses, BoxNeverHears, Awaits
<1> QED
  BY <1>2, <1>3, <1>4, <1>5, <1>6, <1>7, <1>8 DEF Plain

LEMMA ContinuesKeepsRoom ==
    ASSUME Room, Within(kept', kept), asks \subseteq TopUps, Continues PROVE OneAsk' /\ Room'
<1>1. ASSUME NEW b \in asks', b.id = NotEnrolled PROVE Short(kept', b.wish)
  <2>1. CASE Short(kept', b.wish)
    BY <2>1
  <2>2. ASSUME NEW a \in asks, a.id = NotEnrolled, a.wish = b.wish PROVE Short(kept', b.wish)
    <3>1. a.wish.count \in Nat /\ Cardinality(Matching(kept, a.wish)) < a.wish.count
      BY <2>2, StandbyConstants DEF Room, Short, TopUps, Wishes
    <3> QED
      BY <2>2, <3>1, WithinMatches, MatchingIsFinite DEF Short
  <2> QED
    BY <1>1, <2>1, <2>2 DEF Continues
<1> QED
  BY <1>1 DEF Continues, Room

\* What the one step that keeps more adds.
LEMMA MintedAdds ==
    ASSUME StandbyTypeOK, OneAsk, Room, NEW m \in MachineIds, Minted(m)
    PROVE  /\ OneAsk' /\ Room'
           /\ \/ kept' = kept
              \/ \E a \in asks : /\ Short(kept, a.wish) /\ a.wish \in Wishes
                                 /\ Matching(kept', a.wish) \subseteq Matching(kept, a.wish) \cup {m}
<1>0. kept \in Places /\ asks \subseteq TopUps
  BY TypesOfPlaces
<1>1. PICK a \in asks :
        /\ a.id = NotEnrolled
        /\ \/ /\ kept' = [kept EXCEPT ![m] = [kept |-> TRUE, kind |-> a.wish.kind,
                                             age |-> 0, enrolled |-> FALSE]]
              /\ asks' = (asks \ {a}) \cup {[a EXCEPT !.id = m]}
           \/ asks' = asks \ {a} /\ UNCHANGED kept
  BY DEF Minted
<1>2. a.wish \in Wishes /\ Short(kept, a.wish) /\ [a EXCEPT !.id = m].id = m
  BY <1>0, <1>1 DEF Room, TopUps
<1>3. asks' \subseteq {[a EXCEPT !.id = m]}
  BY <1>1 DEF OneAsk
<1>4. OneAsk' /\ Room'
  BY <1>2, <1>3, StandbyConstants DEF OneAsk, Room
<1>5. Matching(kept', a.wish) \subseteq Matching(kept, a.wish) \cup {m}
  BY <1>0, <1>1 DEF Matching, Of, Places
<1> QED
  BY <1>2, <1>4, <1>5

LEMMA RoomHolds == StandbySpec => [](OneAsk /\ Room)
<1>1. StandbyInit => OneAsk /\ Room
  BY DEF StandbyInit, OneAsk, Room
<1>2. StandbyTypeOK /\ OneAsk /\ Room /\ [StandbyNext]_standbyVars => OneAsk' /\ Room'
  <2> SUFFICES ASSUME StandbyTypeOK, OneAsk, Room, [StandbyNext]_standbyVars PROVE OneAsk' /\ Room'
    OBVIOUS
  <2>1. CASE Plain
    BY <2>1, OthersKeepWithin, PlainContinues, ContinuesKeepsRoom DEF StandbyTypeOK
  <2>2. ASSUME NEW m \in MachineIds, Minted(m) PROVE OneAsk' /\ Room'
    BY <2>2, MintedAdds
  <2>3. CASE UNCHANGED <<kept, asks>>
    BY <2>3 DEF OneAsk, Room, Short, Matching, Of
  <2>4. CASE UNCHANGED asks /\ Within(kept', kept)
    <3>1. Continues
      BY <2>4 DEF Continues, OneAsk
    <3> QED
      BY <2>4, <3>1, ContinuesKeepsRoom DEF StandbyTypeOK
  <2>5. CASE UNCHANGED standbyVars
    BY <2>3, <2>5 DEF standbyVars
  <2>6. CASE StandbyTick
    BY <2>4, <2>6, OthersKeepWithin DEF StandbyTick
  <2>7. ASSUME NEW m \in MachineIds, Ends(m) PROVE OneAsk' /\ Room'
    BY <2>3, <2>7 DEF Ends
  <2>8. ASSUME NEW m \in MachineIds, NEW h \in Holders, Presents(m, h) PROVE OneAsk' /\ Room'
    BY <2>4, <2>8, OthersKeepWithin DEF Presents
  <2> QED
    BY <2>1, <2>2, <2>5, <2>6, <2>7, <2>8, NextIsPlainOrNot
<1> QED
  BY StandbyTypes, <1>1, <1>2, PTL DEF StandbySpec

\* What is kept passes what the person asks for only by an ask begun under
\* another wish of theirs, whatever frames, buttons, restarts and answers come
\* between the reading of the wish and the minting of the ticket.
THEOREM SurplusIsOfAStaleAsk == StandbySpec => SurplusIsStale
<1> DEFINE Step ==
      (wish' = wish /\ Cardinality(Matching(kept', wish')) > Cardinality(Matching(kept, wish)))
      => (Cardinality(Matching(kept', wish)) <= wish.count \/ \E a \in asks : a.wish # wish)
<1>1. StandbyTypeOK /\ OneAsk /\ Room /\ [StandbyNext]_standbyVars => Step
  <2> SUFFICES ASSUME StandbyTypeOK, OneAsk, Room, [StandbyNext]_standbyVars, wish' = wish,
                      Cardinality(Matching(kept', wish)) > Cardinality(Matching(kept, wish)),
                      \A a \in asks : a.wish = wish
               PROVE  Cardinality(Matching(kept', wish)) <= wish.count
    OBVIOUS
  <2>1. ~Within(kept', kept)
    BY WithinMatches, MatchingIsFinite
  <2>2. kept' # kept
    BY <2>1 DEF Within
  <2>3. ASSUME NEW m \in MachineIds, Minted(m) PROVE Cardinality(Matching(kept', wish)) <= wish.count
    <3>1. /\ Short(kept, wish) /\ wish \in Wishes
          /\ Matching(kept', wish) \in SUBSET (Matching(kept, wish) \cup {m})
      BY <2>2, <2>3, MintedAdds
    <3>2. /\ IsFiniteSet(Matching(kept, wish) \cup {m})
          /\ Cardinality(Matching(kept, wish) \cup {m}) <= Cardinality(Matching(kept, wish)) + 1
      BY MatchingIsFinite, FS_AddElement
    <3>3. Cardinality(Matching(kept', wish)) <= Cardinality(Matching(kept, wish) \cup {m})
      BY <3>1, <3>2, FS_Subset
    <3>4. wish.count \in Nat /\ Cardinality(Matching(kept, wish)) < wish.count
      BY <3>1, StandbyConstants DEF Short, Wishes
    <3>5. Cardinality(Matching(kept, wish) \cup {m}) \in Nat
      BY <3>2, FS_CardinalityType
    <3> QED
      BY <3>2, <3>3, <3>4, <3>5, MatchingIsFinite
  <2> QED
    BY <2>1, <2>2, <2>3, OthersKeepWithin, NextIsPlainOrNot DEF standbyVars
<1> QED
  BY StandbyTypes, RoomHolds, <1>1, PTL DEF StandbySpec, SurplusIsStale

---------------------------------------------------------------------------
(* The budget of a model: the questions put to it *)

AskPhases == {"to come", "limiting", "asking", "answered", "refused", "lost"}
AskRecords(t) == [pane : Panes, phase : AskPhases, at : 0..t, cost : Costs \cup {Estimate}]
Spends == [day : Nat, neurons : Nat]

\* The rows of one memory of the limits at time t: for each pane when it was
\* last asked about, for each host who asked in its window.
AskRows(t, d, h) ==
    /\ d \in [Panes -> SUBSET (0..t)]
    /\ \A p \in Panes : Cardinality(d[p]) <= 1
    /\ h \in [PaneHosts -> SUBSET Asks]
    /\ \A x \in PaneHosts : Cardinality(h[x]) <= HostEach

\* Nothing that still counts is missing from them: a call less than a quiet
\* time old is its pane's row, one inside its host's window is among the asks.
AskCounts(t, k, d, h) ==
    \A a \in Asks : k[a].phase \in {"asking", "answered", "lost"} =>
        /\ t - k[a].at < Quiet => k[a].at \in d[k[a].pane]
        /\ t - k[a].at < HostWindow => a \in h[PaneHost[k[a].pane]]

\* Both memories, the one in use and the one storage would give back.
LimitsKept ==
    /\ AskRows(hour, decided, hostAsks) /\ AskCounts(hour, ask, decided, hostAsks)
    /\ AskRows(hour, storedLimits.decided, storedLimits.hostAsks)
    /\ AskCounts(hour, ask, storedLimits.decided, storedLimits.hostAsks)
    /\ storedLimits.spend \in Spends

\* The clock, the spend and the frames, which no memory holds.
AskTypes == hour \in 0..MaxHours /\ spend \in Spends /\ ask \in [Asks -> AskRecords(hour)]

DecideInv == AskTypes /\ LimitsKept /\ CallsSpaced

LEMMA AsksAreFinite ==
    /\ IsFiniteSet(Asks) /\ Asks \subseteq Nat
    /\ \A S \in SUBSET Asks : IsFiniteSet(S) /\ Cardinality(S) \in Nat
<1>1. IsFiniteSet(Asks) /\ Asks \subseteq Nat
  BY FS_Interval, DecideAssumption DEF Asks
<1>2. ASSUME NEW S \in SUBSET Asks PROVE IsFiniteSet(S) /\ Cardinality(S) \in Nat
  BY <1>1, FS_Subset, FS_CardinalityType
<1> QED
  BY <1>1, <1>2

LEMMA DaysAreCounted == ASSUME NEW t \in Nat PROVE t \div DayLength \in Nat
  BY DecideAssumption

\* A subset of a small set of asks is small.
LEMMA FewerAsks ==
    ASSUME NEW S \in SUBSET Asks, NEW T \in SUBSET S, NEW n \in Nat, Cardinality(S) <= n
    PROVE  Cardinality(T) <= n
<1>1. IsFiniteSet(S) /\ Cardinality(S) \in Nat /\ Cardinality(T) \in Nat
  BY AsksAreFinite
<1>2. Cardinality(T) <= Cardinality(S)
  BY <1>1, FS_Subset
<1> QED
  BY <1>1, <1>2

\* A subset of a row is a row.
LEMMA FewerTimes ==
    ASSUME NEW t \in Nat, NEW S \in SUBSET (0..t), NEW T \in SUBSET S, Cardinality(S) <= 1
    PROVE  Cardinality(T) <= 1
<1>1. IsFiniteSet(0..t)
  BY FS_Interval
<1>2. IsFiniteSet(S)
  BY <1>1, FS_Subset
<1>3. IsFiniteSet(T) /\ Cardinality(T) <= Cardinality(S)
  BY <1>2, FS_Subset
<1>4. Cardinality(T) \in Nat /\ Cardinality(S) \in Nat
  BY <1>2, <1>3, FS_CardinalityType
<1> QED
  BY <1>3, <1>4

LEMMA AskFacts ==
    ASSUME NEW t, NEW k \in [Asks -> AskRecords(t)], NEW a \in Asks
    PROVE  /\ k[a].pane \in Panes /\ PaneHost[k[a].pane] \in PaneHosts
           /\ k[a].phase \in AskPhases /\ k[a].at \in 0..t /\ k[a].cost \in Costs \cup {Estimate}
<1>1. k[a] \in AskRecords(t)
  OBVIOUS
<1> QED
  BY <1>1 DEF AskRecords, PaneHosts

\* What writing the memory down keeps of it is what restoring it keeps: the
\* rows inside their windows, and those are all that count.
LEMMA KeptInside ==
    ASSUME NEW t \in Nat, NEW k \in [Asks -> AskRecords(t)], NEW d, NEW h,
           AskRows(t, d, h), AskCounts(t, k, d, h),
           NEW d2, d2 = [p \in Panes |-> {u \in d[p] : t - u < Quiet}],
           NEW h2, \/ h2 = h
                   \/ h2 = [x \in PaneHosts |-> {a \in h[x] : t - k[a].at < HostWindow}]
    PROVE  AskRows(t, d2, h2) /\ AskCounts(t, k, d2, h2)
<1>1. ASSUME NEW p \in Panes
      PROVE  d2[p] \in SUBSET d[p] /\ d[p] \in SUBSET (0..t) /\ Cardinality(d2[p]) <= 1
  <2>1. d2[p] \in SUBSET d[p] /\ d[p] \in SUBSET (0..t) /\ Cardinality(d[p]) <= 1
    BY DEF AskRows
  <2> QED
    BY <2>1, FewerTimes
<1>2. ASSUME NEW x \in PaneHosts
      PROVE  h2[x] \in SUBSET h[x] /\ h[x] \in SUBSET Asks /\ Cardinality(h2[x]) <= HostEach
  <2>1. h2[x] \in SUBSET h[x] /\ h[x] \in SUBSET Asks /\ Cardinality(h[x]) <= HostEach
    BY DEF AskRows
  <2> QED
    BY <2>1, FewerAsks, DecideAssumption
<1>3. d2 \in [Panes -> SUBSET (0..t)] /\ h2 \in [PaneHosts -> SUBSET Asks]
  BY <1>1, <1>2 DEF AskRows
<1>4. AskCounts(t, k, d2, h2)
  BY AskFacts DEF AskCounts
<1> QED
  BY <1>1, <1>2, <1>3, <1>4 DEF AskRows

---------------------------------------------------------------------------
(* Steps that charge nobody *)

\* A frame that changes neither its pane nor its time once it is charged, and
\* is not charged by the step.
SameCharge(r, s) ==
    /\ r.phase \in {"asking", "answered", "lost"} <=> s.phase \in {"asking", "answered", "lost"}
    /\ r.phase \in {"asking", "answered", "lost"} => s.at = r.at /\ s.pane = r.pane

LEMMA SameChargesCount ==
    ASSUME NEW t, NEW k, NEW k2, NEW d, NEW h, AskCounts(t, k, d, h),
           \A a \in Asks : SameCharge(k[a], k2[a])
    PROVE  AskCounts(t, k2, d, h)
  BY DEF AskCounts, SameCharge

LEMMA SameChargesSpaced ==
    ASSUME CallsSpaced, \A a \in Asks : SameCharge(ask[a], ask'[a])
    PROVE  CallsSpaced'
<1> DEFINE made == {a \in Asks : Charged(a)}
<1>1. made' = made
  BY DEF SameCharge, Charged
<1>2. \A a \in made : ask'[a].at = ask[a].at /\ ask'[a].pane = ask[a].pane
  BY DEF SameCharge, Charged
<1>3. \A h \in PaneHosts : \A t \in 0..MaxHours :
         {a \in made' : PaneHost[ask'[a].pane] = h /\ t <= ask'[a].at /\ ask'[a].at < t + HostWindow}
         = {a \in made : PaneHost[ask[a].pane] = h /\ t <= ask[a].at /\ ask[a].at < t + HostWindow}
  BY <1>1, <1>2
<1> QED
  BY <1>1, <1>2, <1>3 DEF CallsSpaced

\* The frame a is moved on to s and no frame is charged by it.
LEMMA MovedOn ==
    ASSUME NEW t, NEW k \in [Asks -> AskRecords(t)], NEW a \in Asks, NEW s \in AskRecords(t),
           SameCharge(k[a], s)
    PROVE  /\ [k EXCEPT ![a] = s] \in [Asks -> AskRecords(t)]
           /\ \A b \in Asks : SameCharge(k[b], [k EXCEPT ![a] = s][b])
  BY DEF SameCharge

\* The step of a frame that charges nobody: what the memories say stays true,
\* written down again or not.
LEMMA UnchargedKeeps ==
    ASSUME DecideInv, hour' = hour, NEW a \in Asks, NEW s \in AskRecords(hour),
           SameCharge(ask[a], s), ask' = [ask EXCEPT ![a] = s],
           UNCHANGED <<decided, hostAsks>>, spend' \in Spends,
           storedLimits' \in {storedLimits, Serialised(decided, hostAsks, spend')}
    PROVE  DecideInv'
<1>1. hour \in Nat /\ ask \in [Asks -> AskRecords(hour)]
  BY DecideAssumption DEF DecideInv, AskTypes
<1>2. /\ ask' \in [Asks -> AskRecords(hour)]
      /\ \A b \in Asks : SameCharge(ask[b], ask'[b])
  BY <1>1, MovedOn
<1>3. AskTypes' /\ CallsSpaced'
  BY <1>2, SameChargesSpaced DEF DecideInv, AskTypes
<1>4. AskRows(hour, decided, hostAsks) /\ AskCounts(hour, ask', decided, hostAsks)
  BY <1>2, SameChargesCount DEF DecideInv, LimitsKept
<1>5. /\ AskRows(hour, storedLimits'.decided, storedLimits'.hostAsks)
      /\ AskCounts(hour, ask', storedLimits'.decided, storedLimits'.hostAsks)
      /\ storedLimits'.spend \in Spends
  <2>1. CASE storedLimits' = storedLimits
    BY <1>2, <2>1, SameChargesCount DEF DecideInv, LimitsKept
  <2>2. CASE storedLimits' = Serialised(decided, hostAsks, spend')
    <3>1. /\ storedLimits'.decided = [p \in Panes |-> {u \in decided[p] : hour - u < Quiet}]
          /\ storedLimits'.hostAsks = hostAsks
          /\ storedLimits'.spend = spend'
      BY <2>2 DEF Serialised
    <3>2. /\ AskRows(hour, storedLimits'.decided, storedLimits'.hostAsks)
          /\ AskCounts(hour, ask', storedLimits'.decided, storedLimits'.hostAsks)
      <4> DEFINE d2 == storedLimits'.decided
                 h2 == storedLimits'.hostAsks
                 k == ask'
      <4>1. /\ d2 = [p \in Panes |-> {u \in decided[p] : hour - u < Quiet}] /\ h2 = hostAsks
            /\ k \in [Asks -> AskRecords(hour)]
            /\ AskRows(hour, decided, hostAsks) /\ AskCounts(hour, k, decided, hostAsks)
        BY <1>2, <1>4, <3>1
      <4> HIDE DEF d2, h2, k
      <4>2. AskRows(hour, d2, h2) /\ AskCounts(hour, k, d2, h2)
        BY <1>1, <4>1, KeptInside
      <4> QED
        BY <4>2 DEF d2, h2, k
    <3> QED
      BY <3>1, <3>2
  <2> QED
    BY <2>1, <2>2
<1> QED
  BY <1>3, <1>4, <1>5 DEF DecideInv, LimitsKept

---------------------------------------------------------------------------
(* The step that charges *)

\* A call is charged when no call of its pane is less than a quiet time old
\* and fewer than HostEach of its host's are inside the window.
LEMMA ChargedWhenFree ==
    ASSUME DecideInv, NEW a \in Asks, Charge(a)
    PROVE  /\ \A b \in Asks : Charged(b) /\ ask[b].pane = ask[a].pane => ask[b].at + Quiet <= hour
           /\ Cardinality(RecentAsks(PaneHost[ask[a].pane])) < HostEach
           /\ \A b \in Asks :
                 (/\ Charged(b) /\ PaneHost[ask[b].pane] = PaneHost[ask[a].pane]
                  /\ hour - ask[b].at < HostWindow)
                    => b \in RecentAsks(PaneHost[ask[a].pane])
<1> DEFINE p == ask[a].pane
<1>1. /\ p \in Panes /\ PaneHost[p] \in PaneHosts /\ hour \in Nat
      /\ \A b \in Asks : ask[b].at \in 0..hour
  BY AskFacts, DecideAssumption DEF DecideInv, AskTypes
<1>2. /\ \A t \in decided[p] : ~(hour - t < Quiet)
      /\ ~(Cardinality(RecentAsks(PaneHost[p])) >= HostEach)
  BY DEF Charge, Admit, Blocked
<1>3. RecentAsks(PaneHost[p]) \in SUBSET Asks
  BY <1>1 DEF DecideInv, LimitsKept, AskRows, RecentAsks
<1>4. Cardinality(RecentAsks(PaneHost[p])) < HostEach
  BY <1>2, <1>3, AsksAreFinite, DecideAssumption
<1>5. AskCounts(hour, ask, decided, hostAsks)
  BY DEF DecideInv, LimitsKept
<1>6. ASSUME NEW b \in Asks, Charged(b), ask[b].pane = p PROVE ask[b].at + Quiet <= hour
  <2>1. hour - ask[b].at < Quiet => ask[b].at \in decided[p]
    BY <1>5, <1>6 DEF AskCounts, Charged
  <2> QED
    BY <1>1, <1>2, <2>1, DecideAssumption
<1>7. ASSUME NEW b \in Asks, Charged(b), PaneHost[ask[b].pane] = PaneHost[p],
             hour - ask[b].at < HostWindow
      PROVE  b \in RecentAsks(PaneHost[p])
  BY <1>5, <1>7 DEF AskCounts, Charged, RecentAsks
<1> QED
  BY <1>4, <1>6, <1>7

LEMMA ChargedRecord ==
    ASSUME NEW t \in Nat, NEW r \in AskRecords(t)
    PROVE  /\ [r EXCEPT !.phase = "asking", !.at = t] \in AskRecords(t)
           /\ [r EXCEPT !.phase = "asking", !.at = t].phase = "asking"
           /\ [r EXCEPT !.phase = "asking", !.at = t].at = t
           /\ [r EXCEPT !.phase = "asking", !.at = t].pane = r.pane
<1>1. t \in 0..t /\ "asking" \in AskPhases
  BY DEF AskPhases
<1> QED
  BY <1>1 DEF AskRecords

LEMMA ChargeKeeps ==
    ASSUME DecideInv, NEW a \in Asks, Charge(a)
    PROVE  DecideInv'
<1> DEFINE p == ask[a].pane
           x == PaneHost[p]
           s == [ask[a] EXCEPT !.phase = "asking", !.at = hour]
<1>1. /\ hour \in Nat /\ hour \in 0..MaxHours /\ hour' = hour /\ MaxHours \in Nat
      /\ ask \in [Asks -> AskRecords(hour)] /\ ask[a] \in AskRecords(hour)
      /\ p \in Panes /\ x \in PaneHosts
      /\ Quiet \in Nat \ {0} /\ HostWindow \in Nat \ {0} /\ HostEach \in Nat \ {0}
      /\ \A b \in Asks : ask[b].at \in 0..hour /\ ask[b].pane \in Panes
  BY AskFacts, DecideAssumption DEF DecideInv, AskTypes, Charge
<1>2. /\ ask' = [ask EXCEPT ![a].phase = "asking", ![a].at = hour]
      /\ ~Charged(a)
      /\ decided' = [decided EXCEPT ![p] = {hour}]
      /\ hostAsks' = [hostAsks EXCEPT ![x] = RecentAsks(x) \cup {a}]
      /\ spend' = [day |-> Today, neurons |-> SpentToday + Estimate]
      /\ storedLimits' = Serialised(decided', hostAsks', spend')
  BY DEF Charge, Admit, Charged
<1>3. /\ s \in AskRecords(hour) /\ s.phase = "asking" /\ s.at = hour /\ s.pane = p
  BY <1>1, ChargedRecord
<1>4. /\ ask' \in [Asks -> AskRecords(hour)]
      /\ ask'[a] = s
      /\ \A b \in Asks : b # a => ask'[b] = ask[b]
  <2>1. ask' = [ask EXCEPT ![a] = s]
    BY <1>1, <1>2
  <2> HIDE DEF s
  <2> QED
    BY <1>1, <1>3, <2>1
<1>5. spend' \in Spends
  <2>1. SpentToday \in Nat /\ Today \in Nat
    BY <1>1, DaysAreCounted DEF DecideInv, AskTypes, Spends, SpentToday, Today
  <2> QED
    BY <1>2, <2>1, DecideAssumption DEF Spends
<1> HIDE DEF s
<1>6. AskRows(hour, decided, hostAsks) /\ AskCounts(hour, ask, decided, hostAsks)
  BY DEF DecideInv, LimitsKept
<1>7. /\ RecentAsks(x) \cup {a} \in SUBSET Asks
      /\ Cardinality(RecentAsks(x) \cup {a}) <= HostEach
  <2>1. RecentAsks(x) \in SUBSET Asks
    BY <1>1, <1>6 DEF AskRows, RecentAsks
  <2>2. IsFiniteSet(RecentAsks(x)) /\ Cardinality(RecentAsks(x)) \in Nat
    BY <2>1, AsksAreFinite
  <2>3. Cardinality(RecentAsks(x) \cup {a}) <= Cardinality(RecentAsks(x)) + 1
    <3> DEFINE S == RecentAsks(x)
    <3>1. IsFiniteSet(S) /\ Cardinality(S) \in Nat
      BY <2>2
    <3> HIDE DEF S
    <3>2. Cardinality(S \cup {a}) = IF a \in S THEN Cardinality(S) ELSE Cardinality(S) + 1
      BY <3>1, FS_AddElement
    <3>3. Cardinality(S \cup {a}) <= Cardinality(S) + 1
      BY <3>1, <3>2
    <3> QED
      BY <3>3 DEF S
  <2>4. Cardinality(RecentAsks(x) \cup {a}) \in Nat
    BY <2>1, AsksAreFinite
  <2> QED
    BY <1>1, <2>1, <2>2, <2>3, <2>4, ChargedWhenFree
<1>8. AskRows(hour, decided', hostAsks')
  <2>1. Cardinality({hour}) <= 1
    <3>1. Cardinality({hour}) = 1
      BY FS_Singleton
    <3> QED
      BY <3>1
  <2> QED
    BY <1>1, <1>2, <1>6, <1>7, <2>1 DEF AskRows
<1>9. AskCounts(hour, ask', decided', hostAsks')
  <2> SUFFICES ASSUME NEW b \in Asks, ask'[b].phase \in {"asking", "answered", "lost"}
               PROVE  /\ hour - ask'[b].at < Quiet => ask'[b].at \in decided'[ask'[b].pane]
                      /\ hour - ask'[b].at < HostWindow => b \in hostAsks'[PaneHost[ask'[b].pane]]
    BY DEF AskCounts
  <2>1. CASE b = a
    BY <1>1, <1>2, <1>3, <1>4, <1>6, <2>1 DEF AskRows
  <2>2. CASE b # a
    <3>1. ask'[b] = ask[b] /\ Charged(b)
      BY <1>4, <2>2 DEF Charged
    <3>2. hour - ask[b].at < Quiet => ask[b].pane # p /\ ask[b].at \in decided[ask[b].pane]
      BY <1>1, <1>6, <3>1, ChargedWhenFree DEF AskCounts, Charged
    <3>3. hour - ask[b].at < HostWindow =>
             /\ b \in hostAsks[PaneHost[ask[b].pane]]
             /\ PaneHost[ask[b].pane] = x => b \in RecentAsks(x)
      BY <1>6, <3>1, ChargedWhenFree DEF AskCounts, Charged
    <3> QED
      BY <1>1, <1>2, <1>6, <3>1, <3>2, <3>3 DEF AskRows
  <2> QED
    BY <2>1, <2>2
<1>10. /\ AskRows(hour, storedLimits'.decided, storedLimits'.hostAsks)
       /\ AskCounts(hour, ask', storedLimits'.decided, storedLimits'.hostAsks)
       /\ storedLimits'.spend \in Spends
  <2> DEFINE d2 == storedLimits'.decided
             h2 == storedLimits'.hostAsks
             k == ask'
             d == decided'
             h == hostAsks'
  <2>1. /\ d2 = [q \in Panes |-> {u \in d[q] : hour - u < Quiet}] /\ h2 = h
        /\ k \in [Asks -> AskRecords(hour)]
        /\ AskRows(hour, d, h) /\ AskCounts(hour, k, d, h)
        /\ storedLimits'.spend = spend'
    BY <1>1, <1>2, <1>4, <1>8, <1>9 DEF Serialised
  <2> HIDE DEF d2, h2, k, d, h
  <2>2. AskRows(hour, d2, h2) /\ AskCounts(hour, k, d2, h2)
    BY <1>1, <2>1, KeptInside
  <2> QED
    BY <1>5, <2>1, <2>2 DEF d2, h2, k
<1>11. CallsSpaced'
  <2>1. ASSUME NEW b \in Asks, NEW c \in Asks, Charged(b)', Charged(c)', b # c,
               ask'[b].pane = ask'[c].pane
        PROVE  ask'[b].at >= ask'[c].at + Quiet \/ ask'[c].at >= ask'[b].at + Quiet
    <3>1. \A e \in Asks : e # a => (Charged(e)' <=> Charged(e)) /\ ask'[e] = ask[e]
      BY <1>4 DEF Charged
    <3>2. CASE b = a \/ c = a
      BY <1>1, <1>3, <1>4, <2>1, <3>1, <3>2, ChargedWhenFree
    <3>3. CASE b # a /\ c # a
      BY <2>1, <3>1, <3>3 DEF DecideInv, CallsSpaced
    <3> QED
      BY <3>2, <3>3
  <2>2. ASSUME NEW y \in PaneHosts, NEW t \in 0..MaxHours
        PROVE  Cardinality({b \in Asks : /\ Charged(b)' /\ PaneHost[ask'[b].pane] = y
                                          /\ t <= ask'[b].at /\ ask'[b].at < t + HostWindow})
                  <= HostEach
    <3> DEFINE W == {b \in Asks : /\ Charged(b) /\ PaneHost[ask[b].pane] = y
                                   /\ t <= ask[b].at /\ ask[b].at < t + HostWindow}
               V == {b \in Asks : /\ Charged(b)' /\ PaneHost[ask'[b].pane] = y
                                   /\ t <= ask'[b].at /\ ask'[b].at < t + HostWindow}
    <3>1. \A e \in Asks : e # a => (Charged(e)' <=> Charged(e)) /\ ask'[e] = ask[e]
      BY <1>4 DEF Charged
    <3>2. CASE a \notin V
      <4>1. V = W
        BY <1>2, <3>1, <3>2
      <4>2. Cardinality(W) <= HostEach
        <5>1. W = {b \in {e \in Asks : Charged(e)} :
                      /\ PaneHost[ask[b].pane] = y
                      /\ t <= ask[b].at /\ ask[b].at < t + HostWindow}
          OBVIOUS
        <5> QED
          BY <5>1 DEF DecideInv, CallsSpaced
      <4> QED
        BY <4>1, <4>2
    <3>3. CASE a \in V
      <4>1. y = x /\ t <= hour /\ hour < t + HostWindow /\ t \in Nat
        BY <1>1, <1>3, <1>4, <3>3
      <4>2. ASSUME NEW b \in V, b # a PROVE b \in RecentAsks(x)
        <5>1. /\ Charged(b) /\ PaneHost[ask[b].pane] = x
              /\ t <= ask[b].at /\ ask[b].at \in 0..hour
          BY <1>1, <3>1, <4>1, <4>2
        <5>2. hour - ask[b].at < HostWindow
          BY <1>1, <4>1, <5>1
        <5> QED
          BY <5>1, <5>2, ChargedWhenFree
      <4>3. V \in SUBSET (RecentAsks(x) \cup {a})
        BY <4>2
      <4>4. Cardinality(V) <= HostEach
        <5> HIDE DEF V
        <5> QED
          BY <1>1, <1>7, <4>3, FewerAsks
      <4> QED
        BY <4>4
    <3> QED
      BY <3>2, <3>3
  <2>3. \A y \in PaneHosts : \A t \in 0..MaxHours :
           {b \in {e \in Asks : Charged(e)'} : /\ PaneHost[ask'[b].pane] = y
                                               /\ t <= ask'[b].at /\ ask'[b].at < t + HostWindow}
           = {b \in Asks : /\ Charged(b)' /\ PaneHost[ask'[b].pane] = y
                           /\ t <= ask'[b].at /\ ask'[b].at < t + HostWindow}
    OBVIOUS
  <2> QED
    BY <2>1, <2>2, <2>3 DEF CallsSpaced
<1>12. AskTypes'
  BY <1>1, <1>4, <1>5 DEF AskTypes
<1> QED
  BY <1>1, <1>8, <1>9, <1>10, <1>11, <1>12 DEF DecideInv, LimitsKept

---------------------------------------------------------------------------
(* The clock, and an object that is rebuilt *)

\* What has stopped counting does not count again.
LEMMA HourKeeps == ASSUME DecideInv, AnHourPasses PROVE DecideInv'
<1>1. /\ hour \in Nat /\ hour' \in 0..MaxHours /\ hour <= hour' /\ hour' \in Nat
      /\ ask \in [Asks -> AskRecords(hour)]
      /\ UNCHANGED <<spend, decided, hostAsks, storedLimits, ask>>
  BY DecideAssumption DEF DecideInv, AskTypes, AnHourPasses
<1>2. AskRecords(hour) \subseteq AskRecords(hour')
  BY <1>1 DEF AskRecords
<1>3. AskTypes'
  BY <1>1, <1>2 DEF DecideInv, AskTypes
<1>4. ASSUME NEW d, NEW h, AskRows(hour, d, h), AskCounts(hour, ask, d, h)
      PROVE  AskRows(hour', d, h) /\ AskCounts(hour', ask, d, h)
  <2>1. AskRows(hour', d, h)
    BY <1>1, <1>4 DEF AskRows
  <2>2. \A a \in Asks : ask[a].at \in Nat
    BY <1>1, AskFacts
  <2>3. AskCounts(hour', ask, d, h)
    BY <1>1, <1>4, <2>2, DecideAssumption DEF AskCounts
  <2> QED
    BY <2>1, <2>3
<1>5. LimitsKept'
  BY <1>1, <1>4 DEF DecideInv, LimitsKept
<1>6. CallsSpaced'
  BY <1>1 DEF DecideInv, CallsSpaced, Charged
<1> QED
  BY <1>3, <1>5, <1>6 DEF DecideInv

\* A rebuilt object reads back all that counts, and no frame it loses was
\* charged by losing it.
LEMMA RebuiltKeeps == ASSUME DecideInv, LimitsRebuilt PROVE DecideInv'
<1>1. /\ hour \in Nat /\ hour' = hour /\ ask \in [Asks -> AskRecords(hour)]
      /\ storedLimits' = storedLimits /\ storedLimits.spend \in Spends
  BY DecideAssumption DEF DecideInv, AskTypes, LimitsKept, LimitsRebuilt
<1>2. ASSUME NEW a \in Asks
      PROVE  ask'[a] \in AskRecords(hour) /\ SameCharge(ask[a], ask'[a])
  <2>1. ask[a] \in AskRecords(hour)
    BY <1>1
  <2>2. CASE ask[a].phase = "limiting"
    <3>1. ask'[a] = [ask[a] EXCEPT !.phase = "refused"]
      BY <2>2 DEF LimitsRebuilt
    <3> QED
      BY <2>1, <2>2, <3>1 DEF AskRecords, AskPhases, SameCharge
  <2>3. CASE ask[a].phase = "asking"
    <3>1. ask'[a] = [ask[a] EXCEPT !.phase = "lost"]
      BY <2>3 DEF LimitsRebuilt
    <3> QED
      BY <2>1, <2>3, <3>1 DEF AskRecords, AskPhases, SameCharge
  <2>4. CASE ask[a].phase \notin {"limiting", "asking"}
    <3>1. ask'[a] = ask[a]
      BY <2>4 DEF LimitsRebuilt
    <3> QED
      BY <2>1, <3>1 DEF SameCharge
  <2> QED
    BY <2>2, <2>3, <2>4
<1>3. ask' \in [Asks -> AskRecords(hour)]
  <2>1. ask' = [a \in Asks |-> ask'[a]]
    BY DEF LimitsRebuilt
  <2> QED
    BY <1>2, <2>1
<1>4. spend' \in Spends
  BY <1>1, DaysAreCounted DEF LimitsRebuilt, Restored, Spends, Today
<1>5. AskTypes'
  BY <1>1, <1>3, <1>4 DEF DecideInv, AskTypes
<1>6. /\ AskRows(hour, storedLimits.decided, storedLimits.hostAsks)
      /\ AskCounts(hour, ask, storedLimits.decided, storedLimits.hostAsks)
  BY DEF DecideInv, LimitsKept
<1>7. AskRows(hour, decided', hostAsks') /\ AskCounts(hour, ask, decided', hostAsks')
  <2> DEFINE d == storedLimits.decided
             h == storedLimits.hostAsks
             d2 == decided'
             h2 == hostAsks'
  <2>1. /\ d2 = [p \in Panes |-> {u \in d[p] : hour - u < Quiet}]
        /\ h2 = [y \in PaneHosts |-> {a \in h[y] : hour - ask[a].at < HostWindow}]
        /\ AskRows(hour, d, h) /\ AskCounts(hour, ask, d, h)
    BY <1>6 DEF LimitsRebuilt, Restored
  <2> HIDE DEF d, h, d2, h2
  <2>2. AskRows(hour, d2, h2) /\ AskCounts(hour, ask, d2, h2)
    BY <1>1, <2>1, KeptInside
  <2> QED
    BY <2>2 DEF d2, h2
<1>8. LimitsKept'
  BY <1>1, <1>2, <1>6, <1>7, SameChargesCount DEF LimitsKept
<1>9. CallsSpaced'
  BY <1>2, SameChargesSpaced DEF DecideInv
<1> QED
  BY <1>5, <1>8, <1>9 DEF DecideInv

---------------------------------------------------------------------------
LEMMA DecideStarts == DecideInit => DecideInv
<1> SUFFICES ASSUME DecideInit PROVE DecideInv
  OBVIOUS
<1>1. Nothing \in AskRecords(0) /\ Nothing.phase = "to come"
  BY DecideAssumption DEF Nothing, AskRecords, AskPhases
<1>2. /\ hour = 0 /\ spend = [day |-> 0, neurons |-> 0]
      /\ decided = Never /\ hostAsks = [h \in PaneHosts |-> {}]
      /\ ask = [a \in Asks |-> Nothing]
      /\ storedLimits = Serialised(decided, hostAsks, spend)
  BY DEF DecideInit
<1>3. AskTypes
  <2>1. ask \in [Asks -> AskRecords(hour)]
    BY <1>1, <1>2
  <2> QED
    BY <1>2, <2>1, DecideAssumption DEF AskTypes, Spends
<1>4. \A a \in Asks : ~Charged(a) /\ ask[a].phase \notin {"asking", "answered", "lost"}
  BY <1>1, <1>2 DEF Charged
<1>5. Cardinality({}) = 0
  BY FS_EmptySet
<1>6. AskRows(hour, decided, hostAsks) /\ AskCounts(hour, ask, decided, hostAsks)
  BY <1>2, <1>4, <1>5, DecideAssumption DEF AskRows, AskCounts, Never
<1>7. /\ storedLimits.decided = decided /\ storedLimits.hostAsks = hostAsks
      /\ storedLimits.spend \in Spends
  BY <1>2, <1>3 DEF Serialised, Never, AskTypes
<1>8. CallsSpaced
  <2>1. {a \in Asks : Charged(a)} = {}
    BY <1>4
  <2>2. \A h \in PaneHosts : \A t \in 0..MaxHours :
           {a \in {b \in Asks : Charged(b)} :
               PaneHost[ask[a].pane] = h /\ t <= ask[a].at /\ ask[a].at < t + HostWindow} = {}
    BY <2>1
  <2>3. 0 <= HostEach
    BY DecideAssumption
  <2> QED
    BY <1>5, <2>1, <2>2, <2>3 DEF CallsSpaced
<1> QED
  BY <1>3, <1>6, <1>7, <1>8 DEF DecideInv, LimitsKept

LEMMA DecideStep == DecideInv /\ [DecideNext]_decideVars => DecideInv'
<1> SUFFICES ASSUME DecideInv, [DecideNext]_decideVars PROVE DecideInv'
  OBVIOUS
<1>1. /\ hour \in Nat /\ ask \in [Asks -> AskRecords(hour)] /\ spend \in Spends
  BY DecideAssumption DEF DecideInv, AskTypes
<1>2. ASSUME NEW a \in Asks, NEW p \in Panes, Arrives(a, p) PROVE DecideInv'
  <2> DEFINE to == IF Blocked(p) THEN "refused" ELSE "limiting"
             s == [ask[a] EXCEPT !.pane = p, !.phase = to]
  <2>1. ask[a] \in AskRecords(hour) /\ ask[a].phase = "to come" /\ to \in AskPhases
        /\ to \notin {"asking", "answered", "lost"}
    BY <1>1, <1>2 DEF Arrives, AskPhases
  <2>2. ask' = [ask EXCEPT ![a].pane = p, ![a].phase = to]
    BY <1>2 DEF Arrives
  <2> HIDE DEF to
  <2>3. ask' = [ask EXCEPT ![a] = s]
    BY <1>1, <2>2
  <2>4. s \in AskRecords(hour) /\ s.phase = to
    BY <2>1 DEF AskRecords
  <2>5. SameCharge(ask[a], s)
    BY <2>1, <2>4 DEF SameCharge
  <2> HIDE DEF s
  <2> QED
    BY <1>1, <1>2, <2>3, <2>4, <2>5, UnchargedKeeps DEF Arrives
<1>3. ASSUME NEW a \in Asks, RateLimited(a) \/ TooLate(a) PROVE DecideInv'
  <2> DEFINE s == [ask[a] EXCEPT !.phase = "refused"]
  <2>1. ask[a] \in AskRecords(hour) /\ ask[a].phase = "limiting" /\ ask' = [ask EXCEPT ![a] = s]
    BY <1>1, <1>3 DEF RateLimited, TooLate
  <2>2. s \in AskRecords(hour) /\ SameCharge(ask[a], s)
    BY <2>1 DEF AskRecords, AskPhases, SameCharge
  <2> HIDE DEF s
  <2> QED
    BY <1>1, <1>3, <2>1, <2>2, UnchargedKeeps DEF RateLimited, TooLate
<1>4. ASSUME NEW a \in Asks, ModelFails(a) PROVE DecideInv'
  <2> DEFINE s == [ask[a] EXCEPT !.phase = "lost"]
  <2>1. ask[a] \in AskRecords(hour) /\ ask[a].phase = "asking" /\ ask' = [ask EXCEPT ![a] = s]
    BY <1>1, <1>4 DEF ModelFails
  <2>2. s \in AskRecords(hour) /\ SameCharge(ask[a], s)
    BY <2>1 DEF AskRecords, AskPhases, SameCharge
  <2> HIDE DEF s
  <2> QED
    BY <1>1, <1>4, <2>1, <2>2, UnchargedKeeps DEF ModelFails
<1>5. ASSUME NEW a \in Asks, NEW c \in Costs, ModelAnswers(a, c) PROVE DecideInv'
  <2> DEFINE s == [ask[a] EXCEPT !.phase = "answered", !.cost = c]
  <2>1. ask[a] \in AskRecords(hour) /\ ask[a].phase = "asking"
        /\ ask' = [ask EXCEPT ![a].phase = "answered", ![a].cost = c]
    BY <1>1, <1>5 DEF ModelAnswers
  <2>2. ask' = [ask EXCEPT ![a] = s]
    BY <1>1, <2>1
  <2>3. s \in AskRecords(hour) /\ SameCharge(ask[a], s)
    BY <2>1 DEF AskRecords, AskPhases, SameCharge
  <2>4. spend' \in Spends
    <3>1. SpentToday \in Nat /\ Today \in Nat /\ c \in Nat /\ Estimate \in Nat
      BY <1>1, DaysAreCounted, DecideAssumption DEF Spends, SpentToday, Today
    <3>2. (IF SpentToday + c > Estimate THEN SpentToday + c - Estimate ELSE 0) \in Nat
      BY <3>1
    <3> QED
      BY <1>5, <3>1, <3>2 DEF ModelAnswers, Reconciled, Spends
  <2> HIDE DEF s
  <2> QED
    BY <1>1, <1>5, <2>2, <2>3, <2>4, UnchargedKeeps DEF ModelAnswers
<1>6. CASE UNCHANGED decideVars
  BY <1>6 DEF decideVars, DecideInv, AskTypes, LimitsKept, CallsSpaced, Charged
<1> QED
  BY <1>2, <1>3, <1>4, <1>5, <1>6, ChargeKeeps, HourKeeps, RebuiltKeeps DEF DecideNext

LEMMA DecideInvHolds == DecideSpec => []DecideInv
  BY DecideStarts, DecideStep, PTL DEF DecideSpec

\* The limits' rows keep to their types and their bounds: one time for each
\* pane, and no more than HostEach asks for each host.
THEOREM DecideTypes == DecideSpec => []DecideTypeOK
<1>1. DecideInv => DecideTypeOK
  BY DEF DecideInv, AskTypes, LimitsKept, AskRows, AskRecords, AskPhases, Spends, DecideTypeOK
<1> QED
  BY <1>1, DecideInvHolds, PTL

\* Two calls about one session are a quiet time apart, and a host makes no
\* more than its share in any window, whatever frames wait for the rate limit
\* or the model together and however often the object is rebuilt.
THEOREM DecideCallsAreSpaced == DecideSpec => []CallsSpaced
  BY DecideInvHolds, PTL DEF DecideInv

---------------------------------------------------------------------------
(* The sign-in to Claude *)

WorkPhases == {"asking", "answered", "refused", "unheard", "sealing", "dropped", "good",
               "checking", "checked"}
Working == [phase : WorkPhases, check : BOOLEAN, read : Row, row : Row,
            at : 0..MaxTime, given : 0..MaxTokens]
Deposit == [of : SignIns, at : 0..MaxTime, accepted : BOOLEAN]

\* The types; the notes, which the rest does not depend on, have their own.
SignInTypes ==
    /\ row \in Row
    /\ told \in 0..MaxTime \cup {NothingTold}
    /\ callers \in [Callers -> {Free} \cup Working]
    /\ deposits \subseteq Deposit
    /\ takes \in [SignIns -> 0..MaxTokens]
    /\ ended \subseteq SignIns /\ lost \subseteq SignIns
    /\ tellings \in [SignIns -> 0..2]
    /\ clock \in 0..MaxTime /\ troubles \in 0..MaxTroubles

\* The person's lock: whoever is at work is alone.
Alone == \A c, o \in Callers : callers[c] # Free /\ callers[o] # Free => c = o

\* A row's refresh token is the one Anthropic takes, unless its successor was lost.
Current(r) == r.token = takes[r.of] \/ r.of \in lost

\* A request that may have been given a token it has yet to write back.
Holding(w) == w # Free /\ w.phase \in {"answered", "sealing"}

\* Sign-ins and their times: the row, whoever is at work and the deposits on
\* their way agree on when each was made.
SameSignIn(r, q) == r.of = q.of => r.at = q.at

\* The sign-in s is in no row and in nobody's hands, and has never been told of.
HasNone(s) ==
    /\ row.of # s /\ tellings[s] = 0
    /\ \A c \in Callers : callers[c] # Free => callers[c].row.of # s /\ callers[c].read.of # s

\* A deposit is made once, of a sign-in nobody holds yet or has renewed.
DepositsFresh ==
    /\ \A s \in SignIns : takes[s] = 0 => HasNone(s) /\ \A d \in deposits : d.of # s
    /\ \A d \in deposits :
          HasNone(d.of) /\ takes[d.of] = 1 /\ \A e \in deposits : e.of = d.of => e = d

\* What the row says: its token is Anthropic's unless somebody holds the next
\* one, and if its end was said, it was said last.
RowKept ==
    /\ row.token > 0
    /\ tellings[row.of] # 0 => told = row.at
    /\ (\A c \in Callers : Holding(callers[c]) => callers[c].row.of # row.of) => Current(row)

\* What a request at work knows.
WorkKept(w) ==
    /\ w.row.token > 0
    /\ w.phase \in {"checking", "checked"} => w.check
    /\ SameSignIn(w.row, row) /\ SameSignIn(w.read, row) /\ SameSignIn(w.read, w.row)
    /\ tellings[w.row.of] # 0 => told = w.row.at
    /\ w.check => tellings[w.read.of] = 0 /\ tellings[row.of] = 0 /\ tellings[w.row.of] = 0
    /\ w.phase \in {"asking", "answered", "sealing"} => w.row = row \/ w.row.of # row.of
    /\ w.phase = "asking" => Current(w.row)
    /\ w.phase \in {"answered", "sealing"} =>
          w.given > 0 /\ (w.given = takes[w.row.of] \/ w.row.of \in lost)

SignInInv ==
    /\ SignInTypes /\ Alone /\ DepositsFresh /\ RowKept /\ EndToldOnce
    /\ \A c \in Callers : callers[c] # Free => WorkKept(callers[c])

---------------------------------------------------------------------------
(* Lemmas about the requests at work *)

LEMMA WorkingFacts ==
    ASSUME NEW w \in Working
    PROVE  /\ w # Free /\ w.phase \in WorkPhases /\ w.check \in BOOLEAN
           /\ w.read \in Row /\ w.row \in Row /\ w.at \in 0..MaxTime /\ w.given \in 0..MaxTokens
           /\ w.row.of \in SignIns /\ w.row.at \in 0..MaxTime /\ w.row.token \in 0..MaxTokens
           /\ w.read.of \in SignIns /\ w.read.at \in 0..MaxTime
<1>1. /\ w.phase \in WorkPhases /\ w.check \in BOOLEAN
      /\ w.read \in Row /\ w.row \in Row /\ w.at \in 0..MaxTime /\ w.given \in 0..MaxTokens
  BY DEF Working
<1>2. w # Free
  BY <1>1 DEF Free, WorkPhases
<1> QED
  BY <1>1, <1>2 DEF Row

LEMMA PhaseFacts ==
    ASSUME NEW w \in Working, NEW p \in WorkPhases
    PROVE  /\ [w EXCEPT !.phase = p] \in Working
           /\ [w EXCEPT !.phase = p].phase = p
           /\ [w EXCEPT !.phase = p].check = w.check
           /\ [w EXCEPT !.phase = p].read = w.read
           /\ [w EXCEPT !.phase = p].row = w.row
           /\ [w EXCEPT !.phase = p].given = w.given
  BY DEF Working

LEMMA BusyFacts ==
    ASSUME SignInTypes, NEW c \in Callers, callers[c] # Free
    PROVE  callers[c] \in Working
  BY DEF SignInTypes

\* Whoever has the lock, or is about to take it, is the only one.
LEMMA OthersAreFree ==
    ASSUME SignInInv, NEW c \in Callers, callers[c] # Free \/ LockedFor(c)
    PROVE  \A o \in Callers : o # c => callers[o] = Free
  BY DEF SignInInv, Alone, LockedFor

LEMMA DoingIsBusy ==
    ASSUME NEW c \in Callers, NEW p \in WorkPhases, Doing(c, p)
    PROVE  callers[c] # Free
  BY DEF Doing, Free, WorkPhases

\* A request moves on to another phase and keeps what it has in hand.
LEMMA MovesFacts ==
    ASSUME SignInTypes, NEW c \in Callers, callers[c] # Free, NEW p \in WorkPhases,
           Moves(c, p)
    PROVE  /\ callers' \in [Callers -> {Free} \cup Working]
           /\ \A o \in Callers : o # c => callers'[o] = callers[o]
           /\ callers'[c] \in Working /\ callers'[c].phase = p
           /\ callers'[c].check = callers[c].check /\ callers'[c].read = callers[c].read
           /\ callers'[c].row = callers[c].row /\ callers'[c].given = callers[c].given
<1>1. callers[c] \in Working /\ callers \in [Callers -> {Free} \cup Working]
  BY BusyFacts DEF SignInTypes
<1>2. callers' = [callers EXCEPT ![c] = [callers[c] EXCEPT !.phase = p]]
  BY <1>1 DEF Moves
<1> DEFINE w == [callers[c] EXCEPT !.phase = p]
<1>4. /\ w \in Working /\ w.phase = p /\ w.check = callers[c].check
      /\ w.read = callers[c].read /\ w.row = callers[c].row /\ w.given = callers[c].given
  BY <1>1, PhaseFacts
<1> HIDE DEF w
<1>5. callers' = [callers EXCEPT ![c] = w]
  BY <1>2 DEF w
<1> QED
  BY <1>1, <1>4, <1>5

\* A request begins, at a read of the row.
LEMMA RenewingFacts ==
    ASSUME SignInTypes, NEW b \in BOOLEAN, NEW q \in Row
    PROVE  /\ Renewing(b, q) \in Working /\ Renewing(b, q).phase = "asking"
           /\ Renewing(b, q).check = b /\ Renewing(b, q).read = q
           /\ Renewing(b, q).row = row
<1>1. row \in Row /\ clock \in 0..MaxTime /\ 0 \in 0..MaxTokens /\ "asking" \in WorkPhases
  BY SignInAssumption DEF SignInTypes, WorkPhases
<1> QED
  BY <1>1 DEF Renewing, Working

\* The sign-ins in the row and in somebody's hands.
Held == {row.of} \cup UNION {{callers[c].row.of, callers[c].read.of} :
                                c \in {o \in Callers : callers[o] # Free}}

\* No step brings back a sign-in nobody holds: a deposit does, and only its own.
LEMMA HasNoneStays ==
    ASSUME row'.of \in Held,
           \A c \in Callers : callers'[c] # Free =>
               callers'[c].row.of \in Held /\ callers'[c].read.of \in Held,
           \A s \in SignIns : tellings'[s] # 0 => tellings[s] # 0 \/ s \in Held,
           NEW s \in SignIns, HasNone(s)
    PROVE  HasNone(s)'
<1>1. s \notin Held
  BY DEF HasNone, Held
<1> QED
  BY <1>1 DEF HasNone

\* The step of one request while all others are free.
LEMMA TurnKeeps ==
    ASSUME SignInInv, SignInTypes', NEW c \in Callers,
           \A o \in Callers : o # c => callers[o] = Free /\ callers'[o] = Free,
           UNCHANGED deposits,
           \A s \in SignIns : takes'[s] = takes[s] \/ (s \in Held /\ takes'[s] # 0),
           row'.of \in Held,
           callers'[c] # Free => callers'[c].row.of \in Held /\ callers'[c].read.of \in Held,
           \A s \in SignIns : tellings'[s] # 0 => tellings[s] # 0 \/ s \in Held,
           EndToldOnce', RowKept', callers'[c] # Free => WorkKept(callers[c])'
    PROVE  SignInInv'
<1>1. \A s \in SignIns : HasNone(s) => HasNone(s)'
  BY HasNoneStays
<1>2. DepositsFresh'
  <2>1. \A d \in deposits : d.of \in SignIns
    BY DEF SignInInv, SignInTypes, Deposit
  <2>2. \A s \in SignIns : HasNone(s) => takes'[s] = takes[s]
    BY DEF HasNone, Held
  <2>3. DepositsFresh
    BY DEF SignInInv
  <2> QED
    BY <1>1, <2>1, <2>2, <2>3 DEF DepositsFresh
<1>3. Alone'
  BY DEF Alone
<1> QED
  BY <1>2, <1>3 DEF SignInInv

LEMMA HeldFacts ==
    /\ row.of \in Held
    /\ \A c \in Callers : callers[c] # Free =>
          callers[c].row.of \in Held /\ callers[c].read.of \in Held
  BY DEF Held

---------------------------------------------------------------------------
(* One lemma per step of a request *)

\* A request that takes the lock reads a row nobody else is renewing.
LEMMA AsksFreshKeeps ==
    ASSUME SignInInv, NEW c \in Callers, AsksFresh(c)
    PROVE  SignInInv'
<1> DEFINE w == Renewing(FALSE, row)
<1>1. /\ SignInTypes /\ RowKept /\ EndToldOnce /\ row \in Row /\ row.of \in SignIns
      /\ \A o \in Callers : callers[o] = Free
  BY DEF SignInInv, SignInTypes, Row, AsksFresh, LockedFor
<1>2. w \in Working /\ w.phase = "asking" /\ ~w.check /\ w.read = row /\ w.row = row
  BY <1>1, RenewingFacts
<1>3. UNCHANGED <<row, told, deposits, takes, ended, lost, tellings, clock, troubles>>
      /\ callers' = [callers EXCEPT ![c] = w]
  BY DEF AsksFresh
<1> HIDE DEF w
<1>4. callers'[c] = w /\ \A o \in Callers : o # c => callers'[o] = callers[o]
  BY <1>1, <1>3 DEF SignInTypes
<1>5. SignInTypes'
  BY <1>1, <1>2, <1>3 DEF SignInTypes
<1>6. Current(row)
  BY <1>1 DEF RowKept, Holding
<1>7. RowKept' /\ EndToldOnce'
  BY <1>1, <1>3, <1>6 DEF RowKept, EndToldOnce, Current
<1>8. WorkKept(callers[c])'
  BY <1>1, <1>2, <1>3, <1>4, <1>6 DEF WorkKept, RowKept, SameSignIn, Current
<1> QED
  BY <1>1, <1>2, <1>3, <1>4, <1>5, <1>7, <1>8, HeldFacts, TurnKeeps

\* A check begins when nothing has been said of the sign-in in the row.
LEMMA ChecksKeeps ==
    ASSUME SignInInv, NEW c \in Callers, Checks(c)
    PROVE  SignInInv'
<1> DEFINE p == IF RefusedLast(row.at) THEN "checked" ELSE "checking"
           w == [Renewing(TRUE, row) EXCEPT !.phase = p]
<1>1. /\ SignInTypes /\ RowKept /\ EndToldOnce /\ row \in Row /\ row.of \in SignIns
      /\ \A o \in Callers : callers[o] = Free
  BY DEF SignInInv, SignInTypes, Row, Checks, LockedFor
<1>2. w \in Working /\ w.phase \in {"checked", "checking"} /\ w.check /\ w.read = row /\ w.row = row
  <2>1. /\ Renewing(TRUE, row) \in Working /\ Renewing(TRUE, row).check
        /\ Renewing(TRUE, row).read = row /\ Renewing(TRUE, row).row = row
    BY <1>1, RenewingFacts
  <2>2. p \in {"checked", "checking"} /\ p \in WorkPhases
    BY DEF WorkPhases
  <2> DEFINE r == Renewing(TRUE, row)
  <2> HIDE DEF p, r
  <2>3. LET v == [r EXCEPT !.phase = p] IN
        v \in Working /\ v.phase = p /\ v.check = r.check /\ v.read = r.read /\ v.row = r.row
    BY <2>1, <2>2, PhaseFacts DEF r
  <2> QED
    BY <2>1, <2>2, <2>3 DEF r
<1>3. /\ UNCHANGED <<row, told, deposits, takes, ended, lost, tellings, clock, troubles>>
      /\ callers' = [callers EXCEPT ![c] = w]
      /\ tellings[row.of] = 0
  BY <1>1 DEF Checks, RowKept
<1> HIDE DEF w
<1>4. callers'[c] = w /\ \A o \in Callers : o # c => callers'[o] = callers[o]
  BY <1>1, <1>3 DEF SignInTypes
<1>5. SignInTypes'
  BY <1>1, <1>2, <1>3 DEF SignInTypes
<1>6. Current(row)
  BY <1>1 DEF RowKept, Holding
<1>7. RowKept' /\ EndToldOnce'
  BY <1>1, <1>3, <1>6 DEF RowKept, EndToldOnce, Current
<1>8. WorkKept(callers[c])'
  BY <1>1, <1>2, <1>3, <1>4, <1>6 DEF WorkKept, RowKept, SameSignIn, Current
<1> QED
  BY <1>1, <1>2, <1>3, <1>4, <1>5, <1>7, <1>8, HeldFacts, TurnKeeps

\* A check renews what the row holds by now, which may be a newer sign-in's:
\* one nobody has been told of either.
LEMMA CheckRenewsKeeps ==
    ASSUME SignInInv, NEW c \in Callers, CheckRenews(c)
    PROVE  SignInInv'
<1> DEFINE w == Renewing(TRUE, callers[c].read)
<1>1. /\ SignInTypes /\ RowKept /\ EndToldOnce /\ row \in Row /\ row.of \in SignIns
      /\ callers[c] # Free /\ callers[c].phase = "checking" /\ callers[c] \in Working
      /\ WorkKept(callers[c])
      /\ \A o \in Callers : o # c => callers[o] = Free
  <2>1. callers[c] # Free
    BY DoingIsBusy DEF CheckRenews, WorkPhases
  <2> QED
    BY <2>1, BusyFacts, OthersAreFree DEF SignInInv, SignInTypes, Row, CheckRenews, Doing
<1>2. /\ w \in Working /\ w.phase = "asking" /\ w.check
      /\ w.read = callers[c].read /\ w.row = row
  BY <1>1, WorkingFacts, RenewingFacts
<1>3. UNCHANGED <<row, told, deposits, takes, ended, lost, tellings, clock, troubles>>
      /\ callers' = [callers EXCEPT ![c] = w]
  BY DEF CheckRenews
<1> HIDE DEF w
<1>4. callers'[c] = w /\ \A o \in Callers : o # c => callers'[o] = callers[o]
  BY <1>1, <1>3 DEF SignInTypes
<1>5. SignInTypes'
  BY <1>1, <1>2, <1>3 DEF SignInTypes
<1>6. Current(row)
  BY <1>1 DEF RowKept, Holding
<1>7. RowKept' /\ EndToldOnce'
  BY <1>1, <1>3, <1>6 DEF RowKept, EndToldOnce, Current
<1>8. WorkKept(callers[c])'
  BY <1>1, <1>2, <1>3, <1>4, <1>6 DEF WorkKept, RowKept, SameSignIn, Current
<1> QED
  BY <1>1, <1>2, <1>3, <1>4, <1>5, <1>7, <1>8, HeldFacts, TurnKeeps

\* What a request at work starts a step from.
LEMMA AtWork ==
    ASSUME SignInInv, NEW c \in Callers, NEW p \in WorkPhases, Doing(c, p)
    PROVE  /\ SignInTypes /\ RowKept /\ EndToldOnce /\ row \in Row /\ row.of \in SignIns
           /\ callers[c] # Free /\ callers[c].phase = p /\ callers[c] \in Working
           /\ callers[c].row.of \in SignIns /\ callers[c].read.of \in SignIns
           /\ callers[c].row.token \in 0..MaxTokens /\ callers[c].given \in 0..MaxTokens
           /\ callers[c].row.at \in 0..MaxTime
           /\ WorkKept(callers[c])
           /\ \A o \in Callers : o # c => callers[o] = Free
           /\ callers \in [Callers -> {Free} \cup Working]
<1>1. callers[c] # Free
  BY DoingIsBusy
<1>2. callers[c] \in Working
  BY <1>1, BusyFacts DEF SignInInv
<1> QED
  BY <1>1, <1>2, WorkingFacts, OthersAreFree DEF SignInInv, SignInTypes, Row, Doing

\* Anthropic takes the token: what it takes next is in this request's hands.
LEMMA AnsweredKeeps ==
    ASSUME SignInInv, NEW c \in Callers, Answered(c)
    PROVE  SignInInv'
<1> DEFINE s == callers[c].row.of
<1>1. Doing(c, "asking") /\ "asking" \in WorkPhases /\ "answered" \in WorkPhases
  BY DEF Answered, WorkPhases
<1>2. /\ SignInTypes /\ RowKept /\ EndToldOnce /\ row \in Row /\ row.of \in SignIns
      /\ callers[c] # Free /\ callers[c].phase = "asking" /\ callers[c] \in Working
      /\ s \in SignIns /\ callers[c].row.token \in 0..MaxTokens
      /\ WorkKept(callers[c])
      /\ \A o \in Callers : o # c => callers[o] = Free
      /\ callers \in [Callers -> {Free} \cup Working]
  BY <1>1, AtWork
<1>3. PICK new \in {callers[c].row.token, callers[c].row.token + 1} :
         /\ new <= MaxTokens
         /\ takes' = [takes EXCEPT ![s] = new]
         /\ callers' = [callers EXCEPT ![c].phase = "answered", ![c].given = new]
  BY DEF Answered
<1>4. UNCHANGED <<row, notes, told, deposits, ended, lost, tellings, clock, troubles>>
      /\ callers[c].row.token = takes[s]
  BY DEF Answered
<1>5. callers[c].row.token > 0 /\ new \in 0..MaxTokens /\ new > 0
  BY <1>2, <1>3, SignInAssumption DEF WorkKept
<1> DEFINE w == [callers[c] EXCEPT !.phase = "answered", !.given = new]
<1>6. callers' = [callers EXCEPT ![c] = w]
  BY <1>2, <1>3
<1>7. /\ w \in Working /\ w.phase = "answered" /\ w.check = callers[c].check
      /\ w.read = callers[c].read /\ w.row = callers[c].row /\ w.given = new
  <2> DEFINE r == callers[c]
  <2>1. r \in Working /\ "answered" \in WorkPhases /\ new \in 0..MaxTokens
    BY <1>1, <1>2, <1>5
  <2> HIDE DEF r
  <2>2. LET v == [r EXCEPT !.phase = "answered", !.given = new] IN
        /\ v \in Working /\ v.phase = "answered" /\ v.check = r.check
        /\ v.read = r.read /\ v.row = r.row /\ v.given = new
    BY <2>1 DEF Working
  <2> QED
    BY <2>2 DEF r
<1> HIDE DEF w
<1>8. /\ callers'[c] = w /\ \A o \in Callers : o # c => callers'[o] = Free
      /\ callers' \in [Callers -> {Free} \cup Working]
  BY <1>2, <1>6, <1>7
<1>9. /\ takes' \in [SignIns -> 0..MaxTokens] /\ takes'[s] = new
      /\ \A r \in SignIns : r # s => takes'[r] = takes[r]
  BY <1>2, <1>3, <1>5 DEF SignInTypes
<1>10. SignInTypes'
  BY <1>2, <1>4, <1>8, <1>9 DEF SignInTypes
<1>11. w # Free
  BY <1>7, WorkingFacts
<1>12. RowKept'
  <2>1. Current(row)
    BY <1>2 DEF RowKept, Holding
  <2>2. row.of # s => Current(row)'
    BY <1>2, <1>4, <1>9, <2>1 DEF Current
  <2>3. row.of = s => \E o \in Callers : Holding(callers[o])' /\ callers'[o].row.of = row.of
    BY <1>7, <1>8, <1>11 DEF Holding
  <2> QED
    BY <1>2, <1>4, <2>2, <2>3 DEF RowKept
<1>13. WorkKept(callers[c])'
  BY <1>2, <1>4, <1>5, <1>7, <1>8, <1>9 DEF WorkKept, SameSignIn, Current
<1>14. EndToldOnce'
  BY <1>2, <1>4 DEF EndToldOnce
<1> QED
  BY <1>2, <1>4, <1>5, <1>7, <1>8, <1>9, <1>10, <1>12, <1>13, <1>14, HeldFacts, TurnKeeps

\* A request that goes on with nothing new in hand: refused, or its answer is
\* taken, and the row read again.
LEMMA GoesOnKeeps ==
    ASSUME SignInInv, NEW c \in Callers, NEW p \in WorkPhases, NEW q \in WorkPhases,
           Doing(c, p), Moves(c, q),
           UNCHANGED <<row, told, deposits, takes, ended, lost, tellings, clock, troubles>>,
           q \notin {"asking", "answered", "checking"},
           q = "checked" => callers[c].check,
           q = "sealing" => p = "answered" /\ row = callers[c].row,
           q # "sealing" =>
               p \notin {"answered", "sealing"} \/ callers[c].row.of # row.of
    PROVE  SignInInv'
<1>1. /\ SignInTypes /\ RowKept /\ EndToldOnce /\ row \in Row /\ row.of \in SignIns
      /\ callers[c] # Free /\ callers[c].phase = p /\ callers[c] \in Working
      /\ WorkKept(callers[c])
      /\ \A o \in Callers : o # c => callers[o] = Free
      /\ callers \in [Callers -> {Free} \cup Working]
  BY AtWork
<1>2. /\ callers' \in [Callers -> {Free} \cup Working]
      /\ \A o \in Callers : o # c => callers'[o] = callers[o]
      /\ callers'[c] \in Working /\ callers'[c].phase = q
      /\ callers'[c].check = callers[c].check /\ callers'[c].read = callers[c].read
      /\ callers'[c].row = callers[c].row /\ callers'[c].given = callers[c].given
  BY <1>1, MovesFacts
<1>3. callers'[c] # Free
  BY <1>2, WorkingFacts
<1>4. SignInTypes'
  BY <1>1, <1>2 DEF SignInTypes
<1>5. RowKept'
  <2>1. CASE q = "sealing"
    <3>1. Holding(callers[c])' /\ callers'[c].row.of = row.of
      BY <1>2, <1>3, <2>1 DEF Holding
    <3> QED
      BY <1>1, <3>1 DEF RowKept
  <2>2. CASE q # "sealing"
    <3>1. Current(row)
      BY <1>1, <2>2 DEF RowKept, Holding
    <3> QED
      BY <1>1, <3>1 DEF RowKept, Current
  <2> QED
    BY <2>1, <2>2
<1>6. WorkKept(callers[c])'
  BY <1>1, <1>2 DEF WorkKept, SameSignIn, Current
<1>7. EndToldOnce'
  BY <1>1 DEF EndToldOnce
<1> QED
  BY <1>1, <1>2, <1>3, <1>4, <1>5, <1>6, <1>7, HeldFacts, TurnKeeps

LEMMA RefusedKeeps ==
    ASSUME SignInInv, NEW c \in Callers, RefusedByAnthropic(c)
    PROVE  SignInInv'
<1>1. "asking" \in WorkPhases /\ "refused" \in WorkPhases
  BY DEF WorkPhases
<1> QED
  BY <1>1, GoesOnKeeps DEF RefusedByAnthropic

\* An answer on its way: lost, and with it perhaps the next token, which is
\* then said to be lost.
LEMMA UnheardKeeps ==
    ASSUME SignInInv, NEW c \in Callers, Unheard(c)
    PROVE  SignInInv'
<1> DEFINE s == callers[c].row.of
<1>1. Doing(c, "asking") /\ "asking" \in WorkPhases /\ "unheard" \in WorkPhases
      /\ Moves(c, "unheard")
  BY DEF Unheard, WorkPhases
<1>2. /\ SignInTypes /\ RowKept /\ EndToldOnce /\ row \in Row /\ row.of \in SignIns
      /\ callers[c] # Free /\ callers[c].phase = "asking" /\ callers[c] \in Working
      /\ s \in SignIns /\ callers[c].row.token \in 0..MaxTokens
      /\ WorkKept(callers[c])
      /\ \A o \in Callers : o # c => callers[o] = Free
  BY <1>1, AtWork
<1>3. UNCHANGED <<row, notes, told, deposits, ended, tellings, clock>>
      /\ troubles < MaxTroubles /\ troubles' = troubles + 1
  BY DEF Unheard, Trouble
<1>4. /\ takes' \in [SignIns -> 0..MaxTokens] /\ lost \subseteq lost' /\ lost' \subseteq SignIns
      /\ \A r \in SignIns : takes'[r] = takes[r] \/ (r = s /\ s \in lost' /\ takes'[r] # 0)
  <2>1. CASE UNCHANGED <<takes, lost>>
    BY <1>2, <2>1 DEF SignInTypes
  <2>2. CASE /\ callers[c].row.token = takes[s] /\ callers[c].row.token < MaxTokens
             /\ takes' = [takes EXCEPT ![s] = @ + 1] /\ lost' = lost \cup {s}
    <3>1. takes[s] \in Nat /\ takes[s] + 1 \in 0..MaxTokens /\ takes[s] + 1 # 0
      BY <1>2, <2>2, SignInAssumption
    <3> QED
      BY <1>2, <2>2, <3>1 DEF SignInTypes
  <2> QED
    BY <2>1, <2>2 DEF Unheard
<1>5. /\ callers' \in [Callers -> {Free} \cup Working]
      /\ \A o \in Callers : o # c => callers'[o] = callers[o]
      /\ callers'[c] \in Working /\ callers'[c].phase = "unheard"
      /\ callers'[c].check = callers[c].check /\ callers'[c].read = callers[c].read
      /\ callers'[c].row = callers[c].row
  BY <1>1, <1>2, MovesFacts
<1>6. SignInTypes'
  <2>1. troubles' \in 0..MaxTroubles
    BY <1>2, <1>3, SignInAssumption DEF SignInTypes
  <2> QED
    BY <1>2, <1>3, <1>4, <1>5, <2>1 DEF SignInTypes
<1>7. RowKept'
  <2>1. Current(row)
    BY <1>2 DEF RowKept, Holding
  <2> QED
    BY <1>2, <1>3, <1>4, <2>1 DEF RowKept, Current
<1>8. WorkKept(callers[c])'
  BY <1>2, <1>3, <1>5 DEF WorkKept, SameSignIn
<1>9. EndToldOnce'
  BY <1>2, <1>3 DEF EndToldOnce
<1> QED
  BY <1>2, <1>3, <1>4, <1>5, <1>6, <1>7, <1>8, <1>9, HeldFacts, TurnKeeps

LEMMA RereadsKeeps ==
    ASSUME SignInInv, NEW c \in Callers, Rereads(c)
    PROVE  SignInInv'
<1>1. /\ Doing(c, "answered") /\ {"answered", "sealing", "dropped"} \subseteq WorkPhases
      /\ UNCHANGED <<row, told, deposits, takes, ended, lost, tellings, clock, troubles>>
  BY DEF Rereads, WorkPhases
<1>2. callers[c].phase = "answered" /\ WorkKept(callers[c])
  BY <1>1, AtWork
<1>3. CASE row = callers[c].row
  <2>1. Moves(c, "sealing")
    BY <1>3 DEF Rereads
  <2> QED
    BY <1>1, <1>3, <2>1, GoesOnKeeps
<1>4. CASE row # callers[c].row
  <2>1. Moves(c, "dropped") /\ callers[c].row.of # row.of
    BY <1>2, <1>4 DEF Rereads, WorkKept
  <2> QED
    BY <1>1, <1>4, <2>1, GoesOnKeeps
<1> QED
  BY <1>3, <1>4

\* The token written back is the one Anthropic takes.
LEMMA WritesBackKeeps ==
    ASSUME SignInInv, NEW c \in Callers, WritesBack(c)
    PROVE  SignInInv'
<1> DEFINE r == callers[c].row
           g == callers[c].given
<1>1. Doing(c, "sealing") /\ "sealing" \in WorkPhases /\ "good" \in WorkPhases /\ Moves(c, "good")
  BY DEF WritesBack, WorkPhases
<1>2. /\ SignInTypes /\ RowKept /\ EndToldOnce /\ row \in Row /\ row.of \in SignIns
      /\ callers[c] # Free /\ callers[c].phase = "sealing" /\ callers[c] \in Working
      /\ WorkKept(callers[c]) /\ g \in 0..MaxTokens /\ r \in Row
      /\ \A o \in Callers : o # c => callers[o] = Free
  BY <1>1, AtWork, WorkingFacts
<1>3. UNCHANGED <<notes, told, deposits, takes, ended, lost, tellings, clock, troubles>>
      /\ row' = [r EXCEPT !.token = g]
  BY DEF WritesBack
<1>4. row' \in Row /\ row'.of = r.of /\ row'.at = r.at /\ row'.token = g
  BY <1>2, <1>3 DEF Row
<1>5. /\ callers' \in [Callers -> {Free} \cup Working]
      /\ \A o \in Callers : o # c => callers'[o] = callers[o]
      /\ callers'[c] \in Working /\ callers'[c].phase = "good"
      /\ callers'[c].check = callers[c].check /\ callers'[c].read = callers[c].read
      /\ callers'[c].row = r
  BY <1>1, <1>2, MovesFacts
<1> HIDE DEF r, g
<1>6. SignInTypes'
  BY <1>2, <1>3, <1>4, <1>5 DEF SignInTypes
<1>7. /\ g > 0 /\ r.token > 0
      /\ g = takes[r.of] \/ r.of \in lost
      /\ tellings[r.of] # 0 => told = r.at
      /\ SameSignIn(callers[c].read, r)
      /\ callers[c].check => tellings[callers[c].read.of] = 0 /\ tellings[r.of] = 0
  BY <1>2 DEF WorkKept, r, g
<1>8. RowKept' /\ EndToldOnce'
  BY <1>2, <1>3, <1>4, <1>7 DEF RowKept, Current, EndToldOnce
<1>9. WorkKept(callers[c])'
  BY <1>3, <1>4, <1>5, <1>7 DEF WorkKept, SameSignIn
<1>10. row'.of \in Held
  BY <1>2, <1>4, HeldFacts DEF r
<1> QED
  BY <1>2, <1>3, <1>5, <1>6, <1>8, <1>9, <1>10, HeldFacts, TurnKeeps DEF r

\* A request that lets the lock go, having said nothing.
LEMMA LetsGoKeeps ==
    ASSUME SignInInv, NEW c \in Callers, NEW p \in WorkPhases, Doing(c, p),
           p \notin {"answered", "sealing"}, callers' = [callers EXCEPT ![c] = Free],
           UNCHANGED <<row, told, deposits, takes, ended, lost, tellings, clock, troubles>>
    PROVE  SignInInv'
<1>1. /\ SignInTypes /\ RowKept /\ EndToldOnce /\ callers[c].phase = p
      /\ \A o \in Callers : o # c => callers[o] = Free
      /\ callers \in [Callers -> {Free} \cup Working]
  BY AtWork
<1>2. callers'[c] = Free /\ (\A o \in Callers : o # c => callers'[o] = Free)
      /\ callers' \in [Callers -> {Free} \cup Working]
  BY <1>1
<1>3. Current(row)
  BY <1>1 DEF RowKept, Holding
<1>4. RowKept' /\ EndToldOnce' /\ SignInTypes'
  BY <1>1, <1>2, <1>3 DEF RowKept, Current, EndToldOnce, SignInTypes
<1> QED
  BY <1>1, <1>2, <1>4, HeldFacts, TurnKeeps

LEMMA SettlesKeeps ==
    ASSUME SignInInv, NEW c \in Callers, Settles(c)
    PROVE  SignInInv'
<1>1. PICK is \in {"good", "dropped", "refused", "unheard"} : Doing(c, is)
  BY DEF Settles
<1>2. /\ is \in WorkPhases /\ "checked" \in WorkPhases
      /\ UNCHANGED <<row, told, deposits, takes, ended, lost, tellings, clock, troubles>>
      /\ callers \in [Callers -> {Free} \cup Working]
  BY DEF WorkPhases, Settles, SignInInv, SignInTypes
<1>3. CASE callers[c].check
  <2>1. Moves(c, "checked")
    BY <1>2, <1>3 DEF Settles, Moves
  <2> QED
    BY <1>1, <1>2, <1>3, <2>1, GoesOnKeeps
<1>4. CASE ~callers[c].check
  <2>1. callers' = [callers EXCEPT ![c] = Free]
    BY <1>2, <1>4 DEF Settles
  <2> QED
    BY <1>1, <1>2, <1>4, <2>1, LetsGoKeeps
<1> QED
  BY <1>3, <1>4

\* Told of once: nobody was told of the sign-in this check began with.
LEMMA TellsKeeps ==
    ASSUME SignInInv, NEW c \in Callers, Tells(c)
    PROVE  SignInInv'
<1> DEFINE q == callers[c].read
<1>1. Doing(c, "checked") /\ "checked" \in WorkPhases
      /\ UNCHANGED <<row, notes, deposits, takes, ended, lost, clock, troubles>>
      /\ callers' = [callers EXCEPT ![c] = Free]
  BY DEF Tells, WorkPhases
<1>2. CASE ~RefusedLast(q.at)
  BY <1>1, <1>2, LetsGoKeeps DEF Tells
<1>3. CASE RefusedLast(q.at)
  <2>1. /\ SignInTypes /\ RowKept /\ EndToldOnce /\ row \in Row /\ row.of \in SignIns
        /\ callers[c] # Free /\ callers[c].phase = "checked" /\ callers[c] \in Working
        /\ WorkKept(callers[c]) /\ q \in Row /\ q.of \in SignIns /\ q.at \in 0..MaxTime
        /\ \A o \in Callers : o # c => callers[o] = Free
        /\ callers \in [Callers -> {Free} \cup Working]
    BY <1>1, AtWork, WorkingFacts
  <2>2. /\ told' = q.at
        /\ tellings' = [tellings EXCEPT ![q.of] = IF @ < 2 THEN @ + 1 ELSE @]
    BY <1>3 DEF Tells
  <2>3. /\ callers[c].check /\ tellings[q.of] = 0 /\ tellings[row.of] = 0
        /\ SameSignIn(q, row)
    BY <2>1 DEF WorkKept
  <2>4. /\ tellings' \in [SignIns -> 0..2] /\ tellings'[q.of] = 1
        /\ \A s \in SignIns : s # q.of => tellings'[s] = tellings[s]
    BY <2>1, <2>2, <2>3 DEF SignInTypes
  <2>5. callers'[c] = Free /\ (\A o \in Callers : o # c => callers'[o] = Free)
        /\ callers' \in [Callers -> {Free} \cup Working]
    BY <1>1, <2>1
  <2>6. q.of \in Held
    BY <2>1, HeldFacts
  <2> HIDE DEF q
  <2>7. SignInTypes' /\ EndToldOnce'
    BY <1>1, <2>1, <2>2, <2>4, <2>5 DEF SignInTypes, EndToldOnce
  <2>8. RowKept'
    <3>1. Current(row)
      BY <2>1 DEF RowKept, Holding
    <3>2. tellings'[row.of] # 0 => told' = row.at
      BY <2>1, <2>2, <2>3, <2>4 DEF SameSignIn
    <3> QED
      BY <1>1, <2>1, <3>1, <3>2 DEF RowKept, Current
  <2> QED
    BY <1>1, <2>1, <2>4, <2>5, <2>6, <2>7, <2>8, HeldFacts, TurnKeeps
<1> QED
  BY <1>2, <1>3

---------------------------------------------------------------------------
(* Deposits, and what happens elsewhere *)

\* What a step that moves no request and no row has to leave as it is.
LEMMA ElsewhereKeeps ==
    ASSUME SignInInv, SignInTypes', DepositsFresh',
           UNCHANGED <<row, told, callers, tellings, lost>>,
           \A s \in SignIns : takes[s] # 0 => takes'[s] = takes[s]
    PROVE  SignInInv'
<1>1. /\ SignInTypes /\ RowKept /\ Alone /\ EndToldOnce /\ DepositsFresh
      /\ row.of \in SignIns /\ takes[row.of] # 0
  <2>1. SignInTypes /\ RowKept /\ Alone /\ EndToldOnce /\ DepositsFresh
    BY DEF SignInInv
  <2>2. row.of \in SignIns
    BY <2>1 DEF SignInTypes, Row
  <2> QED
    BY <2>1, <2>2 DEF DepositsFresh, HasNone
<1>2. RowKept' /\ Alone' /\ EndToldOnce'
  BY <1>1 DEF RowKept, Alone, EndToldOnce, Current
<1>3. ASSUME NEW c \in Callers, callers[c] # Free
      PROVE  WorkKept(callers[c])'
  <2>1. callers[c].row.of \in SignIns /\ takes[callers[c].row.of] # 0
    <3>1. callers[c].row.of \in SignIns
      BY <1>1, <1>3, BusyFacts, WorkingFacts
    <3> QED
      BY <1>1, <1>3, <3>1 DEF DepositsFresh, HasNone
  <2>2. WorkKept(callers[c])
    BY <1>3 DEF SignInInv
  <2> QED
    BY <2>1, <2>2 DEF WorkKept, SameSignIn, Current
<1> QED
  BY <1>1, <1>2, <1>3 DEF SignInInv

LEMMA SignsInKeeps ==
    ASSUME SignInInv, NEW s \in SignIns, SignsIn(s)
    PROVE  SignInInv'
<1> DEFINE e == [of |-> s, at |-> clock, accepted |-> FALSE]
<1>1. /\ SignInTypes /\ DepositsFresh /\ takes[s] = 0
      /\ takes' = [takes EXCEPT ![s] = 1] /\ deposits' = deposits \cup {e}
      /\ UNCHANGED <<row, notes, told, callers, ended, lost, tellings, clock, troubles>>
  BY DEF SignInInv, SignsIn
<1>2. e \in Deposit /\ e.of = s
  BY <1>1 DEF SignInTypes, Deposit
<1> HIDE DEF e
<1>3. /\ takes' \in [SignIns -> 0..MaxTokens] /\ takes'[s] = 1
      /\ \A r \in SignIns : r # s => takes'[r] = takes[r]
  BY <1>1, SignInAssumption DEF SignInTypes
<1>4. SignInTypes'
  BY <1>1, <1>2, <1>3 DEF SignInTypes
<1>5. \A r \in SignIns : HasNone(r)' <=> HasNone(r)
  BY <1>1 DEF HasNone
<1>6. DepositsFresh'
  <2>1. \A d \in deposits : d.of \in SignIns /\ d.of # s /\ HasNone(d.of)
    BY <1>1 DEF SignInTypes, Deposit, DepositsFresh
  <2>2. HasNone(s)
    BY <1>1 DEF DepositsFresh
  <2>3. \A r \in SignIns : takes'[r] = 0 => r # s /\ takes[r] = 0
    BY <1>3
  <2> QED
    BY <1>1, <1>2, <1>5, <2>1, <2>2, <2>3 DEF DepositsFresh
<1> QED
  BY <1>1, <1>3, <1>4, <1>6, ElsewhereKeeps

LEMMA DepositReadKeeps ==
    ASSUME SignInInv, NEW d \in deposits, DepositRead(d)
    PROVE  SignInInv'
<1> DEFINE e == [d EXCEPT !.accepted = TRUE]
<1>1. /\ SignInTypes /\ DepositsFresh /\ d \in Deposit
      /\ deposits' \subseteq (deposits \ {d}) \cup {e}
      /\ UNCHANGED <<row, notes, told, callers, takes, ended, lost, tellings, clock, troubles>>
  BY DEF SignInInv, SignInTypes, DepositRead
<1>2. e \in Deposit /\ e.of = d.of
  BY <1>1 DEF Deposit
<1> HIDE DEF e
<1>3. SignInTypes'
  BY <1>1, <1>2 DEF SignInTypes
<1>4. \A r \in SignIns : HasNone(r)' <=> HasNone(r)
  BY <1>1 DEF HasNone
<1>5. DepositsFresh'
  <2>1. \A x \in deposits' : x.of \in SignIns
    BY <1>3 DEF SignInTypes, Deposit
  <2>2. \A x \in deposits' : \E y \in deposits : x.of = y.of /\ (x = y \/ (y = d /\ x = e))
    BY <1>1, <1>2
  <2>3. d.of \in SignIns
    BY <1>1 DEF Deposit
  <2> QED
    BY <1>1, <1>2, <1>4, <2>1, <2>2, <2>3 DEF DepositsFresh
<1> QED
  BY <1>1, <1>3, <1>5, ElsewhereKeeps

\* The row is of a sign-in nobody at work has in hand, nor has been told of.
LEMMA DepositKeptKeeps ==
    ASSUME SignInInv, NEW d \in deposits, DepositKept(d)
    PROVE  SignInInv'
<1>1. /\ SignInTypes /\ DepositsFresh /\ RowKept /\ Alone /\ EndToldOnce
      /\ d \in Deposit /\ d.of \in SignIns /\ HasNone(d.of) /\ takes[d.of] = 1
      /\ deposits' = deposits \ {d}
      /\ row' = [of |-> d.of, at |-> d.at, token |-> 1]
      /\ UNCHANGED <<notes, told, callers, takes, ended, lost, tellings, clock, troubles>>
  <2>1. SignInTypes /\ DepositsFresh /\ RowKept /\ Alone /\ EndToldOnce /\ d \in Deposit
    BY DEF SignInInv, SignInTypes
  <2>2. d.of \in SignIns /\ HasNone(d.of) /\ takes[d.of] = 1
    BY <2>1 DEF Deposit, DepositsFresh
  <2> QED
    BY <2>1, <2>2 DEF DepositKept
<1>2. row' \in Row /\ row'.of = d.of /\ row'.token = 1
  BY <1>1, SignInAssumption DEF Row, Deposit
<1>3. SignInTypes' /\ Alone' /\ EndToldOnce'
  BY <1>1, <1>2 DEF SignInTypes, Alone, EndToldOnce
<1>4. \A s \in SignIns : s # d.of /\ HasNone(s) => HasNone(s)'
  BY <1>1, <1>2 DEF HasNone
<1>5. DepositsFresh'
  <2>1. \A e \in deposits' : e.of \in SignIns /\ e \in deposits /\ e.of # d.of
    BY <1>1 DEF SignInTypes, Deposit, DepositsFresh
  <2> QED
    BY <1>1, <1>4, <2>1 DEF DepositsFresh
<1>6. RowKept'
  BY <1>1, <1>2 DEF RowKept, Current, HasNone
<1>7. ASSUME NEW c \in Callers, callers[c] # Free
      PROVE  WorkKept(callers[c])'
  <2>1. WorkKept(callers[c]) /\ callers[c].row.of # d.of /\ callers[c].read.of # d.of
    BY <1>1, <1>7 DEF SignInInv, HasNone
  <2>2. tellings[d.of] = 0
    BY <1>1 DEF HasNone
  <2> QED
    BY <1>1, <1>2, <2>1, <2>2 DEF WorkKept, SameSignIn, Current
<1> QED
  BY <1>1, <1>3, <1>5, <1>6, <1>7 DEF SignInInv

\* The object is restarted: a next token somebody held is said to be lost.
LEMMA CutOffKeeps == ASSUME SignInInv, CutOff PROVE SignInInv'
<1>1. /\ SignInTypes /\ DepositsFresh /\ RowKept /\ EndToldOnce /\ row.of \in SignIns
      /\ callers' = [c \in Callers |-> Free]
      /\ UNCHANGED <<row, notes, told, deposits, takes, ended, tellings, clock>>
      /\ troubles < MaxTroubles /\ troubles' = troubles + 1
  BY DEF SignInInv, SignInTypes, CutOff, Trouble, Row
<1>2. /\ \A c \in Callers : /\ Holding(callers[c])
                             /\ callers[c].given # callers[c].row.token
                             => callers[c].row.of \in lost'
      /\ lost \subseteq lost' /\ lost' \subseteq SignIns
  <2>1. \A c \in Callers : callers[c] # Free => callers[c].row.of \in SignIns
    BY <1>1, BusyFacts, WorkingFacts
  <2> QED
    BY <1>1, <2>1 DEF CutOff, Holding, SignInTypes
<1>3. SignInTypes' /\ EndToldOnce'
  <2>1. troubles' \in 0..MaxTroubles
    BY <1>1, SignInAssumption DEF SignInTypes
  <2> QED
    BY <1>1, <1>2, <2>1 DEF SignInTypes, EndToldOnce
<1>4. \A s \in SignIns : HasNone(s) => HasNone(s)'
  BY <1>1 DEF HasNone
<1>5. DepositsFresh'
  <2>1. \A d \in deposits : d.of \in SignIns
    BY <1>1 DEF SignInTypes, Deposit
  <2> QED
    BY <1>1, <1>4, <2>1 DEF DepositsFresh
<1>6. RowKept'
  <2>1. CASE Current(row)
    BY <1>1, <1>2, <2>1 DEF RowKept, Current
  <2>2. CASE ~Current(row)
    <3>1. PICK c \in Callers : Holding(callers[c]) /\ callers[c].row.of = row.of
      BY <1>1, <2>2 DEF RowKept
    <3>2. WorkKept(callers[c]) /\ callers[c].phase \in {"answered", "sealing"}
      BY <3>1 DEF SignInInv, Holding
    <3>3. callers[c].row = row /\ (callers[c].given = takes[row.of] \/ row.of \in lost)
      BY <3>1, <3>2 DEF WorkKept
    <3>4. row.of \in lost'
      BY <1>2, <2>2, <3>1, <3>3 DEF Current
    <3> QED
      BY <1>1, <3>4 DEF RowKept, Current
  <2> QED
    BY <2>1, <2>2
<1> QED
  BY <1>1, <1>3, <1>5, <1>6 DEF SignInInv, Alone

LEMMA QuietKeeps ==
    ASSUME SignInInv,
           (\E s \in SignIns : EndedOutside(s)) \/ SignInTick \/ UNCHANGED signInVars
    PROVE  SignInInv'
<1>1. /\ SignInTypes /\ DepositsFresh
      /\ UNCHANGED <<row, told, callers, deposits, takes, tellings, lost>>
  BY DEF SignInInv, EndedOutside, SignInTick, signInVars
<1>2. SignInTypes'
  <2>1. /\ clock' \in 0..MaxTime /\ troubles' \in 0..MaxTroubles /\ ended' \subseteq SignIns
    BY <1>1, SignInAssumption DEF SignInTypes, EndedOutside, Trouble, SignInTick, signInVars
  <2> QED
    BY <1>1, <2>1 DEF SignInTypes
<1>3. DepositsFresh'
  BY <1>1 DEF DepositsFresh, HasNone
<1> QED
  BY <1>1, <1>2, <1>3, ElsewhereKeeps

---------------------------------------------------------------------------
LEMMA SignInStarts == SignInInit => SignInInv
<1> SUFFICES ASSUME SignInInit PROVE SignInInv
  OBVIOUS
<1>1. /\ row = [of |-> First, at |-> 0, token |-> 1]
      /\ told = NothingTold /\ deposits = {} /\ ended = {} /\ lost = {}
      /\ callers = [c \in Callers |-> Free]
      /\ takes = [s \in SignIns |-> IF s = First THEN 1 ELSE 0]
      /\ tellings = [s \in SignIns |-> 0] /\ clock = 0 /\ troubles = 0
  BY DEF SignInInit
<1>2. SignInTypes
  BY <1>1, SignInAssumption DEF SignInTypes, Row
<1>3. DepositsFresh /\ RowKept /\ EndToldOnce
  BY <1>1, SignInAssumption DEF DepositsFresh, HasNone, RowKept, Current, EndToldOnce
<1> QED
  BY <1>1, <1>2, <1>3 DEF SignInInv, Alone

LEMMA SignInStep == SignInInv /\ [SignInNext]_signInVars => SignInInv'
<1> SUFFICES ASSUME SignInInv, [SignInNext]_signInVars PROVE SignInInv'
  OBVIOUS
<1>1. ASSUME NEW c \in Callers,
             \/ AsksFresh(c) \/ Answered(c) \/ RefusedByAnthropic(c) \/ Unheard(c)
             \/ Rereads(c) \/ WritesBack(c) \/ Settles(c)
             \/ Checks(c) \/ CheckRenews(c) \/ Tells(c)
      PROVE  SignInInv'
  BY <1>1, AsksFreshKeeps, AnsweredKeeps, RefusedKeeps, UnheardKeeps, RereadsKeeps,
     WritesBackKeeps, SettlesKeeps, ChecksKeeps, CheckRenewsKeeps, TellsKeeps
<1>2. ASSUME NEW d \in deposits, DepositRead(d) \/ DepositKept(d) PROVE SignInInv'
  BY <1>2, DepositReadKeeps, DepositKeptKeeps
<1>3. ASSUME NEW s \in SignIns, SignsIn(s) PROVE SignInInv'
  BY <1>3, SignsInKeeps
<1> QED
  BY <1>1, <1>2, <1>3, CutOffKeeps, QuietKeeps DEF SignInNext

LEMMA SignInInvHolds == SignInSpec => []SignInInv
  BY SignInStarts, SignInStep, PTL DEF SignInSpec

\* The newest of a list are of what it lists, and no more than are kept.
LEMMA NewestAre ==
    ASSUME NEW S, NEW s \in Seq(S), NEW n \in Nat
    PROVE  Newest(s, n) \in Seq(S) /\ Len(Newest(s, n)) <= n
<1>1. PICK l \in Nat : l = Len(s)
  OBVIOUS
<1>2. PICK from \in 1..l + 1 : /\ from = (IF l > n THEN l - n + 1 ELSE 1)
                               /\ l - from + 1 <= n
  <2>1. CASE l > n
    <3>1. l - n + 1 \in 1..l + 1 /\ l - (l - n + 1) + 1 <= n
      BY <2>1
    <3> QED
      BY <2>1, <3>1
  <2>2. CASE ~(l > n)
    <3>1. 1 \in 1..l + 1 /\ l - 1 + 1 <= n
      BY <2>2
    <3> QED
      BY <2>2, <3>1
  <2> QED
    BY <2>1, <2>2
<1>3. Newest(s, n) = SubSeq(s, from, l)
  BY <1>1, <1>2 DEF Newest
<1>4. \A i \in from..l : s[i] \in S
  BY <1>1, <1>2
<1>5. /\ SubSeq(s, from, l) \in Seq(S)
      /\ Len(SubSeq(s, from, l)) = IF from <= l THEN l - from + 1 ELSE 0
  BY <1>2, <1>4, SubSeqProperties
<1> QED
  BY <1>2, <1>3, <1>5

\* The notes, which nothing above depends on, are typed beside the rest.
NotesTyped == notes \in Seq(Note) /\ Len(notes) <= NotesKept

LEMMA NotedIs ==
    ASSUME NotesTyped, NEW at \in 0..MaxTime,
           NEW is \in {"pending", "good", "dropped", "refused", "unheard"}
    PROVE  /\ Newest(Append(notes, [at |-> at, is |-> is]), NotesKept) \in Seq(Note)
           /\ Len(Newest(Append(notes, [at |-> at, is |-> is]), NotesKept)) <= NotesKept
<1>1. NotesKept \in Nat
  BY SignInAssumption
<1>2. [at |-> at, is |-> is] \in Note
  BY DEF Note
<1>3. Append(notes, [at |-> at, is |-> is]) \in Seq(Note)
  BY <1>2 DEF NotesTyped
<1> QED
  BY <1>1, <1>3, NewestAre

LEMMA SettledIs ==
    ASSUME NotesTyped, NEW at \in 0..MaxTime,
           NEW is \in {"good", "dropped", "refused", "unheard"}
    PROVE  SettledAs(at, is) \in Seq(Note) /\ Len(SettledAs(at, is)) <= NotesKept
<1> DEFINE open == {i \in DOMAIN notes : notes[i] = [at |-> at, is |-> "pending"]}
           first == CHOOSE i \in open : \A j \in open : i <= j
           settled == [notes EXCEPT ![first].is = is]
<1>1. CASE open = {}
  <2>1. SettledAs(at, is) = Newest(Append(notes, [at |-> at, is |-> is]), NotesKept)
    BY <1>1 DEF SettledAs
  <2> QED
    BY <2>1, NotedIs
<1>2. CASE open # {}
  <2>1. SettledAs(at, is) = settled
    BY <1>2 DEF SettledAs
  <2> HIDE DEF first
  <2>2. PICK l \in Nat : l = Len(notes) /\ DOMAIN notes = 1..l /\ l <= NotesKept
    BY DEF NotesTyped
  <2>3. \A i \in 1..l : notes[i] \in Note
    BY <2>2 DEF NotesTyped
  <2>4. DOMAIN settled = 1..l /\ \A i \in 1..l : settled[i] \in Note
    <3>1. ASSUME NEW i \in 1..l PROVE settled[i] \in Note
      <4>1. PICK x \in Note : x = notes[i]
        BY <2>3
      <4>2. settled[i] = x \/ settled[i] = [x EXCEPT !.is = is]
        BY <2>2, <4>1
      <4>3. [x EXCEPT !.is = is] \in Note
        BY DEF Note
      <4> QED
        BY <4>1, <4>2, <4>3
    <3> QED
      BY <2>2, <3>1
  <2>5. settled = [i \in 1..l |-> settled[i]]
    BY <2>2
  <2> HIDE DEF settled
  <2>6. settled \in [1..l -> Note]
    BY <2>4, <2>5
  <2>7. settled \in Seq(Note) /\ Len(settled) = l
    BY <2>4, <2>6, SeqDef
  <2> QED
    BY <2>1, <2>2, <2>7
<1> QED
  BY <1>1, <1>2

\* The notes are those of renewals, the newest of them.
LEMMA NotesStep == SignInInv /\ NotesTyped /\ [SignInNext]_signInVars => NotesTyped'
<1> SUFFICES ASSUME SignInInv, NotesTyped, [SignInNext]_signInVars PROVE NotesTyped'
  OBVIOUS
<1>1. clock \in 0..MaxTime /\ \A c \in Callers : callers[c] = Free \/ callers[c] \in Working
  BY DEF SignInInv, SignInTypes
<1>2. CASE UNCHANGED notes
  BY <1>2 DEF NotesTyped
<1>3. ASSUME notes' = Begun(clock) PROVE NotesTyped'
  BY <1>1, <1>3, NotedIs DEF Begun, NotesTyped
<1>4. ASSUME NEW c \in Callers, Settles(c) PROVE NotesTyped'
  <2>1. PICK is \in {"good", "dropped", "refused", "unheard"} :
           Doing(c, is) /\ notes' = SettledAs(callers[c].at, is)
    BY <1>4 DEF Settles
  <2>2. callers[c].at \in 0..MaxTime
    BY <1>1, <2>1 DEF Doing, Free, Working
  <2> QED
    BY <2>1, <2>2, SettledIs DEF NotesTyped
<1>5. ASSUME NEW c \in Callers, ~Settles(c),
             \/ AsksFresh(c) \/ Answered(c) \/ RefusedByAnthropic(c) \/ Unheard(c)
             \/ Rereads(c) \/ WritesBack(c) \/ Checks(c) \/ CheckRenews(c) \/ Tells(c)
      PROVE  UNCHANGED notes \/ notes' = Begun(clock)
  BY <1>5 DEF AsksFresh, Answered, RefusedByAnthropic, Unheard, Rereads, WritesBack, Checks,
              CheckRenews, Tells
<1>6. ASSUME \/ \E s \in SignIns : SignsIn(s) \/ EndedOutside(s)
             \/ \E d \in deposits : DepositRead(d) \/ DepositKept(d)
             \/ CutOff \/ SignInTick \/ UNCHANGED signInVars
      PROVE  UNCHANGED notes
  BY <1>6 DEF SignsIn, EndedOutside, DepositRead, DepositKept, CutOff, SignInTick, signInVars
<1> QED
  BY <1>2, <1>3, <1>4, <1>5, <1>6 DEF SignInNext

\* Types, for any callers, sign-ins and bounds.
THEOREM SignInIsTyped == SignInSpec => []SignInTypeOK
<1>1. SignInInit => NotesTyped
  <2>1. SignInInit => notes = <<>>
    BY DEF SignInInit
  <2> QED
    BY <2>1, SignInAssumption DEF NotesTyped
<1>2. SignInInv /\ NotesTyped => SignInTypeOK
  BY DEF SignInInv, SignInTypes, NotesTyped, SignInTypeOK, Working, Deposit
<1>3. SignInSpec => []SignInInv
  BY SignInInvHolds
<1> QED
  BY <1>1, <1>2, <1>3, NotesStep, PTL DEF SignInSpec

\* The end of a sign-in is said once, whoever asks while the check asks and
\* whatever is deposited or written back meanwhile.
THEOREM EndIsToldOnce == SignInSpec => []EndToldOnce
  BY SignInInvHolds, PTL DEF SignInInv

\* A refresh token Anthropic has taken already is presented only when the one
\* it gave for it was lost: no two requests present one, and no request
\* presents what another has renewed.
THEOREM SpentTokensWereLost == SignInSpec => SpentOnlyOnceLost
<1>1. SignInInv /\ [SignInNext]_signInVars =>
        [\A c \in Callers :
           (callers[c] # Free /\ callers'[c] # Free /\ Doing(c, "asking") /\ callers'[c].phase = "refused")
           => (callers[c].row.of \in ended \cup lost)]_signInVars
  <2> SUFFICES ASSUME SignInInv, SignInNext, NEW c \in Callers, callers[c] # Free,
                      callers'[c] # Free, Doing(c, "asking"), callers'[c].phase = "refused"
               PROVE  callers[c].row.of \in ended \cup lost
    OBVIOUS
  <2>1. "asking" \in WorkPhases
    BY DEF WorkPhases
  <2>2. /\ callers[c] \in Working /\ callers[c].phase = "asking" /\ WorkKept(callers[c])
        /\ callers \in [Callers -> {Free} \cup Working]
        /\ \A o \in Callers : o # c => callers[o] = Free
    BY <2>1, AtWork
  <2>3. RefusedByAnthropic(c)
    <3>1. PICK o \in Callers :
             \/ AsksFresh(o) \/ Answered(o) \/ RefusedByAnthropic(o) \/ Unheard(o)
             \/ Rereads(o) \/ WritesBack(o) \/ Settles(o)
             \/ Checks(o) \/ CheckRenews(o) \/ Tells(o)
      <4>1. callers' # callers /\ ~CutOff
        BY <2>2 DEF CutOff
      <4> QED
        BY <4>1 DEF SignInNext, SignsIn, EndedOutside, DepositRead, DepositKept, SignInTick
    <3>2. ~AsksFresh(o) /\ ~Checks(o)
      BY DEF AsksFresh, Checks, LockedFor
    <3>3. o = c
      <4>1. PICK p \in WorkPhases : Doing(o, p)
        BY <3>1, <3>2 DEF Answered, RefusedByAnthropic, Unheard, Rereads, WritesBack, Settles,
           CheckRenews, Tells, WorkPhases
      <4> QED
        BY <2>2, <4>1, DoingIsBusy
    <3>4. Answered(c) \/ Unheard(c) \/ RefusedByAnthropic(c)
      BY <2>2, <3>1, <3>2, <3>3 DEF Rereads, WritesBack, Settles, CheckRenews, Tells, Doing
    <3>5. ~Unheard(c)
      <4>1. Moves(c, "unheard") => callers'[c].phase = "unheard"
        BY <2>2, MovesFacts DEF SignInInv, WorkPhases
      <4> QED
        BY <4>1 DEF Unheard
    <3>6. ~Answered(c)
      <4>1. SUFFICES ASSUME NEW n, callers' = [callers EXCEPT ![c].phase = "answered", ![c].given = n]
                     PROVE  callers'[c].phase = "answered"
        BY DEF Answered
      <4>2. callers'[c] = [callers[c] EXCEPT !.phase = "answered", !.given = n]
        BY <2>2, <4>1
      <4> QED
        BY <2>2, <4>2 DEF Working
    <3> QED
      BY <3>4, <3>5, <3>6
  <2> QED
    BY <2>2, <2>3 DEF RefusedByAnthropic, WorkKept, Current
<1> QED
  BY <1>1, SignInInvHolds, PTL DEF SignInSpec, SpentOnlyOnceLost

=============================================================================
