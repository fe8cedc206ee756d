---------------------------- MODULE FleetProofs ----------------------------
(***************************************************************************)
(* The fleet and its boxes, for every number of boxes, people, sessions,   *)
(* setups and releases: where a verb may be placed, what is owed after a   *)
(* removal, which relays stay open, and what a box keeps across a restart. *)
(*                                                                         *)
(* Placement: that a member's verb reaches only a box that may act for     *)
(* them needs the rows of the last frame to be filed again whenever whom   *)
(* the box acts for changes (Filed). That no claim is older than what the  *)
(* box said needs the age a silent box's kept list is given: that of the   *)
(* frame it came from, which is no younger than the one beside it (Heard). *)
(*                                                                         *)
(* Removals: when an ask ends its box owes from the earliest removal it    *)
(* did not confirm or that is newer than the ask. AskKnows says why        *)
(* nothing older is lost: whatever was made up to where the ask began, and *)
(* the box still holds, was put to it and has no yes yet.                  *)
(*                                                                         *)
(* Setups: a relay is bound to a job by the answer to its begin, and taken *)
(* from it by the first word that the job is over. MadeFirst says which    *)
(* comes first on the wire: the answer that names a job comes before any   *)
(* other frame about it, so no relay is bound to a job already known to    *)
(* have ended.                                                             *)
(*                                                                         *)
(* Sessions: that what was asked to be down stays down, for every number   *)
(* of sessions, launches in flight and starts of the hub. The property is  *)
(* of the records alone and is not inductive: a pane of the name, a launch *)
(* of it, or a record in the bin could each turn it about one step later.  *)
(* Down says that none of them is there: the pane was killed, a launch     *)
(* under way keeps the request from counting, and what a forget moves to   *)
(* the bin is what the stop had left.                                      *)
(*                                                                         *)
(* Releases: that the linked release is always on disk, as pruning spares  *)
(* it, comes with the types (UpdateDisk). That a revert is followed is     *)
(* inductive once the services are typed (UpdateShape): a revert marks     *)
(* both of them, whatever starts runs what it would be launched as, and    *)
(* only a service that restarts, or whose restart is ordered, takes its    *)
(* mark off.                                                               *)
(***************************************************************************)
EXTENDS Placement, Removals, SetupRelays, Sessions, UpdateTrial, FiniteSetTheorems,
        SequenceTheorems, TLAPS

LEMMA LeastOfNaturals ==
    ASSUME NEW S \in SUBSET Nat, S # {}
    PROVE  \E n \in S : \A m \in S : n <= m
<1>1. PICK n \in S : \A m \in S : ~(<<m, n>> \in OpToRel(<, Nat))
  BY NatLessThanWellFounded, WFMin
<1>2. \A m \in S : <<m, n>> \in Nat \X Nat
  OBVIOUS
<1>3. \A m \in S : ~(m < n)
  BY <1>1, <1>2 DEF OpToRel
<1> QED
  BY <1>3

---------------------------------------------------------------------------
(* Placement *)

LEMMA PlacementConstants ==
    /\ Anyone \notin Persons /\ NoPerson \notin Persons
    /\ StaleAge \in Nat /\ PinAge \in Nat /\ DroppedAge \in Nat
    /\ Temporary \subseteq Boxes /\ BoxPerson \in [Boxes -> Persons] /\ MaxEvents \in Nat
  BY PlacementAssumption

\* Old is past every age that is compared.
LEMMA OldIsOld == Old \in Nat /\ PinAge < Old /\ StaleAge < Old /\ DroppedAge < Old
<1> DEFINE T == {StaleAge, PinAge, DroppedAge}
<1>1. \E m \in T : \A k \in T : k <= m
  <2>1. CASE StaleAge >= PinAge /\ StaleAge >= DroppedAge
    BY <2>1, PlacementConstants
  <2>2. CASE PinAge >= StaleAge /\ PinAge >= DroppedAge
    BY <2>2, PlacementConstants
  <2>3. CASE DroppedAge >= StaleAge /\ DroppedAge >= PinAge
    BY <2>3, PlacementConstants
  <2> QED
    BY <2>1, <2>2, <2>3, PlacementConstants
<1>2. PICK m \in T : m = CHOOSE x \in T : \A k \in T : k <= x
  BY <1>1
<1>3. \A k \in T : k <= m
  BY <1>1, <1>2
<1> QED
  BY <1>2, <1>3, PlacementConstants DEF Old

LEMMA OlderAges ==
    /\ 0 \in Ages
    /\ \A a \in Ages : a \in Nat /\ a <= Old /\ Older(a) \in Ages /\ a <= Older(a)
    /\ \A a, b \in Ages : a <= b => Older(a) <= Older(b)
  BY OldIsOld DEF Ages, Older

---------------------------------------------------------------------------
(* Rows *)

Entries == [where : {"nowhere", "hosts", "dropped"}, connected : BOOLEAN,
            state : {"unknown", "healthy", "degraded", "offline"},
            actsFor : Persons \cup {Anyone},
            reported : BOOLEAN, listed : BOOLEAN,
            rows : [Sessions -> Rows], age : Ages,
            kept : BOOLEAN, keptRows : [Sessions -> Rows], keptAge : Ages,
            droppedFor : Ages]

LEMMA RowFacts ==
    /\ NoRow \in Rows /\ Empty \in [Sessions -> Rows] /\ NoRow.by = NoPerson
    /\ \A r \in Rows : r.by \in Persons \cup {NoPerson} /\ r.in \in {"sessions", "bin", "nothing"}
    /\ \A r \in Rows : r.in = "nothing" <=> r = NoRow
  BY DEF NoRow, Rows, Empty

\* A row filed under somebody the box may act for, that it is a row or none
\* being as before.
LEMMA AttributedFacts ==
    ASSUME NEW p \in Persons \cup {Anyone}, NEW rows \in [Sessions -> Rows]
    PROVE  /\ Attributed(p, rows) \in [Sessions -> Rows]
           /\ \A n \in Sessions :
                /\ Attributed(p, rows)[n].by = NoPerson \/ MayActFor(p, Attributed(p, rows)[n].by)
                /\ Attributed(p, rows)[n] # NoRow <=> rows[n] # NoRow
<1> SUFFICES ASSUME NEW n \in Sessions
             PROVE  /\ Attributed(p, rows)[n] \in Rows
                    /\ \/ Attributed(p, rows)[n].by = NoPerson
                       \/ MayActFor(p, Attributed(p, rows)[n].by)
                    /\ Attributed(p, rows)[n] # NoRow <=> rows[n] # NoRow
  BY DEF Attributed
<1> DEFINE r == rows[n]  a == Attributed(p, rows)[n]  by == BelievedCreator(p, r.by)
<1>1. r \in Rows /\ a = [r EXCEPT !.by = by]
  BY DEF Attributed
<1>2. by = NoPerson \/ (by \in Persons /\ MayActFor(p, by))
  BY <1>1, RowFacts, PlacementConstants DEF BelievedCreator, MayActFor
<1>3. CASE r = NoRow
  <2>1. a = NoRow
    BY <1>1, <1>3 DEF NoRow, BelievedCreator
  <2> QED
    BY <1>3, <2>1, RowFacts
<1>4. CASE r # NoRow
  <2>1. r \in [in : {"sessions", "bin"}, by : Persons \cup {NoPerson}]
    BY <1>1, <1>4 DEF Rows
  <2>2. a \in [in : {"sessions", "bin"}, by : Persons \cup {NoPerson}] /\ a.by = by
    BY <1>1, <1>2, <2>1
  <2>3. a \in Rows /\ a # NoRow
    BY <2>2 DEF Rows, NoRow
  <2> QED
    BY <1>2, <1>4, <2>2, <2>3
<1> QED
  BY <1>3, <1>4

LEMMA SessionRowsFacts ==
    ASSUME NEW rows \in [Sessions -> Rows], NEW n \in Sessions
    PROVE  SessionRows(rows)[n] = rows[n] \/ SessionRows(rows)[n] = NoRow
  BY DEF SessionRows

LEMMA ActsForPerson ==
    ASSUME enrolled \in [Boxes -> Persons], NEW b \in Boxes, NEW ops
    PROVE  ActsFor(b, ops) \in Persons \cup {Anyone}
  BY DEF ActsFor

---------------------------------------------------------------------------
(* What each operation of the registry does to an entry *)

\* Every row of the last frame is filed under whom the box acts for now, and
\* there is none before the first frame.
Filed(e) ==
    /\ e.listed => e.reported
    /\ \A n \in Sessions : e.rows[n].by = NoPerson \/ MayActFor(e.actsFor, e.rows[n].by)
    /\ \A n \in Sessions : ~e.reported => e.rows[n] = NoRow

\* Of s, how long since the box said it holds each name: no row is older than
\* its frame, and no kept row than what it was kept with, which is no younger
\* than the frame beside it.
Heard(e, s) ==
    /\ \A n \in Sessions : e.rows[n] # NoRow => s[n] <= e.age
    /\ \A n \in Sessions : e.kept /\ e.keptRows[n] # NoRow => s[n] <= e.keptAge
    /\ e.kept /\ e.reported => e.age <= e.keptAge

Saids == [Sessions -> Ages]

\* An entry that is as it should be, whatever was said.
KeptWell(e, s) == e \in Entries /\ Filed(e) /\ Heard(e, s)

LEMMA UnknownIsGood == ASSUME NEW s \in Saids PROVE KeptWell(Unknown, s)
  BY RowFacts, OlderAges DEF KeptWell, Unknown, Entries, Filed, Heard, Empty

LEMMA ConnectedIsGood ==
    ASSUME NEW e, NEW s, KeptWell(e, s), NEW p \in Persons \cup {Anyone} PROVE KeptWell(Connected(e, p), s)
<1> DEFINE c == Connected(e, p)
<1>0. e \in Entries
  BY DEF KeptWell
<1>1. /\ c.rows = Attributed(p, e.rows) /\ c.keptRows = Attributed(p, e.keptRows)
      /\ c.actsFor = p /\ c.listed = e.listed /\ c.reported = e.reported
      /\ c.kept = e.kept /\ c.age = e.age /\ c.keptAge = e.keptAge
  BY <1>0 DEF Connected, Entries
<1>2. e.rows \in [Sessions -> Rows] /\ e.keptRows \in [Sessions -> Rows]
  BY <1>0 DEF Entries
<1>3. c.rows \in [Sessions -> Rows] /\ c.keptRows \in [Sessions -> Rows]
  BY <1>1, <1>2, AttributedFacts
<1>4. c \in Entries
  BY <1>0, <1>1, <1>3, OlderAges DEF Connected, Entries
<1>5. Filed(c)
  <2>1. ASSUME NEW n \in Sessions
        PROVE  /\ c.rows[n].by = NoPerson \/ MayActFor(p, c.rows[n].by)
               /\ ~e.reported => c.rows[n] = NoRow
    <3>1. ~e.reported => e.rows[n] = NoRow
      BY DEF KeptWell, Filed
    <3> HIDE DEF c
    <3>2. c.rows[n].by = NoPerson \/ MayActFor(p, c.rows[n].by)
      BY <1>1, <1>2, AttributedFacts
    <3>3. ~e.reported => c.rows[n] = NoRow
      BY <1>1, <1>2, <3>1, AttributedFacts
    <3> QED
      BY <3>2, <3>3
  <2> QED
    BY <1>1, <2>1 DEF KeptWell, Filed
<1>6. Heard(c, s)
  BY <1>1, <1>2, AttributedFacts DEF KeptWell, Heard
<1> QED
  BY <1>4, <1>5, <1>6 DEF KeptWell

LEMMA DisconnectedIsGood ==
    ASSUME NEW e, NEW s, KeptWell(e, s), NEW b PROVE KeptWell(Disconnected(b, e), s)
<1> DEFINE d == Disconnected(b, e)
<1>0. e \in Entries
  BY DEF KeptWell
<1>1. /\ d.rows = e.rows /\ d.keptRows = e.keptRows /\ d.actsFor = e.actsFor
      /\ d.listed = e.listed /\ d.reported = e.reported
      /\ d.kept = e.kept /\ d.age = e.age /\ d.keptAge = e.keptAge
  BY <1>0 DEF Disconnected, Entries
<1>2. d \in Entries
  BY <1>0, OlderAges DEF Disconnected, Entries
<1> QED
  BY <1>1, <1>2 DEF KeptWell, Filed, Heard

\* actFor: the rows of the last frame are filed again.
LEMMA RetieredIsGood ==
    ASSUME NEW e, NEW s, KeptWell(e, s), NEW p \in Persons \cup {Anyone}
    PROVE  KeptWell([e EXCEPT !.actsFor = p, !.rows = Attributed(p, @)], s)
<1> DEFINE r == [e EXCEPT !.actsFor = p, !.rows = Attributed(p, @)]
<1>0. e \in Entries /\ e.rows \in [Sessions -> Rows]
  BY DEF KeptWell, Entries
<1>1. /\ r.rows = Attributed(p, e.rows) /\ r.keptRows = e.keptRows /\ r.actsFor = p
      /\ r.listed = e.listed /\ r.reported = e.reported
      /\ r.kept = e.kept /\ r.age = e.age /\ r.keptAge = e.keptAge
  BY <1>0 DEF Entries
<1>2. r \in Entries
  BY <1>0, AttributedFacts DEF Entries
<1>3. Filed(r)
  BY <1>0, <1>1, AttributedFacts DEF KeptWell, Filed
<1>4. Heard(r, s)
  BY <1>0, <1>1, AttributedFacts DEF KeptWell, Heard
<1> QED
  BY <1>2, <1>3, <1>4 DEF KeptWell

\* A list that is kept is as old as the frame it came with, or older.
LEMMA KeptIsGood ==
    ASSUME NEW e, NEW s \in Saids, KeptWell(e, s), e.reported PROVE KeptWell(Kept(e), s)
<1> DEFINE k == Kept(e)
<1>0. /\ e \in Entries /\ e.rows \in [Sessions -> Rows] /\ e.keptRows \in [Sessions -> Rows]
      /\ e.age \in Nat /\ e.keptAge \in Nat
  BY OlderAges DEF KeptWell, Entries
<1>1. /\ k.rows = e.rows /\ k.actsFor = e.actsFor /\ k.listed = e.listed /\ k.reported = e.reported
      /\ k.kept /\ k.age = e.age /\ k.keptAge = IF e.kept THEN e.keptAge ELSE e.age
      /\ \A n \in Sessions : k.keptRows[n] = IF SessionRows(e.rows)[n] # NoRow THEN e.rows[n]
                                             ELSE IF e.kept THEN e.keptRows[n] ELSE NoRow
  BY <1>0 DEF Kept, Entries
<1>2. k \in Entries
  BY <1>0, RowFacts DEF Kept, Entries
<1>3. Filed(k)
  BY <1>1 DEF KeptWell, Filed
<1>4. ASSUME NEW n \in Sessions, k.keptRows[n] # NoRow PROVE s[n] <= k.keptAge
  <2>1. s[n] \in Nat
    BY OlderAges DEF Saids
  <2>2. CASE e.rows[n] # NoRow
    BY <1>0, <1>1, <2>1, <2>2 DEF KeptWell, Heard
  <2>3. CASE e.rows[n] = NoRow
    <3>1. k.keptRows[n] = IF e.kept THEN e.keptRows[n] ELSE NoRow
      BY <1>0, <1>1, <2>3, SessionRowsFacts
    <3> QED
      BY <1>1, <1>4, <3>1 DEF KeptWell, Heard
  <2> QED
    BY <2>2, <2>3
<1>5. Heard(k, s)
  BY <1>0, <1>1, <1>4 DEF KeptWell, Heard
<1> QED
  BY <1>2, <1>3, <1>5 DEF KeptWell

\* recordHealth, of the frame in which the box last said what it holds, or of
\* one that cannot tell.
LEMMA RecordedIsGood ==
    ASSUME NEW e, NEW s \in Saids, KeptWell(e, s), NEW listed \in BOOLEAN,
           NEW rows \in [Sessions -> Rows], NEW state \in {"healthy", "degraded"},
           NEW t \in Saids, \A n \in Sessions : rows[n] # NoRow => t[n] = 0, ~listed => t = s
    PROVE  KeptWell(Recorded(e, listed, rows, state), t)
<1> DEFINE before == IF listed THEN Forgotten(e) ELSE IF e.reported /\ e.listed THEN Kept(e) ELSE e
           r == Recorded(e, listed, rows, state)
<1>0. e \in Entries /\ e.actsFor \in Persons \cup {Anyone}
  BY DEF KeptWell, Entries
<1>1. before \in Entries /\ before.actsFor = e.actsFor
  <2>1. Forgotten(e) \in Entries /\ Forgotten(e).actsFor = e.actsFor
    BY <1>0, RowFacts, OlderAges DEF Forgotten, Entries
  <2>2. e.reported => Kept(e) \in Entries
    BY KeptIsGood DEF KeptWell
  <2>3. Kept(e).actsFor = e.actsFor
    BY <1>0 DEF Kept, Entries
  <2> QED
    BY <1>0, <2>1, <2>2, <2>3
<1>2. r = [before EXCEPT !.reported = TRUE, !.listed = listed,
                         !.rows = Attributed(e.actsFor, rows), !.age = 0, !.state = state]
  BY DEF Recorded
<1>3. /\ r.rows = Attributed(e.actsFor, rows) /\ r.actsFor = e.actsFor /\ r.reported
      /\ r.age = 0 /\ r.kept = before.kept /\ r.keptRows = before.keptRows
      /\ r.keptAge = before.keptAge /\ r.keptAge \in Nat
  BY <1>1, <1>2, OlderAges DEF Entries
<1>4. r \in Entries
  <2>1. Attributed(e.actsFor, rows) \in [Sessions -> Rows] /\ 0 \in Ages
    BY <1>0, AttributedFacts, OlderAges
  <2> HIDE DEF before, r
  <2> QED
    BY <1>1, <1>2, <2>1 DEF Entries
<1>5. Filed(r)
  BY <1>0, <1>3, AttributedFacts DEF Filed
<1>6. \A n \in Sessions : r.rows[n] # NoRow => t[n] <= r.age
  <2>1. \A n \in Sessions : Attributed(e.actsFor, rows)[n] # NoRow => t[n] = 0
    BY <1>0, AttributedFacts
  <2>2. t \in [Sessions -> Ages] /\ 0 <= 0
    BY DEF Saids
  <2> HIDE DEF r
  <2> QED
    BY <1>3, <2>1, <2>2
<1>7. \A n \in Sessions : r.kept /\ r.keptRows[n] # NoRow => t[n] <= r.keptAge
  <2>1. CASE listed
    <3>1. ~Forgotten(e).kept
      BY <1>0 DEF Forgotten, Entries
    <3> QED
      BY <1>3, <2>1, <3>1
  <2>2. CASE ~listed
    <3>1. Heard(before, s)
      BY <2>2, KeptIsGood DEF KeptWell
    <3> QED
      BY <1>3, <2>2, <3>1 DEF Heard
  <2> QED
    BY <2>1, <2>2
<1>8. Heard(r, t)
  BY <1>3, <1>6, <1>7 DEF Heard
<1> QED
  BY <1>4, <1>5, <1>8 DEF KeptWell

LEMMA ListedIsGood ==
    ASSUME NEW e \in Entries, NEW s \in Saids, KeptWell(e, s),
           NEW rows \in [Sessions -> Rows], NEW state \in {"healthy", "degraded"},
           NEW t \in Saids, \A n \in Sessions : rows[n] # NoRow => t[n] = 0
    PROVE  KeptWell(Recorded(e, TRUE, rows, state), t)
<1>1. TRUE \in BOOLEAN /\ (~TRUE => t = s)
  OBVIOUS
<1> QED
  BY <1>1, RecordedIsGood, ZenonT(60)

\* noteSessions, of a reply that says the box holds n.
LEMMA NotedIsGood ==
    ASSUME NEW e, NEW s \in Saids, KeptWell(e, s), NEW n \in Sessions, NEW by \in Persons \cup {NoPerson}
    PROVE  KeptWell(Noted(e, n, by), [s EXCEPT ![n] = 0])
<1> DEFINE t == [s EXCEPT ![n] = 0]
           row == [in |-> "sessions", by |-> BelievedCreator(e.actsFor, by)]
<1>0. /\ e \in Entries /\ e.actsFor \in Persons \cup {Anyone} /\ e.age \in Nat /\ e.keptAge \in Nat
      /\ e.rows \in [Sessions -> Rows]
  BY OlderAges DEF KeptWell, Entries
<1>1. /\ t[n] = 0 /\ \A m \in Sessions \ {n} : t[m] = s[m]
  BY DEF Saids
<1>2. Heard(e, t)
  BY <1>0, <1>1 DEF KeptWell, Heard
<1>3. CASE ~e.reported
  BY <1>2, <1>3 DEF KeptWell, Noted
<1>4. CASE e.reported
  <2> DEFINE r == Noted(e, n, by)
  <2>1. r = [e EXCEPT !.listed = TRUE, !.rows[n] = row]
    BY <1>4 DEF Noted
  <2>2. row.by = NoPerson \/ (row.by \in Persons /\ MayActFor(e.actsFor, row.by))
    BY <1>0, PlacementConstants DEF BelievedCreator, MayActFor
  <2>3. row \in Rows /\ row # NoRow
    BY <2>2 DEF Rows, NoRow
  <2>4. r.rows = [e.rows EXCEPT ![n] = row]
    BY <1>0, <2>1 DEF Entries
  <2>5. r.rows \in [Sessions -> Rows]
    BY <1>0, <2>3, <2>4
  <2>6. /\ r.actsFor = e.actsFor /\ r.reported = e.reported /\ r.listed
        /\ r.kept = e.kept /\ r.keptRows = e.keptRows /\ r.keptAge = e.keptAge /\ r.age = e.age
    BY <1>0, <2>1 DEF Entries
  <2>7. r \in Entries
    BY <1>0, <2>1, <2>5, <2>4 DEF Entries
  <2>8. r.rows[n] = row /\ \A m \in Sessions \ {n} : r.rows[m] = e.rows[m]
    BY <1>0, <2>4
  <2>9. Filed(r)
    BY <1>4, <2>2, <2>6, <2>8 DEF KeptWell, Filed
  <2>10. Heard(r, t)
    BY <1>0, <1>1, <1>2, <2>6, <2>8 DEF Heard
  <2> QED
    BY <2>7, <2>9, <2>10 DEF KeptWell
<1> QED
  BY <1>0, <1>3, <1>4 DEF Entries

\* An entry and what was said age together.
LEMMA OlderIsGood ==
    ASSUME NEW e, NEW s \in Saids, KeptWell(e, s), NEW t, t = [n \in Sessions |-> Older(s[n])],
           NEW o \in Entries,
           o.rows = e.rows, o.keptRows = e.keptRows, o.actsFor = e.actsFor,
           o.listed = e.listed, o.reported = e.reported, o.kept = e.kept,
           o.age = (IF e.reported THEN Older(e.age) ELSE e.age),
           o.keptAge = (IF e.kept THEN Older(e.keptAge) ELSE e.keptAge)
    PROVE  KeptWell(o, t)
<1>0. e.age \in Ages /\ e.keptAge \in Ages
  BY DEF KeptWell, Entries
<1>1. Filed(o)
  BY DEF KeptWell, Filed
<1>2. ASSUME NEW n \in Sessions, o.rows[n] # NoRow PROVE t[n] <= o.age
  <2>1. e.reported /\ s[n] <= e.age /\ s[n] \in Ages
    BY <1>2 DEF KeptWell, Filed, Heard, Saids
  <2> QED
    BY <1>0, <2>1, OlderAges
<1>3. ASSUME NEW n \in Sessions, o.kept, o.keptRows[n] # NoRow PROVE t[n] <= o.keptAge
  <2>1. e.kept /\ s[n] <= e.keptAge /\ s[n] \in Ages
    BY <1>3 DEF KeptWell, Heard, Saids
  <2> QED
    BY <1>0, <2>1, OlderAges
<1>4. o.kept /\ o.reported => o.age <= o.keptAge
  BY <1>0, OlderAges DEF KeptWell, Heard
<1> QED
  BY <1>1, <1>2, <1>3, <1>4 DEF KeptWell, Heard

\* sweep, as what was said ages with it.
LEMMA AgedIsGood ==
    ASSUME NEW e, NEW s \in Saids, KeptWell(e, s), NEW t, t = [n \in Sessions |-> Older(s[n])]
    PROVE  t \in Saids /\ KeptWell(Aged(e), t)
<1> DEFINE older == [e EXCEPT !.age = IF e.reported THEN Older(@) ELSE @,
                              !.keptAge = IF e.kept THEN Older(@) ELSE @,
                              !.droppedFor = IF e.where = "dropped" THEN Older(@) ELSE @]
           asleep == [older EXCEPT !.state = "unknown"]
<1>0. e \in Entries /\ e.age \in Ages /\ e.keptAge \in Ages /\ e.droppedFor \in Ages
  BY DEF KeptWell, Entries
<1>1. t \in Saids
  BY OlderAges DEF Saids
<1>2. older \in Entries /\ asleep \in Entries
  BY <1>0, OlderAges DEF Entries
<1>3. KeptWell(older, t)
  <2>1. /\ older.rows = e.rows /\ older.keptRows = e.keptRows /\ older.actsFor = e.actsFor
        /\ older.listed = e.listed /\ older.reported = e.reported /\ older.kept = e.kept
        /\ older.age = IF e.reported THEN Older(e.age) ELSE e.age
        /\ older.keptAge = IF e.kept THEN Older(e.keptAge) ELSE e.keptAge
    BY <1>0 DEF Entries
  <2> HIDE DEF older
  <2> QED
    BY <1>2, <2>1, OlderIsGood
<1>4. KeptWell(asleep, t)
  <2>1. /\ asleep.rows = older.rows /\ asleep.keptRows = older.keptRows
        /\ asleep.actsFor = older.actsFor /\ asleep.listed = older.listed
        /\ asleep.reported = older.reported /\ asleep.kept = older.kept
        /\ asleep.age = older.age /\ asleep.keptAge = older.keptAge
    BY <1>2 DEF Entries
  <2> HIDE DEF older, asleep
  <2> QED
    BY <1>2, <1>3, <2>1 DEF KeptWell, Filed, Heard
<1>5. Aged(e) \in {Unknown, older, asleep}
  BY DEF Aged
<1> QED
  BY <1>1, <1>3, <1>4, <1>5, UnknownIsGood

---------------------------------------------------------------------------
(* The theorems *)

PlacementInv ==
    /\ operators \subseteq Persons /\ enrolled \in [Boxes -> Persons]
    /\ calls \subseteq Boxes /\ events \in 0..MaxEvents
    /\ said \in [Boxes -> Saids]
    /\ entry \in [Boxes -> Entries]
    /\ \A b \in Boxes : KeptWell(entry[b], said[b])

LEMMA TypesOfIInv == PlacementInv => PlacementTypeOK
  BY DEF PlacementInv, PlacementTypeOK, Entries, Saids

\* A step that changes the entry of one box, for the better or the worse.
LEMMA OneBox ==
    ASSUME PlacementInv, NEW b \in Boxes, NEW e, NEW s \in Saids, KeptWell(e, s),
           entry' = [entry EXCEPT ![b] = e], said' = [said EXCEPT ![b] = s],
           operators' \subseteq Persons, enrolled' \in [Boxes -> Persons],
           calls' \subseteq Boxes, events' \in 0..MaxEvents
    PROVE  PlacementInv'
  BY DEF PlacementInv, KeptWell

LEMMA NextKeepsIInv == PlacementInv /\ [PlacementNext]_placementVars => PlacementInv'
<1> SUFFICES ASSUME PlacementInv, [PlacementNext]_placementVars PROVE PlacementInv'
  OBVIOUS
<1>0. /\ operators \subseteq Persons /\ enrolled \in [Boxes -> Persons]
      /\ calls \subseteq Boxes /\ events \in 0..MaxEvents
      /\ said \in [Boxes -> Saids] /\ entry \in [Boxes -> Entries]
      /\ \A b \in Boxes : KeptWell(entry[b], said[b])
  BY DEF PlacementInv
<1>1. Event => events' \in 0..MaxEvents
  BY <1>0, PlacementConstants DEF Event
<1>2. ASSUME NEW b \in Boxes PROVE said = [said EXCEPT ![b] = said[b]]
  BY <1>0
<1>3. ASSUME NEW b \in Boxes, Connects(b) PROVE PlacementInv'
  <2>1. KeptWell(Connected(entry[b], ActsFor(b, operators)), said[b])
    BY <1>0, ConnectedIsGood, ActsForPerson
  <2> QED
    BY <1>0, <1>1, <1>2, <1>3, <2>1, OneBox DEF Connects
<1>4. ASSUME NEW b \in Boxes, Drops(b) PROVE PlacementInv'
  <2>1. KeptWell(Disconnected(b, entry[b]), said[b])
    BY <1>0, DisconnectedIsGood
  <2> QED
    BY <1>0, <1>1, <1>2, <1>4, <2>1, OneBox DEF Drops
<1>5. ASSUME NEW b \in Boxes, Removed(b) PROVE PlacementInv'
  BY <1>0, <1>1, <1>2, <1>5, OneBox, UnknownIsGood DEF Removed
<1>6. ASSUME NEW b \in Boxes, ReportsBusy(b) PROVE PlacementInv'
  <2>1. KeptWell(Recorded(entry[b], FALSE, Empty, "degraded"), said[b])
    BY <1>0, RowFacts, RecordedIsGood DEF Empty
  <2>2. /\ entry' = [entry EXCEPT ![b] = Recorded(entry[b], FALSE, Empty, "degraded")]
        /\ said' = [said EXCEPT ![b] = said[b]] /\ said[b] \in Saids
        /\ UNCHANGED <<operators, enrolled, calls>> /\ events' \in 0..MaxEvents
    BY <1>0, <1>1, <1>2, <1>6 DEF ReportsBusy
  <2> QED
    BY <1>0, <2>1, <2>2, OneBox
<1>7. ASSUME NEW b \in Boxes, CallLost(b) PROVE PlacementInv'
  BY <1>0, <1>7 DEF CallLost, PlacementInv
<1>8. ASSUME NEW b \in Boxes, NEW rows \in [Sessions -> Rows], NEW s \in {"healthy", "degraded"},
             Reports(b, rows, s)
      PROVE  PlacementInv'
  <2> DEFINE t == [n \in Sessions |-> IF rows[n] # NoRow THEN 0 ELSE Old]
  <2>1. t \in Saids
    BY OlderAges, OldIsOld DEF Saids, Ages
  <2>2. KeptWell(Recorded(entry[b], TRUE, rows, s), t)
    <3>1. \A n \in Sessions : rows[n] # NoRow => t[n] = 0
      OBVIOUS
    <3>2. entry[b] \in Entries /\ said[b] \in Saids /\ KeptWell(entry[b], said[b])
      BY <1>0
    <3> HIDE DEF t
    <3> QED
      BY <2>1, <3>1, <3>2, ListedIsGood
  <2> QED
    BY <1>0, <1>1, <1>8, <2>1, <2>2, OneBox DEF Reports
<1>9. ASSUME NEW n \in Sessions, NEW p \in Persons \cup {Anyone}, NEW b \in Boxes, Dispatch(p, n, b)
      PROVE  PlacementInv'
  BY <1>0, <1>9 DEF Dispatch, PlacementInv
<1>10. ASSUME NEW b \in Boxes, NEW n \in Sessions, NEW p \in Persons \cup {NoPerson},
              Replies(b, n, p)
       PROVE  PlacementInv'
  <2>1. /\ [said[b] EXCEPT ![n] = 0] \in Saids
        /\ KeptWell(Noted(entry[b], n, p), [said[b] EXCEPT ![n] = 0])
    BY <1>0, OlderAges, NotedIsGood DEF Saids
  <2>2. said' = [said EXCEPT ![b] = [said[b] EXCEPT ![n] = 0]]
    BY <1>0, <1>10 DEF Replies
  <2> QED
    BY <1>0, <1>1, <1>10, <2>1, <2>2, OneBox DEF Replies
<1>11. ASSUME NEW b \in Boxes, NEW p \in Persons, Rekeys(b, p) PROVE PlacementInv'
  BY <1>0, <1>1, <1>11 DEF Rekeys, PlacementInv
<1>12. ASSUME NEW p \in Persons, OperatorChanges(p) PROVE PlacementInv'
  <2>1. ASSUME NEW b \in Boxes PROVE KeptWell(entry'[b], said[b])
    <3>1. ActsFor(b, operators') \in Persons \cup {Anyone}
      BY <1>0, ActsForPerson
    <3> QED
      BY <1>0, <1>12, <3>1, RetieredIsGood DEF OperatorChanges, Retiered
  <2>2. entry' \in [Boxes -> Entries]
    BY <1>12, <2>1 DEF OperatorChanges, Retiered, KeptWell
  <2> QED
    BY <1>0, <1>1, <1>12, <2>1, <2>2 DEF OperatorChanges, PlacementInv
<1>13. CASE RegistryRebuilt
  <2>1. ASSUME NEW b \in Boxes PROVE KeptWell(entry'[b], said[b])
    BY <1>0, <1>13, UnknownIsGood, ConnectedIsGood, ActsForPerson DEF RegistryRebuilt
  <2>2. entry' \in [Boxes -> Entries]
    BY <1>13, <2>1 DEF RegistryRebuilt, KeptWell
  <2> QED
    BY <1>0, <1>1, <1>13, <2>1, <2>2 DEF RegistryRebuilt, PlacementInv
<1>14. CASE TimePasses
  <2>1. ASSUME NEW b \in Boxes PROVE said'[b] \in Saids /\ KeptWell(entry'[b], said'[b])
    BY <1>0, <1>14, AgedIsGood DEF TimePasses
  <2>2. entry' \in [Boxes -> Entries] /\ said' \in [Boxes -> Saids]
    BY <1>14, <2>1 DEF TimePasses, KeptWell
  <2> QED
    BY <1>0, <1>14, <2>1, <2>2 DEF TimePasses, PlacementInv
<1>15. CASE UNCHANGED placementVars
  BY <1>0, <1>15 DEF placementVars, PlacementInv
<1> QED
  BY <1>3, <1>4, <1>5, <1>6, <1>7, <1>8, <1>9, <1>10, <1>11, <1>12, <1>13, <1>14, <1>15
     DEF PlacementNext

LEMMA IInvHolds == PlacementSpec => []PlacementInv
<1>1. PlacementInit => PlacementInv
  <2> SUFFICES ASSUME PlacementInit PROVE PlacementInv
    OBVIOUS
  <2>1. \A b \in Boxes : said[b] \in Saids
    BY OldIsOld DEF PlacementInit, Saids, Ages
  <2>2. \A b \in Boxes : KeptWell(entry[b], said[b])
    BY <2>1, UnknownIsGood DEF PlacementInit
  <2> QED
    BY <2>1, <2>2, PlacementConstants DEF PlacementInit, PlacementInv, KeptWell
<1> QED
  BY <1>1, NextKeepsIInv, PTL DEF PlacementSpec

\* Every value has its type.
THEOREM PlacementTypes == PlacementSpec => []PlacementTypeOK
  BY IInvHolds, TypesOfIInv, PTL

LEMMA ClaimOfOne ==
    ASSUME PlacementInv, NEW b \in Boxes, NEW n \in Sessions, NEW who \in Persons \cup {Anyone},
           PinnedTo(who, n, b)
    PROVE  /\ Claim(b, n).row # NoRow /\ Claim(b, n).age <= PinAge
           /\ who = Anyone \/ Claim(b, n).row.by = who
  BY DEF PinnedTo, SessionsOf, Claims

\* However frames, silences, drops, re-enrolments and changes of operators
\* follow one another, a member's verb goes by a live list only to a box that
\* may act for them at that moment.
THEOREM VerbsReachTheirPerson ==
    PlacementSpec => []ReachesItsPerson
<1>1. PlacementInv => ReachesItsPerson
  <2> SUFFICES ASSUME PlacementInv, NEW b \in Boxes, NEW n \in Sessions, NEW who \in Persons,
                      PinnedTo(who, n, b), entry[b].listed
               PROVE  MayActFor(entry[b].actsFor, who)
    BY DEF ReachesItsPerson
  <2>1. Claim(b, n).row.by = who
    BY ClaimOfOne, PlacementConstants
  <2>2. entry[b].reported /\ Filed(entry[b]) /\ entry[b].rows \in [Sessions -> Rows]
    BY DEF PlacementInv, KeptWell, Filed, Entries
  <2>3. Claim(b, n).row = entry[b].rows[n]
    BY <2>2, SessionRowsFacts DEF Claim
  <2> QED
    BY <2>1, <2>2, <2>3, PlacementConstants DEF Filed
<1> QED
  BY <1>1, IInvHolds, PTL

\* And any verb that names a session goes only where the box itself has said
\* it holds it within the pin age, and has not since said that it does not.
THEOREM VerbsFollowTheBox == PlacementSpec => []ClaimsAreHeard
<1>1. PlacementInv => ClaimsAreHeard
  <2> SUFFICES ASSUME PlacementInv, NEW b \in Boxes, NEW n \in Sessions, NEW who \in Persons \cup {Anyone},
                      PinnedTo(who, n, b)
               PROVE  said[b][n] <= PinAge
    BY DEF ClaimsAreHeard
  <2>1. Claim(b, n).row # NoRow /\ Claim(b, n).age <= PinAge
    BY ClaimOfOne
  <2>2. /\ Heard(entry[b], said[b]) /\ entry[b].rows \in [Sessions -> Rows]
        /\ entry[b].age \in Nat /\ entry[b].keptAge \in Nat /\ said[b][n] \in Nat
    BY OlderAges DEF PlacementInv, KeptWell, Entries, Saids
  <2>3. \/ entry[b].rows[n] # NoRow /\ Claim(b, n).age = entry[b].age
        \/ entry[b].kept /\ entry[b].keptRows[n] # NoRow /\ Claim(b, n).age = entry[b].keptAge
        \/ entry[b].kept /\ entry[b].rows[n] # NoRow /\ Claim(b, n).age = entry[b].age
    BY <2>1, <2>2, SessionRowsFacts DEF Claim
  <2> QED
    BY <2>1, <2>2, <2>3, PlacementConstants DEF Heard
<1> QED
  BY <1>1, IInvHolds, PTL

---------------------------------------------------------------------------
(* What is owed after a removal *)

\* Each removal is of somebody else, at a moment of its own.
RemovalsKnown ==
    /\ IsFiniteSet(removals)
    /\ \A r \in removals : r.at <= made
    /\ \A r, q \in removals : r.who = q.who \/ r.at = q.at => r = q
    /\ \A b \in FleetBoxes : debts[b].from <= made

\* Nothing is left by somebody who is back, nor counted on a revoked box.
LeftByTheRemoved ==
    \A b \in FleetBoxes, p \in Members : left[b][p] # "nothing" => p \notin member /\ Standing(b)

\* The registry says which boxes are the fleet's, and those unasked are not.
TierIsKnown ==
    /\ \A b \in FleetBoxes : seen[b].at # "gone" => seen[b].fleets = OfTheFleet(b, member)
    /\ \A b \in unasked : ~OfTheFleet(b, member)

\* A removal whose leavings are still on the box is one the ask under way was
\* begun with and has no yes for, or one it has not heard of.
AskKnows ==
    \A b \in FleetBoxes : asking[b] # NoAsk =>
        /\ asking[b].upTo <= made
        /\ \A p \in Members : asking[b].of[p].said # "unsent"
              => asking[b].of[p].at \in 1..asking[b].upTo
        /\ \A r \in removals : left[b][r.who] = "inside" /\ r.at <= asking[b].upTo =>
              /\ asking[b].of[r.who].said \in {"waiting", "refused", "unanswered"}
              /\ asking[b].of[r.who].at = r.at

RemovalsInv ==
    /\ RemovalsTypeOK /\ RemovalsKnown /\ LeftByTheRemoved /\ TierIsKnown /\ AskKnows
    /\ OwedUntilPaid

Debts == [revoked : BOOLEAN, handBack : BOOLEAN, from : 0..MaxRemovals]
TreeEntries == [at : {"gone", "offline", "up"}, fleets : BOOLEAN, lists : BOOLEAN]
Leavings == [Members -> {"nothing", "inside", "outside"}]
RemovalRecords == [who : Members, at : 1..MaxRemovals]

LEMMA RemovalsTypesAre ==
    ASSUME RemovalsTypeOK
    PROVE  /\ member \subseteq Members /\ removals \subseteq RemovalRecords
           /\ Cardinality(removals) <= RemovalsKept
           /\ debts \in [FleetBoxes -> Debts] /\ seen \in [FleetBoxes -> TreeEntries]
           /\ asking \in [FleetBoxes -> Ask \cup {NoAsk}]
           /\ left \in [FleetBoxes -> Leavings]
           /\ made \in Nat /\ made <= MaxRemovals /\ MaxRemovals \in Nat
<1>1. /\ debts \in [FleetBoxes -> Debts] /\ seen \in [FleetBoxes -> TreeEntries]
      /\ left \in [FleetBoxes -> Leavings] /\ removals \subseteq RemovalRecords
  BY DEF RemovalsTypeOK, Debts, TreeEntries, Leavings, RemovalRecords
<1>2. MaxRemovals \in Nat /\ made \in 0..MaxRemovals
  BY RemovalsAssumption DEF RemovalsTypeOK
<1>3. /\ member \subseteq Members /\ Cardinality(removals) <= RemovalsKept
      /\ asking \in [FleetBoxes -> Ask \cup {NoAsk}]
  BY DEF RemovalsTypeOK
<1> QED
  BY <1>1, <1>2, <1>3

---------------------------------------------------------------------------
(* The list of removals *)

LEMMA LeastIs ==
    ASSUME NEW S \in SUBSET (Nat \ {0}), NEW k \in S
    PROVE  Least(S) \in S /\ Least(S) <= k
<1>1. \E n \in S : \A m \in S : n <= m
  BY LeastOfNaturals
<1>2. Least(S) = CHOOSE n \in S : \A m \in S : n <= m
  BY DEF Least
<1> QED
  BY <1>1, <1>2

\* What is listed of removals at moments of their own is no more than the list
\* holds.
LEMMA ListedIsBounded ==
    ASSUME NEW rs, IsFiniteSet(rs), \A r \in rs : r.at \in Nat,
           \A r, q \in rs : r.at = q.at => r = q
    PROVE  Listed(rs) \subseteq rs /\ Cardinality(Listed(rs)) <= RemovalsKept
<1> DEFINE K == Listed(rs)
<1>1. K \subseteq rs /\ IsFiniteSet(K)
  BY FS_Subset DEF Listed
<1>2. CASE K = {}
  <2>1. Cardinality(K) = 0
    BY <1>2, FS_EmptySet
  <2> QED
    BY <1>1, <2>1, RemovalsAssumption
<1>3. CASE K # {}
  <2> DEFINE ats == {r.at : r \in K}
  <2>1. ats \in SUBSET Nat /\ ats # {}
    BY <1>1, <1>3
  <2>2. \E n \in ats : \A m \in ats : n <= m
    BY <2>1, LeastOfNaturals
  <2>3. PICK o \in K : \A r \in K : o.at <= r.at
    BY <2>2
  <2> DEFINE newer == {q \in rs : q.at > o.at}
  <2>4. IsFiniteSet(newer)
    BY FS_Subset
  <2>5. Cardinality(newer) < RemovalsKept
    BY <2>3 DEF Listed
  <2>6. Cardinality(newer) \in Nat
    BY <2>4, FS_CardinalityType
  <2>7. K \subseteq newer \cup {o}
    BY <1>1, <2>3
  <2> HIDE DEF newer, K
  <2>8. IsFiniteSet(newer \cup {o})
    BY <2>4, FS_AddElement
  <2>9. \/ Cardinality(newer \cup {o}) = Cardinality(newer)
        \/ Cardinality(newer \cup {o}) = Cardinality(newer) + 1
    BY <2>4, FS_AddElement
  <2>10. Cardinality(K) <= Cardinality(newer \cup {o}) /\ Cardinality(K) \in Nat
    BY <1>1, <2>7, <2>8, FS_Subset, FS_CardinalityType
  <2>11. Cardinality(K) <= RemovalsKept
    BY <2>5, <2>6, <2>9, <2>10, RemovalsAssumption
  <2> QED
    BY <1>1, <2>11 DEF K
<1> QED
  BY <1>2, <1>3

\* Pruned, the list is still one of removals at moments of their own.
LEMMA PrunedList ==
    ASSUME NEW rs, NEW d, NEW people, IsFiniteSet(rs), rs \subseteq RemovalRecords,
           \A r, q \in rs : r.who = q.who \/ r.at = q.at => r = q
    PROVE  /\ Listed(StillOwed(rs, d, people)) \subseteq rs
           /\ IsFiniteSet(Listed(StillOwed(rs, d, people)))
           /\ Cardinality(Listed(StillOwed(rs, d, people))) <= RemovalsKept
<1> DEFINE owed == StillOwed(rs, d, people)
<1>1. owed \subseteq rs /\ IsFiniteSet(owed)
  BY FS_Subset DEF StillOwed
<1>2. \A r \in owed : r.at \in Nat
  BY <1>1 DEF RemovalRecords
<1>3. \A r, q \in owed : r.at = q.at => r = q
  BY <1>1
<1> HIDE DEF owed
<1>4. Listed(owed) \subseteq owed /\ Cardinality(Listed(owed)) <= RemovalsKept
  BY <1>1, <1>2, <1>3, ListedIsBounded
<1>5. Listed(owed) \subseteq rs /\ IsFiniteSet(Listed(owed))
  BY <1>1, <1>4, FS_Subset
<1> QED
  BY <1>4, <1>5 DEF owed

\* A removal that a box of the fleet's still owes is on the list, unless a
\* record says that it is not.
LEMMA OwedIsListed ==
    ASSUME NEW rs, NEW d, NEW people, NEW l, NEW b \in FleetBoxes, NEW r \in rs,
           Standing(b), d[b].from # 0, d[b].from <= r.at, r.who \notin people, r.who \in Members,
           SaidOf(StillOwed(rs, d, people), l)[b][r.who] # "nothing"
    PROVE  r \in Listed(StillOwed(rs, d, people))
<1>1. r \in StillOwed(rs, d, people)
  BY DEF StillOwed
<1>2. r.who \notin {q.who : q \in StillOwed(rs, d, people) \ Listed(StillOwed(rs, d, people))}
  BY DEF SaidOf
<1> QED
  BY <1>1, <1>2

LEMMA SaidOfIs ==
    ASSUME NEW rs, NEW l \in [FleetBoxes -> Leavings]
    PROVE  /\ SaidOf(rs, l) \in [FleetBoxes -> Leavings]
           /\ \A b \in FleetBoxes, p \in Members :
                 SaidOf(rs, l)[b][p] # "nothing" => SaidOf(rs, l)[b][p] = l[b][p]
  BY DEF SaidOf, Leavings

\* A box that is asked now is asked for everybody it owes.
LEMMA AskedNow ==
    ASSUME NEW rs \in SUBSET RemovalRecords, NEW m \in Nat, m <= MaxRemovals, \A r \in rs : r.at <= m,
           \A r, q \in rs : r.who = q.who => r = q, IsFiniteSet(rs),
           NEW b \in FleetBoxes, NEW d, d[b].from \in Nat, d[b].from <= m, NEW people,
           asking[b] = NoAsk, d[b].from # 0
    PROVE  LET a == AsksForget(b, rs, d, people) IN
           /\ a \in Ask /\ a.upTo <= m
           /\ \A p \in Members : a.of[p].said # "unsent" => a.of[p].at \in 1..a.upTo
           /\ \A r \in rs : r.at >= d[b].from /\ r.who \notin people =>
                 a.of[r.who].said = "waiting" /\ a.of[r.who].at = r.at
<1> DEFINE owed == {r \in rs : r.at >= d[b].from /\ r.who \notin people}
           newest == CHOOSE r \in rs : \A q \in rs : q.at <= r.at
           upTo == IF rs = {} THEN d[b].from ELSE newest.at
           of == [p \in Members |-> IF \E r \in owed : r.who = p
                     THEN [said |-> "waiting", at |-> (CHOOSE r \in owed : r.who = p).at]
                     ELSE Unowed]
<1>1. AsksForget(b, rs, d, people) = [upTo |-> upTo, of |-> of]
  BY DEF AsksForget
<1>2. upTo \in 0..MaxRemovals /\ upTo <= m /\ \A r \in rs : r.at <= upTo
  <2>1. CASE rs = {}
    BY <2>1, RemovalsAssumption
  <2>2. CASE rs # {}
    <3> DEFINE gaps == {m - r.at : r \in rs}
    <3>1. gaps \in SUBSET Nat /\ gaps # {}
      BY <2>2 DEF RemovalRecords
    <3>2. \E n \in gaps : \A k \in gaps : n <= k
      BY <3>1, LeastOfNaturals
    <3>3. PICK r \in rs : \A q \in rs : m - r.at <= m - q.at
      BY <3>2
    <3>4. \A q \in rs : q.at <= r.at
      BY <3>3 DEF RemovalRecords
    <3>5. newest \in rs
      BY <3>4
    <3>6. \A q \in rs : q.at <= newest.at
      BY <3>4
    <3> HIDE DEF newest
    <3> QED
      BY <2>2, <3>5, <3>6, RemovalsAssumption DEF RemovalRecords
  <2> QED
    BY <2>1, <2>2
<1>3. \A r \in owed : of[r.who] = [said |-> "waiting", at |-> r.at]
  <2> SUFFICES ASSUME NEW r \in owed PROVE of[r.who] = [said |-> "waiting", at |-> r.at]
    OBVIOUS
  <2>1. r.who \in Members
    BY DEF RemovalRecords
  <2>2. (CHOOSE q \in owed : q.who = r.who) = r
    <3>1. \A q \in owed : q.who = r.who => q = r
      OBVIOUS
    <3> QED
      BY <3>1
  <2> QED
    BY <2>1, <2>2
<1>4. ASSUME NEW p \in Members
      PROVE  of[p] \in Asked /\ (of[p].said # "unsent" => of[p].at \in 1..upTo)
  <2>1. CASE \E r \in owed : r.who = p
    <3>1. PICK r \in owed : r.who = p
      BY <2>1
    <3>2. of[p] = [said |-> "waiting", at |-> r.at] /\ r.at \in 1..MaxRemovals
      BY <1>3, <3>1 DEF RemovalRecords
    <3>3. r.at <= upTo /\ r.at \in 0..MaxRemovals
      BY <1>2, <3>1, <3>2, RemovalsAssumption
    <3> HIDE DEF of, upTo
    <3>4. r.at \in 1..upTo
      BY <1>2, <3>2, <3>3, RemovalsAssumption
    <3> QED
      BY <3>2, <3>3, <3>4 DEF Asked
  <2>2. CASE ~(\E r \in owed : r.who = p)
    <3>1. of[p] = Unowed
      BY <2>2
    <3>2. 0 \in 0..MaxRemovals
      BY RemovalsAssumption
    <3>3. Unowed \in Asked /\ Unowed.said = "unsent"
      BY <3>2 DEF Asked, Unowed
    <3> HIDE DEF of
    <3>4. of[p] \in Asked
      BY <3>1, <3>3
    <3>5. of[p].said = "unsent"
      BY <3>1, <3>3
    <3> QED
      BY <3>4, <3>5
  <2> QED
    BY <2>1, <2>2
<1>5. of \in [Members -> Asked]
  <2>1. of = [p \in Members |-> of[p]]
    OBVIOUS
  <2> HIDE DEF of
  <2> QED
    BY <1>4, <2>1
<1>7. ASSUME NEW r \in rs, r.at >= d[b].from, r.who \notin people
      PROVE  of[r.who].said = "waiting" /\ of[r.who].at = r.at
  <2>1. of[r.who] = [said |-> "waiting", at |-> r.at]
    BY <1>3, <1>7
  <2> HIDE DEF of
  <2> QED
    BY <2>1
<1> HIDE DEF upTo, of, owed, newest
<1>6. [upTo |-> upTo, of |-> of] \in Ask
  BY <1>2, <1>5 DEF Ask
<1>8. /\ [upTo |-> upTo, of |-> of].upTo = upTo
      /\ [upTo |-> upTo, of |-> of].of = of
  OBVIOUS
<1> DEFINE a == [upTo |-> upTo, of |-> of]
<1> HIDE DEF a
<1>9. a.upTo = upTo /\ a.of = of /\ a \in Ask /\ AsksForget(b, rs, d, people) = a
  BY <1>1, <1>6, <1>8 DEF a
<1> QED
  BY <1>2, <1>4, <1>7, <1>9

---------------------------------------------------------------------------
(* Every step keeps it *)

LEMMA DebtChanged ==
    ASSUME NEW x \in Debts, NEW h \in BOOLEAN, NEW f \in 0..MaxRemovals
    PROVE  /\ [x EXCEPT !.handBack = h, !.from = f] \in Debts
           /\ [x EXCEPT !.handBack = h, !.from = f].revoked = x.revoked
           /\ [x EXCEPT !.handBack = h, !.from = f].handBack = h
           /\ [x EXCEPT !.handBack = h, !.from = f].from = f
           /\ [x EXCEPT !.handBack = h] \in Debts
           /\ [x EXCEPT !.handBack = h].revoked = x.revoked
           /\ [x EXCEPT !.handBack = h].handBack = h
           /\ [x EXCEPT !.handBack = h].from = x.from
           /\ [x EXCEPT !.from = f] \in Debts
           /\ [x EXCEPT !.from = f].revoked = x.revoked
           /\ [x EXCEPT !.from = f].handBack = x.handBack
           /\ [x EXCEPT !.from = f].from = f
           /\ \A v \in BOOLEAN :
                /\ [x EXCEPT !.revoked = v] \in Debts
                /\ [x EXCEPT !.revoked = v].revoked = v
                /\ [x EXCEPT !.revoked = v].handBack = x.handBack
                /\ [x EXCEPT !.revoked = v].from = x.from
  BY DEF Debts

LEMMA EntryChanged ==
    ASSUME NEW x \in TreeEntries, NEW v \in BOOLEAN
    PROVE  /\ [x EXCEPT !.fleets = v] \in TreeEntries
           /\ [x EXCEPT !.fleets = v].fleets = v /\ [x EXCEPT !.fleets = v].at = x.at
           /\ [x EXCEPT !.lists = v] \in TreeEntries
           /\ [x EXCEPT !.lists = v].fleets = x.fleets /\ [x EXCEPT !.lists = v].at = x.at
           /\ [x EXCEPT !.at = "offline"] \in TreeEntries
           /\ [x EXCEPT !.at = "offline"].fleets = x.fleets
           /\ [x EXCEPT !.at = "up", !.fleets = v] \in TreeEntries
           /\ [x EXCEPT !.at = "up", !.fleets = v].fleets = v
  BY DEF TreeEntries

\* A box being asked knows what it did, of a list that has only lost removals
\* or gained later ones.
LEMMA StillKnows ==
    ASSUME RemovalsInv, NEW b \in FleetBoxes, asking[b] # NoAsk,
           NEW m \in Nat, m >= made,
           \A r \in removals' : r \in removals \/ (r.at \in Nat /\ r.at > made),
           \A r \in removals' : r \in removals /\ left'[b][r.who] = "inside"
                                  => left[b][r.who] = "inside"
    PROVE  /\ asking[b].upTo <= m
           /\ \A p \in Members : asking[b].of[p].said # "unsent"
                 => asking[b].of[p].at \in 1..asking[b].upTo
           /\ \A r \in removals' : left'[b][r.who] = "inside" /\ r.at <= asking[b].upTo =>
                 /\ asking[b].of[r.who].said \in {"waiting", "refused", "unanswered"}
                 /\ asking[b].of[r.who].at = r.at
<1>0. PICK a : a = asking[b]
  OBVIOUS
<1>1. a \in Ask /\ made \in Nat
  BY <1>0, RemovalsTypesAre DEF RemovalsInv
<1>2. /\ a.upTo <= made
      /\ \A p \in Members : a.of[p].said # "unsent" => a.of[p].at \in 1..a.upTo
      /\ \A r \in removals : left[b][r.who] = "inside" /\ r.at <= a.upTo =>
            /\ a.of[r.who].said \in {"waiting", "refused", "unanswered"}
            /\ a.of[r.who].at = r.at
  BY <1>0 DEF RemovalsInv, AskKnows
<1>3. a.upTo \in Nat
  BY <1>1, RemovalsAssumption DEF Ask
<1>4. a.upTo <= m
  BY <1>1, <1>2, <1>3
<1>5. ASSUME NEW r \in removals', left'[b][r.who] = "inside", r.at <= a.upTo
      PROVE  /\ a.of[r.who].said \in {"waiting", "refused", "unanswered"}
             /\ a.of[r.who].at = r.at
  <2>1. CASE r \in removals
    BY <1>2, <1>5, <2>1
  <2>2. CASE r.at \in Nat /\ r.at > made
    BY <1>1, <1>2, <1>3, <1>5, <2>2
  <2> QED
    BY <2>1, <2>2
<1> QED
  BY <1>0, <1>2, <1>4, <1>5

LEMMA RemovePersonKeeps ==
    ASSUME RemovalsInv, NEW p \in Members, RemovePerson(p)
    PROVE  RemovalsInv'
<1> DEFINE people  == member \ {p}
           demoted == {b \in FleetBoxes : Standing(b) /\ EnrolledBy[b] = p /\ OfTheFleet(b, member)}
           paid    == {b \in demoted : seen[b].at = "up" /\ seen[b].fleets /\ seen[b].lists}
           fleets  == {b \in FleetBoxes : Standing(b) /\ OfTheFleet(b, people)}
           from(b) == IF b \in fleets /\ debts[b].from = 0 THEN made + 1 ELSE debts[b].from
           hand(b) == debts[b].handBack \/ b \in demoted \ paid
           d       == [b \in FleetBoxes |->
                         [debts[b] EXCEPT !.handBack = @ \/ b \in demoted \ paid,
                                          !.from = IF b \in fleets /\ @ = 0 THEN made + 1 ELSE @]]
           new     == [who |-> p, at |-> made + 1]
           noted   == {r \in removals : r.who # p} \cup {new}
           owed    == StillOwed(noted, d, people)
           leaves  == [b \in FleetBoxes |->
                         IF p \notin member \/ ~Standing(b) \/ EnrolledBy[b] = p THEN left[b]
                         ELSE [left[b] EXCEPT ![p] = IF b \in fleets THEN "inside" ELSE "outside"]]
<1>0. /\ made < MaxRemovals /\ made' = made + 1
      /\ member' = people /\ debts' = d /\ removals' = Listed(owed)
      /\ seen' = [b \in FleetBoxes |-> IF seen[b].at = "gone" THEN seen[b]
                                       ELSE [seen[b] EXCEPT !.fleets = OfTheFleet(b, people)]]
      /\ asking' = [b \in FleetBoxes |-> IF b \in fleets /\ seen[b].at = "up"
                                         THEN AsksForget(b, noted, d, people) ELSE asking[b]]
      /\ left' = SaidOf(owed, leaves)
      /\ unasked' = (unasked \cup demoted) \ paid
      /\ UNCHANGED <<notBefore, old, absences>>
  BY DEF RemovePerson
<1>1. /\ member \subseteq Members /\ removals \subseteq RemovalRecords
      /\ debts \in [FleetBoxes -> Debts] /\ seen \in [FleetBoxes -> TreeEntries]
      /\ asking \in [FleetBoxes -> Ask \cup {NoAsk}]
      /\ left \in [FleetBoxes -> Leavings]
      /\ made \in Nat /\ MaxRemovals \in Nat /\ made < MaxRemovals
  BY <1>0, RemovalsTypesAre DEF RemovalsInv
<1>2. ASSUME NEW b \in FleetBoxes
      PROVE  /\ d[b] \in Debts /\ d[b].revoked = debts[b].revoked
             /\ d[b].handBack = hand(b) /\ d[b].from = from(b)
             /\ debts[b].from \in Nat /\ debts[b].from <= made
             /\ from(b) \in 0..MaxRemovals /\ from(b) \in Nat /\ from(b) <= made + 1
  <2>1. debts[b] \in Debts /\ debts[b].from <= made
    BY <1>1 DEF RemovalsInv, RemovalsKnown
  <2>2. debts[b].from \in 0..MaxRemovals /\ hand(b) \in BOOLEAN
    BY <2>1 DEF Debts
  <2>3. from(b) \in 0..MaxRemovals /\ from(b) \in Nat /\ from(b) <= made + 1
    BY <1>1, <2>1, <2>2
  <2>4. d[b] = [debts[b] EXCEPT !.handBack = hand(b), !.from = from(b)]
    OBVIOUS
  <2> HIDE DEF hand, from, d
  <2>7. PICK h \in BOOLEAN, f \in 0..MaxRemovals : h = hand(b) /\ f = from(b)
    BY <2>2, <2>3
  <2>8. d[b] = [debts[b] EXCEPT !.handBack = h, !.from = f]
    BY <2>4, <2>7
  <2>9. /\ [debts[b] EXCEPT !.handBack = h, !.from = f] \in Debts
        /\ [debts[b] EXCEPT !.handBack = h, !.from = f].revoked = debts[b].revoked
        /\ [debts[b] EXCEPT !.handBack = h, !.from = f].handBack = h
        /\ [debts[b] EXCEPT !.handBack = h, !.from = f].from = f
    BY <2>1 DEF Debts
  <2>5. /\ d[b] \in Debts /\ d[b].revoked = debts[b].revoked
        /\ d[b].handBack = hand(b) /\ d[b].from = from(b)
    BY <2>7, <2>8, <2>9
  <2>6. debts[b].from \in Nat
    BY <1>1, <2>2
  <2> QED
    BY <2>1, <2>3, <2>5, <2>6
<1>3. d \in [FleetBoxes -> Debts]
  <2>1. d = [b \in FleetBoxes |-> d[b]]
    OBVIOUS
  <2> HIDE DEF d
  <2> QED
    BY <1>2, <2>1
<1>4. /\ new \in RemovalRecords /\ new.who = p /\ new.at = made + 1
      /\ \A r \in removals : r.at \in Nat /\ r.at <= made
      /\ \A r, q \in removals : r.who = q.who \/ r.at = q.at => r = q
  BY <1>1 DEF RemovalRecords, RemovalsInv, RemovalsKnown
<1>5. /\ noted \subseteq RemovalRecords /\ new \in noted
      /\ \A r \in noted : r = new \/ (r \in removals /\ r.who # p)
      /\ \A r \in removals : r.who # p => r \in noted
  BY <1>1, <1>4
<1>6. IsFiniteSet(noted)
  <2>1. IsFiniteSet({r \in removals : r.who # p})
    BY FS_Subset DEF RemovalsInv, RemovalsKnown
  <2> HIDE DEF new
  <2> QED
    BY <2>1, FS_AddElement
<1> HIDE DEF noted, new
<1>7. /\ \A r \in noted : r.at \in Nat /\ r.at <= made + 1
      /\ \A r, q \in noted : r.who = q.who \/ r.at = q.at => r = q
  BY <1>1, <1>4, <1>5
<1>8. /\ removals' \subseteq noted /\ IsFiniteSet(removals')
      /\ Cardinality(removals') <= RemovalsKept
  <2> HIDE DEF d, people
  <2> QED
    BY <1>0, <1>5, <1>6, <1>7, PrunedList
<1>9. ASSUME NEW b \in FleetBoxes
      PROVE  /\ leaves[b] \in Leavings
             /\ \A q \in Members : q # p => leaves[b][q] = left[b][q]
             /\ leaves[b][p] # "nothing" => Standing(b)
             /\ leaves[b][p] = "inside" =>
                   Standing(b) /\ (b \in fleets \/ left[b][p] = "inside")
  <2>1. left[b] \in Leavings /\ \A q \in Members : left[b][q] # "nothing" => Standing(b)
    BY <1>1 DEF RemovalsInv, LeftByTheRemoved
  <2>2. CASE p \notin member \/ ~Standing(b) \/ EnrolledBy[b] = p
    BY <2>1, <2>2
  <2>3. CASE ~(p \notin member \/ ~Standing(b) \/ EnrolledBy[b] = p)
    <3>1. leaves[b] = [left[b] EXCEPT ![p] = IF b \in fleets THEN "inside" ELSE "outside"]
      BY <2>3
    <3> HIDE DEF leaves, fleets
    <3> QED
      BY <2>1, <2>3, <3>1 DEF Leavings
  <2> QED
    BY <2>2, <2>3
<1>10. leaves \in [FleetBoxes -> Leavings]
  <2>1. leaves = [b \in FleetBoxes |-> leaves[b]]
    OBVIOUS
  <2> HIDE DEF leaves
  <2> QED
    BY <1>9, <2>1
<1> HIDE DEF leaves, owed
<1>11. /\ left' \in [FleetBoxes -> Leavings]
       /\ \A b \in FleetBoxes, q \in Members :
             left'[b][q] # "nothing" => left'[b][q] = leaves[b][q]
  <2>1. /\ SaidOf(owed, leaves) \in [FleetBoxes -> Leavings]
        /\ \A b \in FleetBoxes, q \in Members :
             SaidOf(owed, leaves)[b][q] # "nothing" => SaidOf(owed, leaves)[b][q] = leaves[b][q]
    BY <1>10, SaidOfIs
  <2>2. left' = SaidOf(owed, leaves)
    BY <1>0
  <2> QED
    BY <2>1, <2>2
<1>12. \A b \in FleetBoxes : Standing(b)' <=> Standing(b)
  BY <1>0, <1>2 DEF Standing
<1>13. LeftByTheRemoved'
  <2> SUFFICES ASSUME NEW b \in FleetBoxes, NEW q \in Members, left'[b][q] # "nothing"
               PROVE  q \notin people /\ Standing(b)
    BY <1>0, <1>12 DEF LeftByTheRemoved
  <2>1. leaves[b][q] # "nothing"
    BY <1>11
  <2>2. CASE q = p
    BY <1>9, <2>1, <2>2
  <2>3. CASE q # p
    <3>1. left[b][q] # "nothing"
      BY <1>9, <2>1, <2>3
    <3> QED
      BY <3>1 DEF RemovalsInv, LeftByTheRemoved
  <2> QED
    BY <2>2, <2>3
\* What was left is owed: by the removal just noted, or by the one it was.
<1>14. ASSUME NEW b \in FleetBoxes, NEW q \in Members, left'[b][q] = "inside"
       PROVE  Owes(b, q)'
  <2>1. leaves[b][q] = "inside"
    BY <1>11, <1>14
  <2>2. q \notin people /\ Standing(b)
    BY <1>0, <1>12, <1>13, <1>14 DEF LeftByTheRemoved
  <2>3. \E r \in noted : r.who = q /\ from(b) # 0 /\ from(b) <= r.at
    <3>1. CASE q = p
      <4>1. b \in fleets \/ left[b][p] = "inside"
        BY <1>9, <2>1, <3>1
      <4>2. from(b) # 0
        <5>1. CASE b \in fleets
          BY <1>1, <5>1
        <5>2. CASE left[b][p] = "inside"
          <6>1. debts[b].from # 0
            BY <5>2 DEF RemovalsInv, OwedUntilPaid, Owes
          <6> QED
            BY <6>1
        <5> QED
          BY <4>1, <5>1, <5>2
      <4>3. from(b) <= made + 1
        BY <1>2
      <4> HIDE DEF from
      <4> QED
        BY <1>4, <1>5, <3>1, <4>2, <4>3
    <3>2. CASE q # p
      <4>1. left[b][q] = "inside"
        BY <1>9, <2>1, <3>2
      <4>2. PICK r \in removals : r.who = q /\ r.at >= debts[b].from /\ debts[b].from # 0
        BY <4>1 DEF RemovalsInv, OwedUntilPaid, Owes
      <4>3. from(b) = debts[b].from
        BY <4>2
      <4> HIDE DEF from
      <4>4. r \in noted /\ from(b) # 0 /\ from(b) <= r.at
        BY <1>2, <1>4, <1>5, <3>2, <4>2, <4>3
      <4> QED
        BY <4>2, <4>4
    <3> QED
      BY <3>1, <3>2
  <2>4. PICK r \in noted : r.who = q /\ from(b) # 0 /\ from(b) <= r.at
    BY <2>3
  <2>5. d[b].from = from(b)
    BY <1>2
  <2> HIDE DEF d, from, people
  <2>6. SaidOf(owed, leaves)[b][r.who] # "nothing"
    BY <1>0, <1>14, <2>4
  <2>7. r \in Listed(owed)
    BY <2>2, <2>4, <2>5, <2>6, OwedIsListed DEF owed
  <2> QED
    BY <1>0, <1>2, <2>4, <2>5, <2>7 DEF Owes
\* The tier.
<1>15. \A b \in FleetBoxes : OfTheFleet(b, people) <=> OfTheFleet(b, member) /\ EnrolledBy[b] # p
  BY DEF OfTheFleet
<1>16. seen' \in [FleetBoxes -> TreeEntries]
       /\ \A b \in FleetBoxes : seen'[b].at # "gone" => seen'[b].fleets = OfTheFleet(b, people)
  <2>1. ASSUME NEW b \in FleetBoxes
        PROVE  /\ seen'[b] \in TreeEntries
               /\ seen'[b].at # "gone" => seen'[b].fleets = OfTheFleet(b, people)
    <3>1. seen[b] \in TreeEntries /\ OfTheFleet(b, people) \in BOOLEAN
      BY <1>1 DEF OfTheFleet
    <3>2. PICK v \in BOOLEAN : v = OfTheFleet(b, people)
      BY <3>1
    <3>3. seen'[b] = IF seen[b].at = "gone" THEN seen[b] ELSE [seen[b] EXCEPT !.fleets = v]
      BY <1>0, <3>2
    <3>4. /\ [seen[b] EXCEPT !.fleets = v] \in TreeEntries
          /\ [seen[b] EXCEPT !.fleets = v].fleets = v
      BY <3>1 DEF TreeEntries
    <3>5. seen'[b] \in TreeEntries
      BY <3>1, <3>3, <3>4
    <3>6. seen'[b].at # "gone" => seen'[b].fleets = v
      BY <3>3, <3>4
    <3> QED
      BY <3>2, <3>5, <3>6
  <2>2. seen' = [b \in FleetBoxes |-> seen'[b]]
    BY <1>0
  <2> QED
    BY <2>1, <2>2
<1>17. ASSUME NEW b \in unasked'
       PROVE  b \in FleetBoxes /\ ~OfTheFleet(b, people) /\ debts'[b].handBack
  <2>1. b \in FleetBoxes /\ (b \in unasked \/ b \in demoted \ paid)
    BY <1>0, <1>17 DEF RemovalsInv, RemovalsTypeOK
  <2>2. CASE b \in unasked
    <3>1. ~OfTheFleet(b, member) /\ debts[b].handBack
      BY <2>2 DEF RemovalsInv, TierIsKnown, OwedUntilPaid
    <3> QED
      BY <1>0, <1>2, <1>15, <2>1, <3>1
  <2>3. CASE b \in demoted \ paid
    BY <1>0, <1>2, <1>15, <2>1, <2>3
  <2> QED
    BY <2>1, <2>2, <2>3
\* What is asked.
<1>18. ASSUME NEW b \in FleetBoxes
       PROVE  /\ asking'[b] \in Ask \cup {NoAsk}
              /\ asking'[b] # NoAsk =>
                   /\ asking'[b].upTo <= made + 1
                   /\ \A q \in Members : asking'[b].of[q].said # "unsent"
                                          => asking'[b].of[q].at \in 1..asking'[b].upTo
                   /\ \A r \in removals' :
                         left'[b][r.who] = "inside" /\ r.at <= asking'[b].upTo =>
                         /\ asking'[b].of[r.who].said \in {"waiting", "refused", "unanswered"}
                         /\ asking'[b].of[r.who].at = r.at
  <2>1. CASE asking'[b] = asking[b]
    <3>1. \A r \in removals' : r \in removals \/ (r.at \in Nat /\ r.at > made)
      BY <1>1, <1>4, <1>5, <1>8
    <3>2. \A r \in removals' : r \in removals /\ left'[b][r.who] = "inside"
                                   => left[b][r.who] = "inside"
      <4> SUFFICES ASSUME NEW r \in removals', r \in removals, left'[b][r.who] = "inside"
                   PROVE  left[b][r.who] = "inside"
        OBVIOUS
      <4>1. r.who \in Members /\ r.who # p
        BY <1>1, <1>4, <1>5, <1>8 DEF RemovalRecords
      <4> QED
        BY <1>9, <1>11, <4>1
    <3>3. made + 1 \in Nat /\ made + 1 >= made
      BY <1>1
    <3>4. asking[b] # NoAsk =>
                   /\ asking[b].upTo <= made + 1
                   /\ \A q \in Members : asking[b].of[q].said # "unsent"
                                          => asking[b].of[q].at \in 1..asking[b].upTo
                   /\ \A r \in removals' :
                         left'[b][r.who] = "inside" /\ r.at <= asking[b].upTo =>
                         /\ asking[b].of[r.who].said \in {"waiting", "refused", "unanswered"}
                         /\ asking[b].of[r.who].at = r.at
      BY <3>1, <3>2, <3>3, StillKnows
    <3> QED
      BY <1>1, <2>1, <3>4
  <2>2. CASE asking'[b] # asking[b]
    <3>1. asking'[b] = AsksForget(b, noted, d, people) /\ asking[b] = NoAsk /\ d[b].from # 0
      BY <1>0, <2>2 DEF AsksForget
    <3>2. d[b].from \in Nat /\ d[b].from <= made + 1
      <4> HIDE DEF d, from
      <4> QED
        BY <1>2
    <3>3. \A r \in removals' : left'[b][r.who] = "inside"
              => r \in noted /\ r.at >= d[b].from /\ r.who \notin people
      <4> SUFFICES ASSUME NEW r \in removals', left'[b][r.who] = "inside"
                   PROVE  r \in noted /\ r.at >= d[b].from /\ r.who \notin people
        OBVIOUS
      <4>1. r \in noted /\ r.who \in Members
        BY <1>5, <1>8 DEF RemovalRecords
      <4>2. Owes(b, r.who)'
        BY <1>14, <4>1
      <4>3. PICK q \in removals' : q.who = r.who /\ q.at >= debts'[b].from
        BY <4>2 DEF Owes
      <4>4. q = r
        BY <1>7, <1>8, <4>1, <4>3
      <4>5. r.who \notin people
        BY <1>0, <1>13, <4>1 DEF LeftByTheRemoved
      <4> QED
        BY <1>0, <4>1, <4>3, <4>4, <4>5
    <3>4. made + 1 \in Nat /\ made + 1 <= MaxRemovals
      BY <1>1
    <3> HIDE DEF d, people
    <3>5. /\ AsksForget(b, noted, d, people) \in Ask
          /\ AsksForget(b, noted, d, people).upTo <= made + 1
          /\ \A q \in Members : AsksForget(b, noted, d, people).of[q].said # "unsent"
                => AsksForget(b, noted, d, people).of[q].at \in 1..AsksForget(b, noted, d, people).upTo
          /\ \A r \in noted : r.at >= d[b].from /\ r.who \notin people =>
                 /\ AsksForget(b, noted, d, people).of[r.who].said = "waiting"
                 /\ AsksForget(b, noted, d, people).of[r.who].at = r.at
      BY <1>5, <1>6, <1>7, <3>1, <3>2, <3>4, AskedNow
    <3> QED
      BY <3>1, <3>3, <3>5
  <2> QED
    BY <2>1, <2>2
<1>19. asking' \in [FleetBoxes -> Ask \cup {NoAsk}]
  <2>1. asking' = [b \in FleetBoxes |-> asking'[b]]
    BY <1>0
  <2> QED
    BY <1>18, <2>1
<1>20. RemovalsTypeOK'
  <2>1. removals' \subseteq RemovalRecords /\ member' \subseteq Members
    BY <1>0, <1>1, <1>5, <1>8
  <2>4. made' \in 0..MaxRemovals
    <3>1. PICK m \in Nat : m = made /\ m < MaxRemovals
      BY <1>1
    <3>2. m + 1 \in 0..MaxRemovals
      BY <1>1, <3>1
    <3>3. made' = m + 1
      BY <1>0, <3>1
    <3> QED
      BY <3>2, <3>3
  <2>2. unasked' \subseteq FleetBoxes
    BY <1>17
  <2>3. UNCHANGED <<notBefore, old, absences>> /\ debts' \in [FleetBoxes -> Debts]
    BY <1>0, <1>3
  <2> QED
    BY <1>8, <1>11, <1>16, <1>19, <2>1, <2>2, <2>3, <2>4
       DEF RemovalsInv, RemovalsTypeOK, RemovalRecords, Debts, TreeEntries, Leavings
<1>21. RemovalsKnown'
  <2>1. debts' = d /\ made' = made + 1
    BY <1>0
  <2> HIDE DEF d, from
  <2>2. \A b \in FleetBoxes : debts'[b].from <= made'
    BY <1>2, <2>1
  <2> QED
    BY <1>7, <1>8, <2>1, <2>2 DEF RemovalsKnown
<1>22. AskKnows'
  BY <1>0, <1>18 DEF AskKnows
<1>23. TierIsKnown' /\ OwedUntilPaid'
  <2>1. member' = people
    BY <1>0
  <2> HIDE DEF people
  <2>4. \A b \in FleetBoxes : OfTheFleet(b, member)' = OfTheFleet(b, people)
    BY <2>1 DEF OfTheFleet
  <2>2. TierIsKnown'
    BY <1>16, <1>17, <2>4 DEF TierIsKnown
  <2>3. OwedUntilPaid'
    BY <1>14, <1>17 DEF OwedUntilPaid
  <2> QED
    BY <2>2, <2>3
<1> QED
  BY <1>13, <1>20, <1>21, <1>22, <1>23 DEF RemovalsInv

\* While the list and the moments owed from stay, so does what is owed.
LEMMA ListKept ==
    ASSUME RemovalsInv, removals' = removals, made' = made,
           \A b \in FleetBoxes : debts'[b].from = debts[b].from,
           \A b \in FleetBoxes, q \in Members : left'[b][q] = "inside" => left[b][q] = "inside"
    PROVE  /\ RemovalsKnown'
           /\ \A b \in FleetBoxes, q \in Members : left'[b][q] = "inside" => Owes(b, q)'
           /\ \A b \in FleetBoxes : asking[b] # NoAsk =>
                /\ asking[b].upTo <= made'
                /\ \A q \in Members : asking[b].of[q].said # "unsent"
                      => asking[b].of[q].at \in 1..asking[b].upTo
                /\ \A r \in removals' : left'[b][r.who] = "inside" /\ r.at <= asking[b].upTo =>
                      /\ asking[b].of[r.who].said \in {"waiting", "refused", "unanswered"}
                      /\ asking[b].of[r.who].at = r.at
<1>1. RemovalsKnown'
  BY DEF RemovalsInv, RemovalsKnown
<1>2. ASSUME NEW b \in FleetBoxes, NEW q \in Members, left'[b][q] = "inside" PROVE Owes(b, q)'
  <2>1. Owes(b, q)
    BY <1>2 DEF RemovalsInv, OwedUntilPaid
  <2> QED
    BY <2>1 DEF Owes
<1>3. \A r \in removals : r.who \in Members
  BY RemovalsTypesAre DEF RemovalsInv, RemovalRecords
<1>4. ASSUME NEW b \in FleetBoxes, asking[b] # NoAsk
      PROVE  /\ asking[b].upTo <= made'
             /\ \A q \in Members : asking[b].of[q].said # "unsent"
                   => asking[b].of[q].at \in 1..asking[b].upTo
             /\ \A r \in removals' : left'[b][r.who] = "inside" /\ r.at <= asking[b].upTo =>
                   /\ asking[b].of[r.who].said \in {"waiting", "refused", "unanswered"}
                   /\ asking[b].of[r.who].at = r.at
  <2>1. \A r \in removals' : left'[b][r.who] = "inside" => left[b][r.who] = "inside"
    BY <1>3
  <2>2. asking[b].upTo <= made'
    BY <1>4 DEF RemovalsInv, AskKnows
  <2> QED
    BY <1>4, <2>1, <2>2 DEF RemovalsInv, AskKnows
<1> QED
  BY <1>1, <1>2, <1>4

LEMMA SignsInAgainKeeps ==
    ASSUME RemovalsInv, NEW p \in Members, SignsInAgain(p)
    PROVE  RemovalsInv'
<1> DEFINE theirs == {b \in FleetBoxes : OfTheFleet(b, member \cup {p})}
<1>0. /\ p \notin member /\ member' = member \cup {p}
      /\ left' = [b \in FleetBoxes |-> [left[b] EXCEPT ![p] = "nothing"]]
      /\ removals' = removals /\ asking' = asking /\ made' = made
      /\ notBefore' = notBefore /\ old' = old /\ absences' = absences
  BY DEF SignsInAgain
<1>1. /\ member \subseteq Members
      /\ debts \in [FleetBoxes -> Debts] /\ seen \in [FleetBoxes -> TreeEntries]
      /\ left \in [FleetBoxes -> Leavings] /\ unasked \subseteq FleetBoxes
  BY RemovalsTypesAre DEF RemovalsInv, RemovalsTypeOK
<1>2. \A b \in FleetBoxes : b \in theirs <=> OfTheFleet(b, member)'
  BY <1>0 DEF OfTheFleet
<1>3. /\ debts' \in [FleetBoxes -> Debts] /\ seen' \in [FleetBoxes -> TreeEntries]
      /\ unasked' \subseteq FleetBoxes
      /\ \A b \in FleetBoxes :
            /\ debts'[b].revoked = debts[b].revoked /\ debts'[b].from = debts[b].from
            /\ seen'[b].at # "gone" => seen'[b].fleets = (b \in theirs)
      /\ \A b \in unasked' : b \notin theirs /\ debts'[b].handBack
  <2>1. CASE p \in Admins
    <3>0. /\ debts' = [b \in FleetBoxes |-> [debts[b] EXCEPT !.handBack = @ /\ b \notin theirs]]
          /\ seen' = [b \in FleetBoxes |-> IF seen[b].at = "gone" THEN seen[b]
                                           ELSE [seen[b] EXCEPT !.fleets = b \in theirs]]
          /\ unasked' = unasked \ theirs
      BY <2>1 DEF SignsInAgain
    <3>1. ASSUME NEW b \in FleetBoxes
          PROVE  /\ debts'[b] \in Debts /\ debts'[b].revoked = debts[b].revoked
                 /\ debts'[b].from = debts[b].from
                 /\ debts'[b].handBack = (debts[b].handBack /\ b \notin theirs)
      <4>1. PICK h \in BOOLEAN : h = (debts[b].handBack /\ b \notin theirs)
        OBVIOUS
      <4>2. debts'[b] = [debts[b] EXCEPT !.handBack = h] /\ debts[b] \in Debts
        BY <1>1, <3>0, <4>1
      <4>3. /\ [debts[b] EXCEPT !.handBack = h] \in Debts
            /\ [debts[b] EXCEPT !.handBack = h].revoked = debts[b].revoked
            /\ [debts[b] EXCEPT !.handBack = h].from = debts[b].from
            /\ [debts[b] EXCEPT !.handBack = h].handBack = h
        BY <4>2 DEF Debts
      <4> QED
        BY <4>1, <4>2, <4>3
    <3>2. ASSUME NEW b \in FleetBoxes
          PROVE  /\ seen'[b] \in TreeEntries
                 /\ seen'[b].at # "gone" => seen'[b].fleets = (b \in theirs)
      <4>1. PICK v \in BOOLEAN : v = (b \in theirs)
        <5> HIDE DEF theirs
        <5>1. (b \in theirs) \in BOOLEAN
          OBVIOUS
        <5> QED
          BY <5>1
      <4>2. seen'[b] = (IF seen[b].at = "gone" THEN seen[b] ELSE [seen[b] EXCEPT !.fleets = v])
            /\ seen[b] \in TreeEntries
        BY <1>1, <3>0, <4>1
      <4>3. /\ [seen[b] EXCEPT !.fleets = v] \in TreeEntries
            /\ [seen[b] EXCEPT !.fleets = v].fleets = v
        BY <4>2 DEF TreeEntries
      <4> QED
        BY <4>1, <4>2, <4>3
    <3>3. debts' = [b \in FleetBoxes |-> debts'[b]] /\ seen' = [b \in FleetBoxes |-> seen'[b]]
      BY <3>0
    <3>4. debts' \in [FleetBoxes -> Debts] /\ seen' \in [FleetBoxes -> TreeEntries]
      BY <3>1, <3>2, <3>3
    <3>5. \A b \in unasked' : b \notin theirs /\ debts'[b].handBack
      <4> SUFFICES ASSUME NEW b \in unasked' PROVE b \notin theirs /\ debts'[b].handBack
        OBVIOUS
      <4>1. b \in unasked /\ b \notin theirs /\ b \in FleetBoxes
        BY <1>1, <3>0
      <4>2. debts[b].handBack
        BY <4>1 DEF RemovalsInv, OwedUntilPaid
      <4> QED
        BY <3>1, <4>1, <4>2
    <3>6. unasked' \subseteq FleetBoxes
      BY <1>1, <3>0
    <3> QED
      BY <3>1, <3>2, <3>4, <3>5, <3>6
  <2>2. CASE p \notin Admins
    <3>1. debts' = debts /\ seen' = seen /\ unasked' = unasked
      BY <2>2 DEF SignsInAgain
    <3>2. \A b \in FleetBoxes : b \in theirs <=> OfTheFleet(b, member)
      BY <2>2 DEF OfTheFleet
    <3>3. \A b \in FleetBoxes : seen[b].at # "gone" => seen[b].fleets = (b \in theirs)
      <4> SUFFICES ASSUME NEW b \in FleetBoxes, seen[b].at # "gone"
                   PROVE  seen[b].fleets = (b \in theirs)
        OBVIOUS
      <4>1. seen[b].fleets = OfTheFleet(b, member)
        BY DEF RemovalsInv, TierIsKnown
      <4>2. OfTheFleet(b, member) = (b \in theirs)
        BY <3>2 DEF OfTheFleet
      <4> QED
        BY <4>1, <4>2
    <3>4. \A b \in unasked : b \notin theirs /\ debts[b].handBack
      BY <1>1, <3>2 DEF RemovalsInv, TierIsKnown, OwedUntilPaid
    <3> QED
      BY <1>1, <3>1, <3>3, <3>4
  <2> QED
    BY <2>1, <2>2
<1>4. ASSUME NEW b \in FleetBoxes
      PROVE  /\ left'[b] \in Leavings /\ left'[b][p] = "nothing"
             /\ \A q \in Members : q # p => left'[b][q] = left[b][q]
  <2>1. left'[b] = [left[b] EXCEPT ![p] = "nothing"] /\ left[b] \in Leavings
    BY <1>0, <1>1
  <2> QED
    BY <2>1 DEF Leavings
<1>5. left' \in [FleetBoxes -> Leavings]
  <2>1. left' = [b \in FleetBoxes |-> left'[b]]
    BY <1>0
  <2> QED
    BY <1>4, <2>1
<1> HIDE DEF theirs
<1>6. RemovalsTypeOK'
  <2>1. member' \subseteq Members
    BY <1>0, <1>1
  <2> QED
    BY <1>0, <1>3, <1>5, <2>1 DEF RemovalsInv, RemovalsTypeOK, Debts, TreeEntries, Leavings
<1>7. LeftByTheRemoved'
  BY <1>0, <1>3, <1>4 DEF RemovalsInv, LeftByTheRemoved, Standing
<1>8. TierIsKnown'
  <2>1. \A b \in FleetBoxes : OfTheFleet(b, member)' = (b \in theirs)
    BY <1>2 DEF OfTheFleet
  <2> QED
    BY <1>3, <2>1 DEF TierIsKnown
<1>9. RemovalsKnown' /\ AskKnows' /\ OwedUntilPaid'
  <2>1. \A b \in FleetBoxes, q \in Members : left'[b][q] = "inside" => left[b][q] = "inside"
    BY <1>4
  <2>2. \A b \in FleetBoxes : debts'[b].from = debts[b].from
    BY <1>3
  <2>3. /\ RemovalsKnown'
        /\ \A b \in FleetBoxes, q \in Members : left'[b][q] = "inside" => Owes(b, q)'
        /\ \A b \in FleetBoxes : asking[b] # NoAsk =>
             /\ asking[b].upTo <= made'
             /\ \A q \in Members : asking[b].of[q].said # "unsent"
                   => asking[b].of[q].at \in 1..asking[b].upTo
             /\ \A r \in removals' : left'[b][r.who] = "inside" /\ r.at <= asking[b].upTo =>
                   /\ asking[b].of[r.who].said \in {"waiting", "refused", "unanswered"}
                   /\ asking[b].of[r.who].at = r.at
    BY <1>0, <2>1, <2>2, ListKept
  <2>4. AskKnows'
    BY <1>0, <2>3 DEF AskKnows
  <2>5. OwedUntilPaid'
    BY <1>3, <2>3 DEF OwedUntilPaid
  <2> QED
    BY <2>3, <2>4, <2>5
<1> QED
  BY <1>6, <1>7, <1>8, <1>9 DEF RemovalsInv

\* A step that touches no record of who is removed, what is owed or what is
\* left, and begins no ask.
LEMMA RecordsKept ==
    ASSUME RemovalsInv, UNCHANGED fleetDebts,
           seen' \in [FleetBoxes -> TreeEntries],
           \A b \in FleetBoxes : seen'[b].at # "gone" => seen'[b].fleets = OfTheFleet(b, member),
           asking' \in [FleetBoxes -> Ask \cup {NoAsk}],
           \A b \in FleetBoxes : asking'[b] = asking[b] \/ asking'[b] = NoAsk,
           notBefore' \in [FleetBoxes -> {"now", "later", "reconnect"}],
           old' \in SUBSET FleetBoxes, absences' \in 0..MaxAbsences
    PROVE  RemovalsInv'
<1>0. /\ member' = member /\ removals' = removals /\ debts' = debts /\ left' = left
      /\ unasked' = unasked /\ made' = made
  BY DEF fleetDebts
<1>1. RemovalsTypeOK'
  BY <1>0 DEF RemovalsInv, RemovalsTypeOK, TreeEntries
<1>2. LeftByTheRemoved'
  BY <1>0 DEF RemovalsInv, LeftByTheRemoved, Standing
<1>3. TierIsKnown'
  <2>1. \A b \in FleetBoxes : OfTheFleet(b, member)' = OfTheFleet(b, member)
    BY <1>0 DEF OfTheFleet
  <2>2. \A b \in unasked : b \in FleetBoxes /\ ~OfTheFleet(b, member)
    BY DEF RemovalsInv, RemovalsTypeOK, TierIsKnown
  <2> QED
    BY <1>0, <2>1, <2>2 DEF TierIsKnown
<1>4. /\ RemovalsKnown'
      /\ \A b \in FleetBoxes, q \in Members : left'[b][q] = "inside" => Owes(b, q)'
      /\ \A b \in FleetBoxes : asking[b] # NoAsk =>
           /\ asking[b].upTo <= made'
           /\ \A q \in Members : asking[b].of[q].said # "unsent"
                 => asking[b].of[q].at \in 1..asking[b].upTo
           /\ \A r \in removals' : left'[b][r.who] = "inside" /\ r.at <= asking[b].upTo =>
                 /\ asking[b].of[r.who].said \in {"waiting", "refused", "unanswered"}
                 /\ asking[b].of[r.who].at = r.at
  BY <1>0, ListKept
<1>5. AskKnows'
  BY <1>4 DEF AskKnows
<1>6. OwedUntilPaid'
  BY <1>0, <1>4 DEF RemovalsInv, OwedUntilPaid
<1> QED
  BY <1>1, <1>2, <1>3, <1>4, <1>5, <1>6 DEF RemovalsInv

LEMMA BoxReturnsKeeps ==
    ASSUME RemovalsInv, NEW b \in FleetBoxes, BoxReturns(b)
    PROVE  RemovalsInv'
<1>1. /\ seen \in [FleetBoxes -> TreeEntries] /\ asking \in [FleetBoxes -> Ask \cup {NoAsk}]
      /\ notBefore \in [FleetBoxes -> {"now", "later", "reconnect"}]
      /\ old \in SUBSET FleetBoxes /\ absences \in 0..MaxAbsences
  BY RemovalsTypesAre DEF RemovalsInv, RemovalsTypeOK
<1>2. PICK v \in BOOLEAN : v = OfTheFleet(b, member)
  <2>1. OfTheFleet(b, member) \in BOOLEAN
    BY DEF OfTheFleet
  <2> QED
    BY <2>1
<1>3. /\ seen' = [seen EXCEPT ![b].at = "up", ![b].fleets = v]
      /\ notBefore' = [notBefore EXCEPT ![b] = "now"] /\ old' \in {old, old \ {b}}
      /\ UNCHANGED fleetDebts /\ asking' = asking /\ absences' = absences
  BY <1>2 DEF BoxReturns
<1>4. seen' \in [FleetBoxes -> TreeEntries] /\ seen'[b].fleets = v
  <2>1. PICK x : x = [seen[b] EXCEPT !.at = "up", !.fleets = v]
    OBVIOUS
  <2>2. x \in TreeEntries /\ x.fleets = v
    BY <1>1, <2>1 DEF TreeEntries
  <2>3. seen' = [seen EXCEPT ![b] = x]
    BY <1>1, <1>3, <2>1
  <2> QED
    BY <1>1, <2>2, <2>3
<1>5. \A c \in FleetBoxes : c # b => seen'[c] = seen[c]
  BY <1>1, <1>3
<1>6. \A c \in FleetBoxes : seen'[c].at # "gone" => seen'[c].fleets = OfTheFleet(c, member)
  BY <1>2, <1>4, <1>5 DEF RemovalsInv, TierIsKnown
<1>7. /\ notBefore' \in [FleetBoxes -> {"now", "later", "reconnect"}]
      /\ old' \in SUBSET FleetBoxes
  BY <1>1, <1>3
<1> QED
  BY <1>1, <1>3, <1>4, <1>6, <1>7, RecordsKept

LEMMA BoxLeavesKeeps ==
    ASSUME RemovalsInv, NEW b \in FleetBoxes, BoxLeaves(b)
    PROVE  RemovalsInv'
<1>1. /\ seen \in [FleetBoxes -> TreeEntries] /\ asking \in [FleetBoxes -> Ask \cup {NoAsk}]
      /\ notBefore \in [FleetBoxes -> {"now", "later", "reconnect"}]
      /\ old \in SUBSET FleetBoxes /\ absences \in 0..MaxAbsences
  BY RemovalsTypesAre DEF RemovalsInv, RemovalsTypeOK
<1>2. /\ seen[b].at = "up" /\ seen' = [seen EXCEPT ![b].at = "offline"]
      /\ UNCHANGED fleetDebts /\ asking' = asking /\ notBefore' = notBefore /\ old' = old
      /\ absences < MaxAbsences /\ absences' = absences + 1
  BY DEF BoxLeaves, Away
<1>3. seen' \in [FleetBoxes -> TreeEntries] /\ \A c \in FleetBoxes : seen'[c].fleets = seen[c].fleets
  BY <1>1, <1>2 DEF TreeEntries
<1>4. \A c \in FleetBoxes : seen'[c].at # "gone" => seen[c].at # "gone"
  BY <1>1, <1>2 DEF TreeEntries
<1>5. \A c \in FleetBoxes : seen'[c].at # "gone" => seen'[c].fleets = OfTheFleet(c, member)
  BY <1>3, <1>4 DEF RemovalsInv, TierIsKnown
<1>6. absences' \in 0..MaxAbsences
  <2>1. PICK m \in Nat : m = absences /\ m < MaxAbsences
    BY <1>1, <1>2, RemovalsAssumption
  <2>2. m + 1 \in 0..MaxAbsences
    BY <2>1, RemovalsAssumption
  <2> QED
    BY <1>2, <2>1, <2>2
<1> QED
  BY <1>1, <1>2, <1>3, <1>5, <1>6, RecordsKept

LEMMA MayAskAgainKeeps ==
    ASSUME RemovalsInv, NEW b \in FleetBoxes, MayAskAgain(b)
    PROVE  RemovalsInv'
<1>1. /\ seen \in [FleetBoxes -> TreeEntries] /\ asking \in [FleetBoxes -> Ask \cup {NoAsk}]
      /\ notBefore \in [FleetBoxes -> {"now", "later", "reconnect"}]
      /\ old \in SUBSET FleetBoxes /\ absences \in 0..MaxAbsences
  BY RemovalsTypesAre DEF RemovalsInv, RemovalsTypeOK
<1>2. /\ UNCHANGED fleetDebts /\ seen' = seen /\ asking' = asking /\ old' = old
      /\ absences' = absences
      /\ notBefore' \in [FleetBoxes -> {"now", "later", "reconnect"}]
  BY <1>1 DEF MayAskAgain
<1>3. \A c \in FleetBoxes : seen[c].at # "gone" => seen[c].fleets = OfTheFleet(c, member)
  BY DEF RemovalsInv, TierIsKnown
<1> QED
  BY <1>1, <1>2, <1>3, RecordsKept

LEMMA FleetRebuiltKeeps ==
    ASSUME RemovalsInv, FleetRebuilt
    PROVE  RemovalsInv'
<1>1. seen \in [FleetBoxes -> TreeEntries] /\ old \in SUBSET FleetBoxes /\ absences \in 0..MaxAbsences
  BY RemovalsTypesAre DEF RemovalsInv, RemovalsTypeOK
<1>2. /\ asking' = [b \in FleetBoxes |-> NoAsk] /\ notBefore' = [b \in FleetBoxes |-> "now"]
      /\ seen' = [b \in FleetBoxes |->
                    IF seen[b].at = "up" THEN [seen[b] EXCEPT !.lists = FALSE] ELSE NotSeen]
      /\ UNCHANGED fleetDebts /\ old' = old
      /\ absences < MaxAbsences /\ absences' = absences + 1
  BY DEF FleetRebuilt, Away
<1>3. ASSUME NEW b \in FleetBoxes
      PROVE  /\ seen'[b] \in TreeEntries
             /\ seen'[b].at # "gone" => seen[b].at # "gone" /\ seen'[b].fleets = seen[b].fleets
  <2>1. CASE seen[b].at = "up"
    <3>1. seen'[b] = [seen[b] EXCEPT !.lists = FALSE] /\ seen[b] \in TreeEntries
      BY <1>1, <1>2, <2>1
    <3>2. /\ [seen[b] EXCEPT !.lists = FALSE] \in TreeEntries
          /\ [seen[b] EXCEPT !.lists = FALSE].fleets = seen[b].fleets
      BY <3>1 DEF TreeEntries
    <3> QED
      BY <2>1, <3>1, <3>2
  <2>2. CASE seen[b].at # "up"
    <3>1. seen'[b] = NotSeen
      BY <1>2, <2>2
    <3> QED
      BY <3>1 DEF NotSeen, TreeEntries
  <2> QED
    BY <2>1, <2>2
<1>4. seen' \in [FleetBoxes -> TreeEntries]
  <2>1. seen' = [b \in FleetBoxes |-> seen'[b]]
    BY <1>2
  <2> QED
    BY <1>3, <2>1
<1>5. \A c \in FleetBoxes : seen'[c].at # "gone" => seen'[c].fleets = OfTheFleet(c, member)
  BY <1>3 DEF RemovalsInv, TierIsKnown
<1>6. absences' \in 0..MaxAbsences
  <2>1. PICK m \in Nat : m = absences /\ m < MaxAbsences
    BY <1>1, <1>2, RemovalsAssumption
  <2>2. m + 1 \in 0..MaxAbsences
    BY <2>1, RemovalsAssumption
  <2> QED
    BY <1>2, <2>1, <2>2
<1>7. /\ asking' \in [FleetBoxes -> Ask \cup {NoAsk}]
      /\ \A b \in FleetBoxes : asking'[b] = asking[b] \/ asking'[b] = NoAsk
      /\ notBefore' \in [FleetBoxes -> {"now", "later", "reconnect"}]
      /\ old' \in SUBSET FleetBoxes
  BY <1>1, <1>2
<1> QED
  BY <1>2, <1>4, <1>5, <1>6, <1>7, RecordsKept

\* A box's enrolment is revoked or given again: what it owes stays.
LEMMA EnrolmentKeeps ==
    ASSUME RemovalsInv, NEW b \in FleetBoxes, BoxRevoked(b) \/ BoxReadmitted(b)
    PROVE  RemovalsInv'
<1>1. /\ debts \in [FleetBoxes -> Debts] /\ seen \in [FleetBoxes -> TreeEntries]
      /\ left \in [FleetBoxes -> Leavings] /\ absences \in 0..MaxAbsences
  BY RemovalsTypesAre DEF RemovalsInv, RemovalsTypeOK
<1>2. /\ member' = member /\ removals' = removals /\ unasked' = unasked /\ made' = made
      /\ asking' = asking /\ notBefore' = notBefore /\ old' = old
  BY DEF BoxRevoked, BoxReadmitted
<1>3. PICK v \in BOOLEAN : /\ debts' = [debts EXCEPT ![b].revoked = v]
                           /\ v => BoxRevoked(b)
                           /\ ~v => BoxReadmitted(b)
  BY DEF BoxRevoked, BoxReadmitted
<1>4. /\ debts' \in [FleetBoxes -> Debts]
      /\ \A c \in FleetBoxes : debts'[c].from = debts[c].from /\ debts'[c].handBack = debts[c].handBack
      /\ \A c \in FleetBoxes : c # b => debts'[c] = debts[c]
  BY <1>1, <1>3 DEF Debts
<1>7. /\ RemovalsTypeOK' /\ LeftByTheRemoved' /\ TierIsKnown'
      /\ \A c \in FleetBoxes, q \in Members : left'[c][q] = "inside" => left[c][q] = "inside"
  <2>1. CASE v
    <3>1. /\ seen' = [seen EXCEPT ![b] = NotSeen]
          /\ left' = [left EXCEPT ![b] = [q \in Members |-> "nothing"]]
          /\ absences < MaxAbsences /\ absences' = absences + 1
      BY <1>3, <2>1 DEF BoxRevoked, Away
    <3>2. NotSeen \in TreeEntries /\ NotSeen.at = "gone"
      BY DEF NotSeen, TreeEntries
    <3>3. seen' \in [FleetBoxes -> TreeEntries]
          /\ \A c \in FleetBoxes : seen'[c].at # "gone" => seen'[c] = seen[c]
      BY <1>1, <3>1, <3>2
    <3>4. /\ left' \in [FleetBoxes -> Leavings]
          /\ \A q \in Members : left'[b][q] = "nothing"
          /\ \A c \in FleetBoxes : c # b => left'[c] = left[c]
      BY <1>1, <3>1 DEF Leavings
    <3>5. absences' \in 0..MaxAbsences
      <4>1. PICK m \in Nat : m = absences /\ m < MaxAbsences
        BY <1>1, <3>1, RemovalsAssumption
      <4>2. m + 1 \in 0..MaxAbsences
        BY <4>1, RemovalsAssumption
      <4> QED
        BY <3>1, <4>1, <4>2
    <3>6. RemovalsTypeOK'
      BY <1>2, <1>4, <3>3, <3>4, <3>5 DEF RemovalsInv, RemovalsTypeOK, Debts, TreeEntries,
         Leavings
    <3>7. LeftByTheRemoved'
      BY <1>2, <1>4, <3>4 DEF RemovalsInv, LeftByTheRemoved, Standing
    <3>8. TierIsKnown'
      BY <1>2, <3>3 DEF RemovalsInv, TierIsKnown, OfTheFleet
    <3>9. \A c \in FleetBoxes, q \in Members : left'[c][q] = "inside" => left[c][q] = "inside"
      BY <3>4
    <3> QED
      BY <3>6, <3>7, <3>8, <3>9
  <2>2. CASE ~v
    <3>1. seen' = seen /\ left' = left /\ absences' = absences
      BY <1>3, <2>2 DEF BoxReadmitted
    <3>2. RemovalsTypeOK'
      BY <1>2, <1>4, <3>1 DEF RemovalsInv, RemovalsTypeOK, Debts
    <3>3. ~debts'[b].revoked
      BY <1>1, <1>3, <2>2 DEF Debts
    <3>4. LeftByTheRemoved'
      BY <1>2, <1>4, <3>1, <3>3 DEF RemovalsInv, LeftByTheRemoved, Standing
    <3>5. TierIsKnown'
      BY <1>2, <3>1 DEF RemovalsInv, TierIsKnown, OfTheFleet
    <3> QED
      BY <3>1, <3>2, <3>4, <3>5
  <2> QED
    BY <2>1, <2>2
<1>8. /\ RemovalsKnown'
      /\ \A c \in FleetBoxes, q \in Members : left'[c][q] = "inside" => Owes(c, q)'
      /\ \A c \in FleetBoxes : asking[c] # NoAsk =>
           /\ asking[c].upTo <= made'
           /\ \A q \in Members : asking[c].of[q].said # "unsent"
                 => asking[c].of[q].at \in 1..asking[c].upTo
           /\ \A r \in removals' : left'[c][r.who] = "inside" /\ r.at <= asking[c].upTo =>
                 /\ asking[c].of[r.who].said \in {"waiting", "refused", "unanswered"}
                 /\ asking[c].of[r.who].at = r.at
  BY <1>2, <1>4, <1>7, ListKept
<1>9. AskKnows'
  BY <1>2, <1>8 DEF AskKnows
<1>10. OwedUntilPaid'
  <2>1. \A c \in unasked : c \in FleetBoxes /\ debts[c].handBack
    BY DEF RemovalsInv, RemovalsTypeOK, OwedUntilPaid
  <2> QED
    BY <1>2, <1>4, <1>8, <2>1 DEF OwedUntilPaid
<1> QED
  BY <1>7, <1>8, <1>9, <1>10 DEF RemovalsInv

\* A box answers for one of those it was asked about, or an answer is given up:
\* an answer that is a yes comes after the box has acted.
LEMMA AnswerKeeps ==
    ASSUME RemovalsInv, NEW b \in FleetBoxes, NEW p \in Members,
           NEW answer \in {"did", "done", "refused", "unanswered"}, AskSays(b, p, answer),
           AskedOf(b, p, "waiting") \/ AskedOf(b, p, "did"),
           \/ answer \in {"refused", "unanswered"} /\ left' = left
           \/ answer = "done" /\ AskedOf(b, p, "did") /\ left' = left
           \/ answer = "did" /\ left' = [left EXCEPT ![b][p] = "nothing"],
           UNCHANGED <<member, removals, debts, unasked, made, seen, notBefore, old, absences>>
    PROVE  RemovalsInv'
<1>1. /\ asking \in [FleetBoxes -> Ask \cup {NoAsk}] /\ left \in [FleetBoxes -> Leavings]
      /\ removals \subseteq RemovalRecords
  BY RemovalsTypesAre DEF RemovalsInv
<1>2. asking[b] # NoAsk /\ asking[b].of[p].said \in {"waiting", "did"}
  BY DEF AskedOf
<1>3. PICK a \in Ask : a = asking[b]
  BY <1>1, <1>2
<1>4. /\ asking' = [asking EXCEPT ![b] = [a EXCEPT !.of = [a.of EXCEPT ![p] =
                                            [a.of[p] EXCEPT !.said = answer]]]]
  BY <1>1, <1>3 DEF AskSays
<1>5. a.upTo \in 0..MaxRemovals /\ a.of \in [Members -> Asked] /\ a.of[p] \in Asked
  BY <1>3 DEF Ask
<1>6. PICK x : x = [a.of[p] EXCEPT !.said = answer]
  OBVIOUS
<1>7. x \in Asked /\ x.said = answer /\ x.at = a.of[p].at
  BY <1>5, <1>6 DEF Asked
<1>8. PICK o : o = [a.of EXCEPT ![p] = x]
  OBVIOUS
<1>9. o \in [Members -> Asked] /\ o[p] = x /\ \A q \in Members : q # p => o[q] = a.of[q]
  BY <1>5, <1>7, <1>8
<1>10. PICK n : n = [a EXCEPT !.of = o]
  OBVIOUS
<1>11. n \in Ask /\ n.upTo = a.upTo /\ n.of = o
  BY <1>3, <1>9, <1>10 DEF Ask
<1>12. asking' = [asking EXCEPT ![b] = n]
  BY <1>4, <1>6, <1>8, <1>10
<1>13. /\ asking' \in [FleetBoxes -> Ask \cup {NoAsk}] /\ asking'[b] = n
       /\ \A c \in FleetBoxes : c # b => asking'[c] = asking[c]
  BY <1>1, <1>11, <1>12
<1>14. /\ left' \in [FleetBoxes -> Leavings]
       /\ \A c \in FleetBoxes, q \in Members : left'[c][q] # "nothing" => left'[c][q] = left[c][q]
       /\ answer = "did" => left'[b][p] = "nothing"
  <2>1. CASE left' = left
    BY <1>1, <2>1, <1>2 DEF Leavings
  <2>2. CASE answer = "did" /\ left' = [left EXCEPT ![b][p] = "nothing"]
    BY <1>1, <2>2 DEF Leavings
  <2> QED
    BY <2>1, <2>2
<1>15. RemovalsTypeOK'
  BY <1>13, <1>14 DEF RemovalsInv, RemovalsTypeOK, Leavings
<1>16. LeftByTheRemoved' /\ TierIsKnown'
  <2>1. LeftByTheRemoved'
    BY <1>14 DEF RemovalsInv, LeftByTheRemoved, Standing
  <2>2. TierIsKnown'
    BY DEF RemovalsInv, TierIsKnown, OfTheFleet
  <2> QED
    BY <2>1, <2>2
<1>17. /\ RemovalsKnown'
       /\ \A c \in FleetBoxes, q \in Members : left'[c][q] = "inside" => Owes(c, q)'
       /\ \A c \in FleetBoxes : asking[c] # NoAsk =>
            /\ asking[c].upTo <= made'
            /\ \A q \in Members : asking[c].of[q].said # "unsent"
                  => asking[c].of[q].at \in 1..asking[c].upTo
            /\ \A r \in removals' : left'[c][r.who] = "inside" /\ r.at <= asking[c].upTo =>
                  /\ asking[c].of[r.who].said \in {"waiting", "refused", "unanswered"}
                  /\ asking[c].of[r.who].at = r.at
  BY <1>14, ListKept
<1>18. /\ n.upTo <= made'
       /\ \A q \in Members : n.of[q].said # "unsent" => n.of[q].at \in 1..n.upTo
       /\ \A r \in removals' : left'[b][r.who] = "inside" /\ r.at <= n.upTo =>
             /\ n.of[r.who].said \in {"waiting", "refused", "unanswered"}
             /\ n.of[r.who].at = r.at
  <2>1. /\ a.upTo <= made'
        /\ \A q \in Members : a.of[q].said # "unsent" => a.of[q].at \in 1..a.upTo
        /\ \A r \in removals' : left'[b][r.who] = "inside" /\ r.at <= a.upTo =>
              /\ a.of[r.who].said \in {"waiting", "refused", "unanswered"}
              /\ a.of[r.who].at = r.at
    BY <1>2, <1>3, <1>17
  <2>2. ASSUME NEW q \in Members, n.of[q].said # "unsent" PROVE n.of[q].at \in 1..n.upTo
    <3>1. CASE q = p
      <4>1. a.of[p].said # "unsent"
        BY <1>2, <1>3
      <4> QED
        BY <1>7, <1>9, <1>11, <2>1, <3>1, <4>1
    <3>2. CASE q # p
      BY <1>9, <1>11, <2>1, <2>2, <3>2
    <3> QED
      BY <3>1, <3>2
  <2>3. ASSUME NEW r \in removals', left'[b][r.who] = "inside", r.at <= n.upTo
        PROVE  /\ n.of[r.who].said \in {"waiting", "refused", "unanswered"}
               /\ n.of[r.who].at = r.at
    <3>1. /\ a.of[r.who].said \in {"waiting", "refused", "unanswered"}
          /\ a.of[r.who].at = r.at /\ r.who \in Members
      BY <1>1, <1>11, <2>1, <2>3 DEF RemovalRecords
    <3>2. CASE r.who = p
      <4>1. answer # "done"
        BY <1>3, <3>1, <3>2 DEF AskedOf
      <4>2. answer # "did"
        BY <1>14, <2>3, <3>2
      <4> QED
        BY <1>7, <1>9, <1>11, <3>1, <3>2, <4>1, <4>2
    <3>3. CASE r.who # p
      BY <1>9, <1>11, <3>1, <3>3
    <3> QED
      BY <3>2, <3>3
  <2> QED
    BY <1>11, <2>1, <2>2, <2>3
<1>19. AskKnows'
  BY <1>13, <1>17, <1>18 DEF AskKnows
<1>20. OwedUntilPaid'
  BY <1>17 DEF RemovalsInv, OwedUntilPaid
<1> QED
  BY <1>15, <1>16, <1>17, <1>19, <1>20 DEF RemovalsInv

LEMMA BoxReportsKeeps ==
    ASSUME RemovalsInv, NEW b \in FleetBoxes, NEW hasHub \in BOOLEAN, NEW lists \in BOOLEAN,
           BoxReports(b, hasHub, lists)
    PROVE  RemovalsInv'
<1>1. /\ debts \in [FleetBoxes -> Debts] /\ seen \in [FleetBoxes -> TreeEntries]
      /\ asking \in [FleetBoxes -> Ask \cup {NoAsk}] /\ removals \in SUBSET RemovalRecords
      /\ left \in [FleetBoxes -> Leavings] /\ unasked \subseteq FleetBoxes
      /\ made \in Nat /\ made <= MaxRemovals
  BY RemovalsTypesAre DEF RemovalsInv, RemovalsTypeOK
<1>2. PICK pays \in BOOLEAN, asks \in BOOLEAN :
         /\ pays = (debts[b].handBack /\ lists)
         /\ asks = (pays /\ ~seen[b].fleets /\ lists)
  OBVIOUS
<1>3. /\ seen[b].at = "up"
      /\ debts' = [debts EXCEPT ![b].handBack = @ /\ ~pays]
      /\ unasked' = IF asks THEN unasked \ {b} ELSE unasked
      /\ left' = IF asks THEN [left EXCEPT ![b] = [q \in Members |->
                                  IF @[q] = "outside" THEN "nothing" ELSE @[q]]]
                 ELSE left
      /\ asking' = IF hasHub /\ notBefore[b] = "now"
                   THEN [asking EXCEPT ![b] = AsksForget(b, removals, debts, member)]
                   ELSE asking
      /\ seen' = [seen EXCEPT ![b].lists = lists]
      /\ UNCHANGED <<member, removals, made, notBefore, old, absences>>
  BY <1>2 DEF BoxReports, Pays
<1>4. /\ debts' \in [FleetBoxes -> Debts]
      /\ \A c \in FleetBoxes : /\ debts'[c].from = debts[c].from
                               /\ debts'[c].revoked = debts[c].revoked
                               /\ c # b => debts'[c] = debts[c]
      /\ debts[b].handBack /\ ~pays => debts'[b].handBack
  <2>1. PICK h \in BOOLEAN : h = (debts[b].handBack /\ ~pays)
    OBVIOUS
  <2>2. debts' = [debts EXCEPT ![b].handBack = h]
    BY <1>3, <2>1
  <2>3. /\ debts' \in [FleetBoxes -> Debts]
        /\ \A c \in FleetBoxes : debts'[c].from = debts[c].from
        /\ \A c \in FleetBoxes : debts'[c].revoked = debts[c].revoked
        /\ \A c \in FleetBoxes : c # b => debts'[c] = debts[c]
        /\ debts'[b].handBack = h
    BY <1>1, <2>2 DEF Debts
  <2> QED
    BY <2>1, <2>3
<1>5. /\ seen' \in [FleetBoxes -> TreeEntries]
      /\ \A c \in FleetBoxes : seen'[c].fleets = seen[c].fleets /\ seen'[c].at = seen[c].at
  BY <1>1, <1>3 DEF TreeEntries
<1>6. /\ left' \in [FleetBoxes -> Leavings]
      /\ \A c \in FleetBoxes, q \in Members : left'[c][q] # "nothing" => left'[c][q] = left[c][q]
  BY <1>1, <1>3 DEF Leavings
<1>7. /\ RemovalsKnown'
      /\ \A c \in FleetBoxes, q \in Members : left'[c][q] = "inside" => Owes(c, q)'
      /\ \A c \in FleetBoxes : asking[c] # NoAsk =>
           /\ asking[c].upTo <= made'
           /\ \A q \in Members : asking[c].of[q].said # "unsent"
                 => asking[c].of[q].at \in 1..asking[c].upTo
           /\ \A r \in removals' : left'[c][r.who] = "inside" /\ r.at <= asking[c].upTo =>
                 /\ asking[c].of[r.who].said \in {"waiting", "refused", "unanswered"}
                 /\ asking[c].of[r.who].at = r.at
  BY <1>3, <1>4, <1>6, ListKept
<1>8. LeftByTheRemoved'
  BY <1>3, <1>4, <1>6 DEF RemovalsInv, LeftByTheRemoved, Standing
<1>9. TierIsKnown'
  BY <1>3, <1>5 DEF RemovalsInv, TierIsKnown, OfTheFleet
\* The box is asked from its report exactly when it is no longer the fleet's.
<1>10. OwedUntilPaid'
  <2>1. ASSUME NEW c \in unasked' PROVE debts'[c].handBack
    <3>1. c \in unasked /\ c \in FleetBoxes /\ (asks => c # b)
      BY <1>1, <1>3
    <3>2. debts[c].handBack /\ ~OfTheFleet(c, member)
      BY <3>1 DEF RemovalsInv, OwedUntilPaid, TierIsKnown
    <3>3. CASE c = b
      <4>1. ~seen[b].fleets
        BY <1>3, <3>2, <3>3 DEF RemovalsInv, TierIsKnown
      <4>2. ~pays
        BY <1>2, <3>1, <3>3, <4>1
      <4> QED
        BY <1>4, <3>2, <3>3, <4>2
    <3>4. CASE c # b
      BY <1>4, <3>1, <3>2, <3>4
    <3> QED
      BY <3>3, <3>4
  <2> QED
    BY <1>7, <2>1 DEF OwedUntilPaid
<1>11. CASE asking' = asking
  <2>1. RemovalsTypeOK'
    BY <1>1, <1>3, <1>4, <1>5, <1>6, <1>11
       DEF RemovalsInv, RemovalsTypeOK, Debts, TreeEntries, Leavings
  <2>2. AskKnows'
    BY <1>7, <1>11 DEF AskKnows
  <2> QED
    BY <1>7, <1>8, <1>9, <1>10, <2>1, <2>2 DEF RemovalsInv
<1>12. CASE asking' # asking
  <2> DEFINE a == AsksForget(b, removals, debts, member)
  <2>1. asking' = [asking EXCEPT ![b] = a]
    BY <1>3, <1>12
  <2>2. a # asking[b]
    BY <1>1, <1>12, <2>1
  <2>3. asking[b] = NoAsk /\ debts[b].from # 0
    BY <2>2 DEF AsksForget
  <2>4. /\ \A r \in removals : r.at <= made
        /\ \A r, q \in removals : r.who = q.who => r = q
        /\ IsFiniteSet(removals) /\ debts[b].from <= made
    BY DEF RemovalsInv, RemovalsKnown
  <2>5. debts[b].from \in Nat
    BY <1>1, RemovalsAssumption DEF Debts
  <2>6. /\ a \in Ask /\ a.upTo <= made
        /\ \A q \in Members : a.of[q].said # "unsent" => a.of[q].at \in 1..a.upTo
        /\ \A r \in removals : r.at >= debts[b].from /\ r.who \notin member =>
              a.of[r.who].said = "waiting" /\ a.of[r.who].at = r.at
    BY <1>1, <2>3, <2>4, <2>5, AskedNow
  <2> HIDE DEF a
  <2>7. /\ asking' \in [FleetBoxes -> Ask \cup {NoAsk}] /\ asking'[b] = a
        /\ \A c \in FleetBoxes : c # b => asking'[c] = asking[c]
    BY <1>1, <2>1, <2>6
  <2>8. ASSUME NEW r \in removals', left'[b][r.who] = "inside"
        PROVE  a.of[r.who].said = "waiting" /\ a.of[r.who].at = r.at
    <3>1. r \in removals /\ r.who \in Members /\ left[b][r.who] = "inside"
      BY <1>1, <1>3, <1>6, <2>8 DEF RemovalRecords
    <3>2. Owes(b, r.who) /\ r.who \notin member
      BY <3>1 DEF RemovalsInv, OwedUntilPaid, LeftByTheRemoved
    <3>3. PICK q \in removals : q.who = r.who /\ q.at >= debts[b].from
      BY <3>2 DEF Owes
    <3>4. q = r
      BY <2>4, <3>1, <3>3
    <3> QED
      BY <2>6, <3>1, <3>2, <3>3, <3>4
  <2>9. AskKnows'
    <3>1. /\ a.upTo <= made'
          /\ \A q \in Members : a.of[q].said # "unsent" => a.of[q].at \in 1..a.upTo
          /\ \A r \in removals' : left'[b][r.who] = "inside" /\ r.at <= a.upTo =>
                /\ a.of[r.who].said \in {"waiting", "refused", "unanswered"}
                /\ a.of[r.who].at = r.at
      BY <1>3, <2>6, <2>8
    <3> QED
      BY <1>7, <2>7, <3>1 DEF AskKnows
  <2>10. RemovalsTypeOK'
    BY <1>1, <1>3, <1>4, <1>5, <1>6, <2>7
       DEF RemovalsInv, RemovalsTypeOK, Debts, TreeEntries, Leavings
  <2> QED
    BY <1>7, <1>8, <1>9, <1>10, <2>9, <2>10 DEF RemovalsInv
<1> QED
  BY <1>11, <1>12

LEMMA AskSettlesKeeps ==
    ASSUME RemovalsInv, NEW b \in FleetBoxes, AskSettles(b)
    PROVE  RemovalsInv'
<1>1. /\ debts \in [FleetBoxes -> Debts] /\ asking \in [FleetBoxes -> Ask \cup {NoAsk}]
      /\ removals \subseteq RemovalRecords /\ left \in [FleetBoxes -> Leavings]
      /\ made \in Nat /\ made <= MaxRemovals /\ MaxRemovals \in Nat
  BY RemovalsTypesAre DEF RemovalsInv
<1>2. /\ asking[b] # NoAsk
      /\ \A p \in Members : asking[b].of[p].said \notin {"waiting", "did"}
      /\ asking' = [asking EXCEPT ![b] = NoAsk]
      /\ member' = member /\ unasked' = unasked /\ made' = made /\ seen' = seen
      /\ old' = old /\ absences' = absences
  BY DEF AskSettles
<1>3. PICK then \in {"now", "later", "reconnect"} : notBefore' = [notBefore EXCEPT ![b] = then]
  BY DEF AskSettles
<1>4. /\ notBefore' \in [FleetBoxes -> {"now", "later", "reconnect"}]
      /\ asking' \in [FleetBoxes -> Ask \cup {NoAsk}] /\ asking'[b] = NoAsk
      /\ \A c \in FleetBoxes : c # b => asking'[c] = asking[c]
  BY <1>1, <1>2, <1>3 DEF RemovalsInv, RemovalsTypeOK
<1>5. /\ \A r \in removals : r.at \in Nat /\ r.at >= 1 /\ r.at <= made /\ r.who \in Members
      /\ \A r, q \in removals : r.who = q.who \/ r.at = q.at => r = q
      /\ IsFiniteSet(removals) /\ \A c \in FleetBoxes : debts[c].from <= made
  BY <1>1 DEF RemovalsInv, RemovalsKnown, RemovalRecords
<1>6. CASE ~Standing(b)
  <2>1. debts' = debts /\ removals' = removals /\ left' = left
    BY <1>6 DEF AskSettles
  <2>2. RemovalsTypeOK'
    BY <1>2, <1>4, <2>1 DEF RemovalsInv, RemovalsTypeOK
  <2>3. LeftByTheRemoved' /\ TierIsKnown' /\ RemovalsKnown'
    <3>1. LeftByTheRemoved'
      BY <1>2, <2>1 DEF RemovalsInv, LeftByTheRemoved, Standing
    <3>2. TierIsKnown'
      BY <1>2, <2>1 DEF RemovalsInv, TierIsKnown, OfTheFleet
    <3>3. RemovalsKnown'
      BY <1>2, <2>1 DEF RemovalsInv, RemovalsKnown
    <3> QED
      BY <3>1, <3>2, <3>3
  <2>4. AskKnows'
    BY <1>2, <1>4, <2>1 DEF RemovalsInv, AskKnows
  <2>5. OwedUntilPaid'
    BY <1>2, <2>1 DEF RemovalsInv, OwedUntilPaid, Owes
  <2> QED
    BY <2>2, <2>3, <2>4, <2>5 DEF RemovalsInv
<1>7. CASE Standing(b)
  <2> DEFINE d    == [debts EXCEPT ![b].from = Least(OwedAfter(b))]
             owed == StillOwed(removals, d, member)
  <2>0. debts' = d /\ removals' = Listed(owed) /\ left' = SaidOf(owed, left)
    BY <1>7 DEF AskSettles
  <2>1. PICK a \in Ask : a = asking[b]
    BY <1>1, <1>2
  <2>2. /\ a.upTo \in Nat /\ a.upTo <= made
        /\ \A p \in Members : a.of[p].said # "unsent" => a.of[p].at \in 1..a.upTo
        /\ \A r \in removals : left[b][r.who] = "inside" /\ r.at <= a.upTo =>
              /\ a.of[r.who].said \in {"waiting", "refused", "unanswered"}
              /\ a.of[r.who].at = r.at
    <3>1. a.upTo \in Nat
      BY <1>1, <2>1 DEF Ask
    <3> QED
      BY <1>2, <2>1, <3>1 DEF RemovalsInv, AskKnows
  <2>3. /\ \A p \in Members : a.of[p].said \in {"refused", "unanswered"}
                                => a.of[p].at \in OwedAfter(b)
        /\ \A r \in removals : r.at > a.upTo => r.at \in OwedAfter(b)
    BY <2>1 DEF OwedAfter
  <2>4. ASSUME NEW n \in OwedAfter(b) PROVE n \in Nat /\ n # 0 /\ n <= made
    <3>1. CASE \E p \in Members : a.of[p].said \in {"refused", "unanswered"} /\ n = a.of[p].at
      <4>1. n \in 1..a.upTo
        BY <2>2, <3>1
      <4> QED
        BY <1>1, <2>2, <4>1
    <3>2. CASE \E r \in removals : n = r.at
      BY <1>5, <3>2
    <3> QED
      BY <2>1, <3>1, <3>2 DEF OwedAfter
  <2>5. PICK f : f = Least(OwedAfter(b))
    OBVIOUS
  <2>6. \A n \in OwedAfter(b) : f \in OwedAfter(b) /\ f <= n
    <3>1. OwedAfter(b) \in SUBSET (Nat \ {0})
      BY <2>4
    <3> QED
      BY <2>5, <3>1, LeastIs
  <2>7. f \in Nat /\ f <= made
    <3>1. CASE OwedAfter(b) = {}
      BY <1>1, <2>5, <3>1 DEF Least
    <3>2. CASE OwedAfter(b) # {}
      BY <2>4, <2>6, <3>2
    <3> QED
      BY <3>1, <3>2
  <2>8. /\ d \in [FleetBoxes -> Debts] /\ d[b].from = f
        /\ \A c \in FleetBoxes : /\ d[c].revoked = debts[c].revoked
                                 /\ d[c].handBack = debts[c].handBack
                                 /\ c # b => d[c] = debts[c]
    <3>1. f \in 0..MaxRemovals
      BY <1>1, <2>7
    <3>2. d = [debts EXCEPT ![b].from = f]
      BY <2>5
    <3> HIDE DEF d
    <3> QED
      BY <1>1, <3>1, <3>2 DEF Debts
  <2> HIDE DEF d
  <2>9. /\ removals' \subseteq removals /\ IsFiniteSet(removals')
        /\ Cardinality(removals') <= RemovalsKept
    BY <1>1, <1>5, <2>0, PrunedList
  <2>10. /\ left' \in [FleetBoxes -> Leavings]
         /\ \A c \in FleetBoxes, q \in Members : left'[c][q] # "nothing" => left'[c][q] = left[c][q]
    <3>1. /\ SaidOf(owed, left) \in [FleetBoxes -> Leavings]
          /\ \A c \in FleetBoxes, q \in Members :
                SaidOf(owed, left)[c][q] # "nothing" => SaidOf(owed, left)[c][q] = left[c][q]
      BY <1>1, SaidOfIs
    <3>2. left' = SaidOf(owed, left)
      BY <2>0
    <3> QED
      BY <3>1, <3>2
  <2>11. RemovalsTypeOK'
    <3>1. debts' \in [FleetBoxes -> Debts]
      BY <2>0, <2>8
    <3>2. removals' \subseteq RemovalRecords
      BY <1>1, <2>9
    <3> QED
      BY <1>2, <1>4, <2>9, <2>10, <3>1, <3>2
         DEF RemovalsInv, RemovalsTypeOK, Debts, RemovalRecords, Leavings
  <2>12. LeftByTheRemoved'
    BY <1>2, <2>0, <2>8, <2>10 DEF RemovalsInv, LeftByTheRemoved, Standing
  <2>13. TierIsKnown'
    BY <1>2 DEF RemovalsInv, TierIsKnown, OfTheFleet
  <2>14. RemovalsKnown'
    <3>1. debts' = d
      BY <2>0
    <3>2. \A c \in FleetBoxes : d[c].from <= made
      BY <1>5, <2>7, <2>8
    <3>3. \A c \in FleetBoxes : debts'[c].from <= made'
      BY <1>2, <3>1, <3>2
    <3> QED
      BY <1>2, <1>5, <2>9, <3>3 DEF RemovalsKnown
  \* What the box has not said yes to, it owes still.
  <2>15. ASSUME NEW c \in FleetBoxes, NEW q \in Members, left'[c][q] = "inside"
         PROVE  Owes(c, q)'
    <3>1. left[c][q] = "inside"
      BY <2>10, <2>15
    <3>2. PICK r \in removals : r.who = q /\ r.at >= debts[c].from /\ debts[c].from # 0
      BY <3>1 DEF RemovalsInv, OwedUntilPaid, Owes
    <3>3. Standing(c) /\ q \notin member
      BY <3>1 DEF RemovalsInv, LeftByTheRemoved
    <3>4. d[c].from # 0 /\ d[c].from <= r.at
      <4>1. CASE c = b
        <5>1. r.at \in OwedAfter(b)
          <6>1. CASE r.at > a.upTo
            BY <2>3, <6>1
          <6>2. CASE r.at <= a.upTo
            <7>1. a.of[q].said \in {"waiting", "refused", "unanswered"} /\ a.of[q].at = r.at
              BY <2>2, <3>1, <3>2, <4>1, <6>2
            <7>2. a.of[q].said # "waiting"
              BY <1>2, <2>1
            <7> QED
              BY <2>3, <7>1, <7>2
          <6> QED
            BY <1>5, <2>2, <6>1, <6>2
        <5>2. f # 0 /\ f <= r.at
          BY <2>4, <2>6, <5>1
        <5> QED
          BY <2>8, <4>1, <5>2
      <4>2. CASE c # b
        <5>1. d[c].from = debts[c].from
          BY <2>8, <4>2
        <5>2. debts[c].from \in Nat
          BY <1>1 DEF Debts
        <5> QED
          BY <1>5, <3>2, <5>1, <5>2
      <4> QED
        BY <4>1, <4>2
    <3>5. SaidOf(owed, left)[c][r.who] # "nothing"
      BY <2>0, <2>15, <3>2
    <3>6. r \in Listed(owed)
      BY <3>2, <3>3, <3>4, <3>5, OwedIsListed
    <3>7. r \in removals' /\ debts' = d
      BY <2>0, <3>6
    <3>8. r.at >= d[c].from
      BY <3>4
    <3> QED
      BY <3>2, <3>4, <3>7, <3>8 DEF Owes
  <2>16. OwedUntilPaid'
    <3>1. \A c \in unasked : c \in FleetBoxes /\ debts[c].handBack
      BY DEF RemovalsInv, RemovalsTypeOK, OwedUntilPaid
    <3>2. \A c \in unasked' : debts'[c].handBack
      BY <1>2, <2>0, <2>8, <3>1
    <3> QED
      BY <2>15, <3>2 DEF OwedUntilPaid
  <2>17. AskKnows'
    <3> SUFFICES ASSUME NEW c \in FleetBoxes, asking[c] # NoAsk
                 PROVE  /\ asking[c].upTo <= made
                        /\ \A p \in Members : asking[c].of[p].said # "unsent"
                              => asking[c].of[p].at \in 1..asking[c].upTo
                        /\ \A r \in removals' : left'[c][r.who] = "inside" /\ r.at <= asking[c].upTo =>
                              /\ asking[c].of[r.who].said \in {"waiting", "refused", "unanswered"}
                              /\ asking[c].of[r.who].at = r.at
      BY <1>2, <1>4 DEF AskKnows
    <3>1. \A r \in removals' : r \in removals
      BY <2>9
    <3>2. \A r \in removals' : left'[c][r.who] = "inside" => left[c][r.who] = "inside"
      BY <1>5, <2>9, <2>10
    <3> QED
      BY <1>1, <3>1, <3>2, StillKnows
  <2> QED
    BY <2>11, <2>12, <2>13, <2>14, <2>16, <2>17 DEF RemovalsInv
<1> QED
  BY <1>6, <1>7

---------------------------------------------------------------------------
(* What follows *)

LEMMA RemovalsInitially == RemovalsInit => RemovalsInv
<1> SUFFICES ASSUME RemovalsInit PROVE RemovalsInv
  OBVIOUS
<1>1. RemovalsTypeOK
  <2>1. 0 \in 0..MaxRemovals /\ 0 \in 0..MaxAbsences
    BY RemovalsAssumption
  <2>2. Cardinality(removals) = 0 /\ 0 <= RemovalsKept
    BY FS_EmptySet, RemovalsAssumption DEF RemovalsInit
  <2> QED
    BY <2>1, <2>2 DEF RemovalsInit, RemovalsTypeOK, NotSeen
<1>2. RemovalsKnown /\ LeftByTheRemoved /\ TierIsKnown /\ AskKnows /\ OwedUntilPaid
  BY FS_EmptySet DEF RemovalsInit, RemovalsKnown, LeftByTheRemoved, TierIsKnown, AskKnows,
                     OwedUntilPaid, NotSeen
<1> QED
  BY <1>1, <1>2 DEF RemovalsInv

LEMMA RemovalsStep == RemovalsInv /\ [RemovalsNext]_removalVars => RemovalsInv'
<1> SUFFICES ASSUME RemovalsInv, [RemovalsNext]_removalVars PROVE RemovalsInv'
  OBVIOUS
<1>1. ASSUME NEW p \in Members, RemovePerson(p) \/ SignsInAgain(p) PROVE RemovalsInv'
  BY <1>1, RemovePersonKeeps, SignsInAgainKeeps
<1>2. ASSUME NEW b \in FleetBoxes,
             \/ BoxReturns(b) \/ BoxLeaves(b) \/ BoxRevoked(b) \/ BoxReadmitted(b)
             \/ AskSettles(b) \/ MayAskAgain(b)
      PROVE  RemovalsInv'
  BY <1>2, BoxReturnsKeeps, BoxLeavesKeeps, EnrolmentKeeps, AskSettlesKeeps, MayAskAgainKeeps
<1>3. ASSUME NEW b \in FleetBoxes, NEW hasHub \in BOOLEAN, NEW lists \in BOOLEAN,
             BoxReports(b, hasHub, lists)
      PROVE  RemovalsInv'
  BY <1>3, BoxReportsKeeps
<1>4. ASSUME NEW b \in FleetBoxes, NEW p \in Members,
             BoxForgets(b, p) \/ SaysDone(b, p) \/ SaysUnknown(b, p) \/ NotAnswered(b, p)
      PROVE  RemovalsInv'
  <2>1. CASE BoxForgets(b, p)
    BY <2>1, AnswerKeeps DEF BoxForgets
  <2>2. CASE SaysDone(b, p)
    BY <2>2, AnswerKeeps DEF SaysDone, fleetDebts
  <2>3. CASE SaysUnknown(b, p)
    BY <2>3, AnswerKeeps DEF SaysUnknown, fleetDebts
  <2>4. CASE NotAnswered(b, p)
    BY <2>4, AnswerKeeps DEF NotAnswered, fleetDebts
  <2> QED
    BY <1>4, <2>1, <2>2, <2>3, <2>4
<1>5. CASE UNCHANGED removalVars
  BY <1>5 DEF removalVars, fleetDebts, RemovalsInv, RemovalsTypeOK, RemovalsKnown,
     LeftByTheRemoved,
              TierIsKnown, AskKnows, OwedUntilPaid, Owes, Standing, OfTheFleet
<1> QED
  BY <1>1, <1>2, <1>3, <1>4, <1>5, FleetRebuiltKeeps DEF RemovalsNext

LEMMA RemovalsInvariant == RemovalsSpec => []RemovalsInv
  BY RemovalsInitially, RemovalsStep, PTL DEF RemovalsSpec

\* The types of the records of removals.
THEOREM RemovalsTypes == RemovalsSpec => []RemovalsTypeOK
  BY RemovalsInvariant, PTL DEF RemovalsInv

\* OwedUntilPaid, for any number of people, boxes and removals: a removal is a
\* debt of each box of the fleet's until it has acted or a record gives it up,
\* and a hand-back one until the box is asked from a report that says whose
\* each session is.
THEOREM RemovalsAreOwed == RemovalsSpec => []OwedUntilPaid
  BY RemovalsInvariant, PTL DEF RemovalsInv

---------------------------------------------------------------------------
(* Relays of setups: a relay in use *)

Frames ==
    [kind : {"open", "end"}, relay : Relays, stream : Streams]
    \cup [kind : {"done"}, relay : Relays \cup {NoRelay}]
    \cup [kind : {"probed"}, relay : Relays]
    \cup [kind : {"made"}, relay : Relays, job : Jobs]
    \cup [kind : {"refused"}, relay : Relays, why : {"outdated", "failed"}]
    \cup [kind : {"progress", "status"}, job : Jobs]

RelayRecords == [open : BOOLEAN, use : {"idle", "probing", "probed", "job"},
                 job : Jobs \cup {NoJob}, streams : SUBSET Streams, opened : 0..MaxStreams]

AboutJob(f, j) == f.kind \in {"made", "progress", "status"} /\ f.job = j

\* A relay at its probe is waited for, one bound to a job is bound to one not
\* known to be over, and only such a relay has connections.
ServesAUse(r) ==
    /\ Open(r) => /\ relay[r].use = "probing" => <<r, "probe">> \in relayCalls
                  /\ relay[r].job # NoJob => relay[r].job \notin heard
    /\ relay[r].streams # {} => Open(r) /\ (relay[r].use = "probing" \/ relay[r].job # NoJob)

\* Nothing is known of a job that has not been made.
NewUnknown ==
    \A j \in Jobs : jobs[j] = "none" =>
        /\ j \notin heard /\ j \notin RecordedJobs
        /\ \A i \in 1..Len(wire) : ~AboutJob(wire[i], j)

\* The frame that answers a begin is the first its job is heard of by.
MadeFirst ==
    \A i \in 1..Len(wire) : wire[i].kind = "made" =>
        /\ wire[i].job \notin heard /\ wire[i].job \notin RecordedJobs
        /\ \A k \in 1..Len(wire) : AboutJob(wire[k], wire[i].job) => k >= i

RelayInv ==
    /\ SetupRelaysTypeOK /\ wire \in Seq(Frames)
    /\ \A r \in Relays : ServesAUse(r)
    /\ NewUnknown /\ MadeFirst

LEMMA RelayTypesAre ==
    ASSUME SetupRelaysTypeOK
    PROVE  /\ relay \in [Relays -> RelayRecords] /\ setups \in Seq(Jobs)
           /\ jobs \in [Jobs -> {"none", "running", "over"}] /\ heard \subseteq Jobs
           /\ Len(setups) <= MaxSetups /\ begunOn \in [Jobs -> Nat] /\ enrolment \in Nat
           /\ relayCalls \subseteq Relays \X {"probe", "begin"}
  BY DEF SetupRelaysTypeOK, RelayRecords

\* What a frame carries.
LEMMA FrameCarries ==
    ASSUME NEW f \in Frames
    PROVE  /\ f.kind \in {"open", "end", "done", "probed", "made", "refused", "progress", "status"}
           /\ f.kind \in {"open", "end"} => f.relay \in Relays /\ f.stream \in Streams
           /\ f.kind \in {"probed", "made", "refused"} => f.relay \in Relays
           /\ f.kind \in {"made", "progress", "status"} => f.job \in Jobs /\ "job" \in DOMAIN f
           /\ f.kind = "refused" => f.why \in {"outdated", "failed"}
  BY DEF Frames

\* A relay that is closed.
LEMMA GoneIs ==
    /\ Gone \in RelayRecords /\ ~Gone.open /\ Gone.streams = {} /\ Gone.use = "idle" /\ Gone.job = NoJob
    /\ FreshRelay \in RelayRecords /\ FreshRelay.streams = {} /\ FreshRelay.use = "idle"
    /\ FreshRelay.job = NoJob
<1>1. 0 \in 0..MaxStreams
  BY SetupRelaysAssumption
<1>2. /\ FreshRelay \in RelayRecords /\ FreshRelay.streams = {} /\ FreshRelay.use = "idle"
      /\ FreshRelay.job = NoJob
  BY <1>1 DEF FreshRelay, RelayRecords
<1>3. /\ Gone \in RelayRecords /\ ~Gone.open /\ Gone.streams = {} /\ Gone.use = "idle"
      /\ Gone.job = NoJob
  BY <1>1 DEF Gone, FreshRelay, RelayRecords
<1> QED
  BY <1>2, <1>3

LEMMA ClosedIs ==
    ASSUME NEW rel \in [Relays -> RelayRecords], NEW rs
    PROVE  /\ Closed(rel, rs) \in [Relays -> RelayRecords]
           /\ \A r \in Relays : Closed(rel, rs)[r] = rel[r]
                                \/ (Closed(rel, rs)[r] = Gone /\ ~Closed(rel, rs)[r].open)
           /\ \A r \in Relays : r \in rs => ~Closed(rel, rs)[r].open
  BY GoneIs DEF Closed

\* Without its first j, a sequence holds nothing new.
LEMMA WithoutFirst ==
    ASSUME NEW S, NEW s \in Seq(S), NEW j
    PROVE  /\ RemoveFirst(s, j) \in Seq(S)
           /\ Len(RemoveFirst(s, j)) <= Len(s)
           /\ \A i \in 1..Len(RemoveFirst(s, j)) : \E k \in 1..Len(s) : RemoveFirst(s, j)[i] = s[k]
<1>1. CASE ~\E i \in 1..Len(s) : s[i] = j
  <2>1. RemoveFirst(s, j) = s
    BY <1>1 DEF RemoveFirst
  <2>2. Len(s) \in Nat
    OBVIOUS
  <2> QED
    BY <2>1, <2>2
<1>2. CASE \E i \in 1..Len(s) : s[i] = j
  <2> DEFINE I == {i \in 1..Len(s) : s[i] = j}
             at == Min(I)
  <2>1. I \in SUBSET Nat /\ I # {}
    BY <1>2
  <2>2. \E n \in I : \A m \in I : n <= m
    BY <2>1, LeastOfNaturals
  <2>3. at \in I
    BY <2>2 DEF Min
  <2>4. RemoveFirst(s, j) = RemoveAt(s, at)
    BY <1>2, <2>1 DEF RemoveFirst, SelectInSeq
  <2> HIDE DEF I, at
  <2>5. at \in 1..Len(s) /\ Len(s) \in Nat
    BY <2>3 DEF I
  <2>6. PICK n \in Nat : n = Len(s)
    BY <2>5
  <2>7. PICK c \in Nat : c + 1 = at /\ c + 1 <= n
    <3>1. at - 1 \in Nat /\ (at - 1) + 1 = at
      BY <2>5
    <3> QED
      BY <2>5, <2>6, <3>1
  <2>8. \A i \in 1..n : s[i] \in S
    BY <2>6
  <2>9. PICK u : u = SubSeq(s, 1, c)
    OBVIOUS
  <2>10. PICK v : v = SubSeq(s, c + 2, n)
    OBVIOUS
  <2>11. /\ u \in Seq(S) /\ Len(u) = c /\ \A i \in 1..c : u[i] = s[i]
    <3>1. \A i \in 1..c : s[i] \in S
      BY <2>7, <2>8
    <3>2. /\ SubSeq(s, 1, c) \in Seq(S)
          /\ Len(SubSeq(s, 1, c)) = IF 1 <= c THEN c - 1 + 1 ELSE 0
          /\ \A i \in 1 .. c - 1 + 1 : SubSeq(s, 1, c)[i] = s[1 + i - 1]
      BY <3>1, SubSeqProperties
    <3> QED
      BY <2>9, <3>2
  <2>12. /\ v \in Seq(S) /\ Len(v) = n - (c + 1)
         /\ \A i \in 1..(n - (c + 1)) : v[i] = s[i + c + 1]
    <3>1. \A i \in (c + 2)..n : s[i] \in S
      BY <2>8
    <3>2. /\ SubSeq(s, c + 2, n) \in Seq(S)
          /\ Len(SubSeq(s, c + 2, n)) = IF c + 2 <= n THEN n - (c + 2) + 1 ELSE 0
          /\ \A i \in 1 .. n - (c + 2) + 1 : SubSeq(s, c + 2, n)[i] = s[(c + 2) + i - 1]
      BY <3>1, SubSeqProperties
    <3> QED
      BY <2>7, <2>10, <3>2
  <2>13. RemoveFirst(s, j) = u \o v
    <3>1. at - 1 = c /\ at + 1 = c + 2
      BY <2>7
    <3> QED
      BY <2>4, <2>6, <2>9, <2>10, <3>1 DEF RemoveAt
  <2>14. /\ u \o v \in Seq(S) /\ Len(u \o v) = Len(u) + Len(v)
         /\ \A i \in 1 .. Len(u) + Len(v) : (u \o v)[i] = IF i <= Len(u) THEN u[i] ELSE v[i - Len(u)]
    <3>1. u \in Seq(S) /\ v \in Seq(S)
      BY <2>11, <2>12
    <3> QED
      BY <3>1, ConcatProperties, ZenonT(30)
  <2>15. ASSUME NEW i \in 1..Len(u \o v) PROVE \E k \in 1..n : (u \o v)[i] = s[k]
    <3>1. CASE i <= c
      <4>1. (u \o v)[i] = s[i] /\ i \in 1..n
        BY <2>7, <2>11, <2>12, <2>14, <2>15, <3>1
      <4> QED
        BY <4>1
    <3>2. CASE i > c
      <4>1. i - c \in 1..(n - (c + 1))
        BY <2>7, <2>11, <2>12, <2>14, <2>15, <3>2
      <4>2. (u \o v)[i] = v[i - c]
        BY <2>7, <2>11, <2>12, <2>14, <2>15, <3>2
      <4>3. v[i - c] = s[(i - c) + c + 1]
        BY <2>12, <4>1
      <4>4. (i - c) + c + 1 \in 1..n
        BY <2>7, <4>1
      <4> QED
        BY <4>2, <4>3, <4>4
    <3> QED
      BY <2>11, <2>12, <2>14, <3>1, <3>2
  <2>16. Len(u \o v) <= n
    BY <2>7, <2>11, <2>12, <2>14
  <2> QED
    BY <2>6, <2>13, <2>14, <2>15, <2>16
<1> QED
  BY <1>1, <1>2

---------------------------------------------------------------------------
(* Relays: every step leaves each serving a use *)

RelaysServe == relay \in [Relays -> RelayRecords] /\ \A r \in Relays : ServesAUse(r)

\* A relay left as it is, or closed.
LEMMA LeftServing ==
    ASSUME NEW r \in Relays, ServesAUse(r), relay \in [Relays -> RelayRecords],
           \/ relay'[r] = relay[r] /\ (Open(r) => relay[r].job = NoJob \/ relay[r].job \notin heard')
           \/ relay'[r] = Gone,
           relay[r].use = "probing" /\ <<r, "probe">> \in relayCalls /\ Open(r)' =>
               <<r, "probe">> \in relayCalls'
    PROVE  ServesAUse(r)'
<1>1. CASE relay'[r] = Gone
  BY <1>1, GoneIs DEF ServesAUse, Open
<1>2. CASE relay'[r] = relay[r]
  BY <1>2, GoneIs DEF ServesAUse, Open
<1> QED
  BY <1>1, <1>2

\* Relays closed, or none, while what is known of jobs stays.
LEMMA ClosedServing ==
    ASSUME RelaysServe, NEW rs, relay' = relay \/ relay' = Closed(relay, rs),
           heard' \subseteq heard,
           \A q \in Relays : <<q, "probe">> \in relayCalls => <<q, "probe">> \in relayCalls'
    PROVE  RelaysServe'
<1>1. relay' \in [Relays -> RelayRecords] /\ \A r \in Relays : relay'[r] = relay[r] \/ relay'[r] = Gone
  BY ClosedIs DEF RelaysServe
<1>2. ASSUME NEW r \in Relays PROVE ServesAUse(r)'
  <2>1. Open(r) => relay[r].job = NoJob \/ relay[r].job \notin heard'
    BY DEF RelaysServe, ServesAUse
  <2> QED
    BY <1>1, <2>1, LeftServing DEF RelaysServe
<1> QED
  BY <1>1, <1>2 DEF RelaysServe

LEMMA AllClosedServing ==
    ASSUME RelaysServe, relay' = Closed(relay, Relays)
    PROVE  RelaysServe'
<1>1. /\ relay' \in [Relays -> RelayRecords]
      /\ \A r \in Relays : (relay'[r] = relay[r] \/ relay'[r] = Gone) /\ ~relay'[r].open
  BY ClosedIs DEF RelaysServe
<1>2. ASSUME NEW r \in Relays PROVE ServesAUse(r)'
  <2>1. relay'[r].streams = {}
    BY <1>1, GoneIs DEF RelaysServe, ServesAUse, Open
  <2> QED
    BY <1>1, <2>1 DEF ServesAUse, Open
<1> QED
  BY <1>1, <1>2 DEF RelaysServe

\* A job that is over takes its relays with it.
LEMMA OverServing ==
    ASSUME RelaysServe, NEW J, heard' \subseteq heard \cup J,
           relay' = Closed(relay, {r \in Relays : relay[r].job \in J}),
           relayCalls' = relayCalls
    PROVE  RelaysServe'
<1>1. /\ relay' \in [Relays -> RelayRecords]
      /\ \A r \in Relays : /\ relay'[r] = relay[r] \/ (relay'[r] = Gone /\ ~relay'[r].open)
                           /\ relay[r].job \in J => ~relay'[r].open
  BY ClosedIs DEF RelaysServe
<1>2. ASSUME NEW r \in Relays PROVE ServesAUse(r)'
  <2>1. CASE relay'[r] = Gone
    BY <2>1, GoneIs DEF ServesAUse, Open
  <2>2. CASE relay'[r] = relay[r]
    <3>1. Open(r) => relay[r].job = NoJob \/ relay[r].job \notin heard'
      BY <1>1, <2>2 DEF RelaysServe, ServesAUse, Open
    <3> QED
      BY <2>2, <3>1, LeftServing DEF RelaysServe
  <2> QED
    BY <1>1, <2>1, <2>2
<1> QED
  BY <1>1, <1>2 DEF RelaysServe

\* A relay whose use changes, when what is known of jobs does not.
LEMMA ChangedServing ==
    ASSUME RelaysServe, NEW r \in Relays, NEW x \in RelayRecords,
           relay' = [relay EXCEPT ![r] = x], heard' \subseteq heard,
           \A q \in Relays : q # r /\ <<q, "probe">> \in relayCalls => <<q, "probe">> \in relayCalls',
           x.open => /\ x.use = "probing" => <<r, "probe">> \in relayCalls'
                     /\ x.job # NoJob => x.job \notin heard',
           x.streams # {} => x.open /\ (x.use = "probing" \/ x.job # NoJob)
    PROVE  RelaysServe'
<1>1. relay' \in [Relays -> RelayRecords] /\ relay'[r] = x
      /\ \A q \in Relays : q # r => relay'[q] = relay[q]
  BY DEF RelaysServe
<1>2. ASSUME NEW q \in Relays PROVE ServesAUse(q)'
  <2>1. CASE q = r
    BY <1>1, <2>1 DEF ServesAUse, Open
  <2>2. CASE q # r
    BY <1>1, <2>2 DEF RelaysServe, ServesAUse, Open
  <2> QED
    BY <2>1, <2>2
<1> QED
  BY <1>1, <1>2 DEF RelaysServe

\* The records the steps put.
LEMMA RecordChanged ==
    ASSUME NEW x \in RelayRecords, NEW u \in {"idle", "probing", "probed", "job"}
    PROVE  /\ [x EXCEPT !.use = u] \in RelayRecords
           /\ [x EXCEPT !.use = u].open = x.open /\ [x EXCEPT !.use = u].use = u
           /\ [x EXCEPT !.use = u].job = x.job /\ [x EXCEPT !.use = u].streams = x.streams
  BY DEF RelayRecords

LEMMA StreamsChanged ==
    ASSUME NEW x \in RelayRecords, NEW t \in SUBSET Streams
    PROVE  /\ [x EXCEPT !.streams = t] \in RelayRecords
           /\ [x EXCEPT !.streams = t].open = x.open /\ [x EXCEPT !.streams = t].use = x.use
           /\ [x EXCEPT !.streams = t].job = x.job /\ [x EXCEPT !.streams = t].streams = t
  BY DEF RelayRecords

LEMMA JobChanged ==
    ASSUME NEW x \in RelayRecords, NEW j \in Jobs
    PROVE  /\ [x EXCEPT !.job = j] \in RelayRecords
           /\ [x EXCEPT !.job = j].open = x.open /\ [x EXCEPT !.job = j].use = x.use
           /\ [x EXCEPT !.job = j].job = j /\ [x EXCEPT !.job = j].streams = x.streams
  BY DEF RelayRecords

LEMMA StreamOpened ==
    ASSUME NEW x \in RelayRecords, NEW s \in Streams, x.opened < MaxStreams
    PROVE  LET y == [x EXCEPT !.streams = @ \cup {s}, !.opened = @ + 1] IN
           y \in RelayRecords /\ y.open = x.open /\ y.use = x.use /\ y.job = x.job
<1>1. x.opened + 1 \in 0..MaxStreams
  BY SetupRelaysAssumption DEF RelayRecords
<1>2. PICK n \in 0..MaxStreams : n = x.opened + 1
  BY <1>1
<1>3. x.streams \cup {s} \in SUBSET Streams
  BY DEF RelayRecords
<1>4. PICK t \in SUBSET Streams : t = x.streams \cup {s}
  BY <1>3
<1>5. PICK y : y = [x EXCEPT !.streams = t, !.opened = n]
  OBVIOUS
<1>6. y \in RelayRecords /\ y.open = x.open /\ y.use = x.use /\ y.job = x.job
  BY <1>5 DEF RelayRecords
<1> QED
  BY <1>2, <1>4, <1>5, <1>6

LEMMA ProbedServing ==
    ASSUME RelaysServe, NEW r \in Relays, relay' = Probed(relay, r), heard' \subseteq heard,
           \A q \in Relays : q # r /\ <<q, "probe">> \in relayCalls => <<q, "probe">> \in relayCalls'
    PROVE  RelaysServe'
<1> DEFINE x == IF relay[r].use = "probing"
                THEN [[relay[r] EXCEPT !.use = "probed"] EXCEPT !.streams = {}]
                ELSE [relay[r] EXCEPT !.streams = {}]
<1>1. relay[r] \in RelayRecords /\ relay \in [Relays -> RelayRecords]
  BY DEF RelaysServe
<1>2. relay' = [relay EXCEPT ![r] = x]
  BY <1>1 DEF Probed
<1>3. /\ x \in RelayRecords /\ x.streams = {} /\ x.use # "probing"
      /\ x.job = relay[r].job /\ x.open = relay[r].open
  <2>1. CASE relay[r].use = "probing"
    <3>1. PICK y : y = [relay[r] EXCEPT !.use = "probed"]
      OBVIOUS
    <3>2. y \in RelayRecords /\ y.use = "probed" /\ y.job = relay[r].job /\ y.open = relay[r].open
      BY <1>1, <3>1, RecordChanged DEF RelayRecords
    <3>3. PICK z : z = [y EXCEPT !.streams = {}]
      OBVIOUS
    <3>4. z \in RelayRecords /\ z.use = "probed" /\ z.job = y.job /\ z.open = y.open /\ z.streams = {}
      BY <3>2, <3>3 DEF RelayRecords
    <3>5. x = z
      BY <2>1, <3>1, <3>3
    <3> HIDE DEF x
    <3> QED
      BY <3>2, <3>4, <3>5
  <2>2. CASE relay[r].use # "probing"
    <3>1. PICK z : z = [relay[r] EXCEPT !.streams = {}]
      OBVIOUS
    <3>2. /\ z \in RelayRecords /\ z.use = relay[r].use /\ z.job = relay[r].job
          /\ z.open = relay[r].open /\ z.streams = {}
      BY <1>1, <3>1 DEF RelayRecords
    <3>3. x = z
      BY <2>2, <3>1
    <3> HIDE DEF x
    <3> QED
      BY <2>2, <3>2, <3>3
  <2> QED
    BY <2>1, <2>2
<1> HIDE DEF x
<1>4. x.open /\ x.job # NoJob => x.job \notin heard'
  BY <1>3 DEF RelaysServe, ServesAUse, Open
<1> QED
  BY <1>2, <1>3, <1>4, ChangedServing

LEMMA EndServing ==
    ASSUME RelaysServe, NEW r \in Relays, NEW s \in Streams,
           relay' = [relay EXCEPT ![r].streams = @ \ {s}], relayCalls' = relayCalls, heard' = heard
    PROVE  RelaysServe'
<1>1. relay[r] \in RelayRecords /\ relay \in [Relays -> RelayRecords] /\ ServesAUse(r)
  BY DEF RelaysServe
<1>2. PICK t \in SUBSET Streams : t = relay[r].streams \ {s}
  BY <1>1 DEF RelayRecords
<1>3. PICK x : x = [relay[r] EXCEPT !.streams = t]
  OBVIOUS
<1>4. relay' = [relay EXCEPT ![r] = x]
  BY <1>1, <1>2, <1>3
<1>5. /\ x \in RelayRecords /\ x.open = relay[r].open /\ x.use = relay[r].use
      /\ x.job = relay[r].job /\ x.streams = t
  BY <1>1, <1>3, StreamsChanged
<1>6. x.streams # {} => x.open /\ (x.use = "probing" \/ x.job # NoJob)
  BY <1>1, <1>2, <1>5 DEF ServesAUse, Open
<1>7. x.open => /\ x.use = "probing" => <<r, "probe">> \in relayCalls'
                /\ x.job # NoJob => x.job \notin heard'
  BY <1>1, <1>5 DEF ServesAUse, Open
<1> QED
  BY <1>4, <1>5, <1>6, <1>7, ChangedServing

\* A relay is claimed for a probe or a begin.
LEMMA ClaimServing ==
    ASSUME RelaysServe, NEW r \in Relays, heard' = heard,
           ProbeThrough(r) \/ Begin(r)
    PROVE  RelaysServe'
<1>1. relay[r] \in RelayRecords /\ ServesAUse(r) /\ Open(r)
  BY DEF RelaysServe, ProbeThrough, Begin
<1>2. relay[r].streams # {} => relay[r].job # NoJob
  BY <1>1 DEF ServesAUse, ProbeThrough, Begin
<1>3. CASE ~up
  <2>1. relay' = Closed(relay, {r}) /\ relayCalls' = relayCalls
    BY <1>3 DEF ProbeThrough, Begin, RelayClaim
  <2> QED
    BY <2>1, ClosedServing
<1>4. CASE up
  <2>1. PICK u \in {"probing", "job"} :
           /\ relay' = [relay EXCEPT ![r].use = u]
           /\ relayCalls \subseteq relayCalls'
           /\ u = "probing" => <<r, "probe">> \in relayCalls'
    BY <1>4 DEF ProbeThrough, Begin, RelayClaim
  <2>2. PICK x : x = [relay[r] EXCEPT !.use = u]
    OBVIOUS
  <2>3. relay' = [relay EXCEPT ![r] = x]
    BY <2>1, <2>2 DEF RelaysServe
  <2>4. /\ x \in RelayRecords /\ x.open = relay[r].open /\ x.use = u
        /\ x.job = relay[r].job /\ x.streams = relay[r].streams
    <3>1. u \in {"idle", "probing", "probed", "job"}
      BY <2>1
    <3> QED
      BY <1>1, <2>2, <3>1, RecordChanged
  <2>5. x.open => /\ x.use = "probing" => <<r, "probe">> \in relayCalls'
                  /\ x.job # NoJob => x.job \notin heard'
    BY <1>1, <2>1, <2>4 DEF ServesAUse, Open
  <2>6. x.streams # {} => x.open /\ (x.use = "probing" \/ x.job # NoJob)
    BY <1>1, <1>2, <2>4 DEF Open
  <2>7. \A q \in Relays : q # r /\ <<q, "probe">> \in relayCalls => <<q, "probe">> \in relayCalls'
    BY <2>1
  <2> QED
    BY <2>3, <2>4, <2>5, <2>6, <2>7, ChangedServing
<1> QED
  BY <1>3, <1>4

\* A connection is opened on a relay in use.
LEMMA OpenServing ==
    ASSUME RelaysServe, NEW r \in Relays, NEW s \in Streams, TakeOpen(r, s)
    PROVE  RelaysServe'
<1>1. heard' = heard /\ relayCalls' = relayCalls
  BY DEF TakeOpen
<1>2. CASE relay' = relay
  BY <1>1, <1>2, ClosedServing
<1>3. CASE relay' # relay
  <2>1. /\ MayOpen(r) /\ relay[r].opened < MaxStreams
        /\ relay' = [relay EXCEPT ![r].streams = @ \cup {s}, ![r].opened = @ + 1]
    BY <1>3 DEF TakeOpen
  <2>2. PICK x : x = [relay[r] EXCEPT !.streams = @ \cup {s}, !.opened = @ + 1]
    OBVIOUS
  <2>3. relay[r] \in RelayRecords /\ ServesAUse(r)
    BY DEF RelaysServe
  <2>4. relay' = [relay EXCEPT ![r] = x]
    BY <2>1, <2>2 DEF RelaysServe
  <2>5. x \in RelayRecords /\ x.open = relay[r].open /\ x.use = relay[r].use /\ x.job = relay[r].job
    BY <2>1, <2>2, <2>3, StreamOpened
  <2>6. x.open /\ (x.use = "probing" \/ x.job # NoJob)
    BY <2>1, <2>5 DEF MayOpen, Open
  <2>7. x.open => /\ x.use = "probing" => <<r, "probe">> \in relayCalls'
                  /\ x.job # NoJob => x.job \notin heard'
    BY <1>1, <2>3, <2>5 DEF ServesAUse, Open
  <2> QED
    BY <1>1, <2>4, <2>5, <2>6, <2>7, ChangedServing
<1> QED
  BY <1>2, <1>3

\* The job that is made is not one known to be over.
LEMMA MadeServing ==
    ASSUME RelayInv, RelaysServe, NEW r \in Relays, NEW j \in Jobs, TakeMade(r, j),
           wire # <<>>, Head(wire).kind = "made", Head(wire).job = j
    PROVE  RelaysServe'
<1>1. j \notin heard /\ j # NoJob
  <2>1. 1 \in 1..Len(wire) /\ Head(wire) = wire[1]
    BY DEF RelayInv
  <2> QED
    BY <2>1, SetupRelaysAssumption DEF RelayInv, MadeFirst
<1>2. heard' = heard /\ \A q \in Relays : <<q, "probe">> \in relayCalls => <<q, "probe">> \in relayCalls'
  BY DEF TakeMade
<1>3. CASE relay' = relay
  BY <1>2, <1>3, ClosedServing
<1>4. CASE relay' # relay
  <2>1. relay' = [relay EXCEPT ![r].job = j] /\ Open(r)
    BY <1>4 DEF TakeMade
  <2>2. PICK x : x = [relay[r] EXCEPT !.job = j]
    OBVIOUS
  <2>3. relay[r] \in RelayRecords /\ ServesAUse(r)
    BY DEF RelaysServe
  <2>4. relay' = [relay EXCEPT ![r] = x]
    BY <2>1, <2>2 DEF RelaysServe
  <2>5. /\ x \in RelayRecords /\ x.open = relay[r].open /\ x.use = relay[r].use
        /\ x.job = j /\ x.streams = relay[r].streams
    BY <2>2, <2>3, JobChanged
  <2>6. x.open => /\ x.use = "probing" => <<r, "probe">> \in relayCalls'
                  /\ x.job # NoJob => x.job \notin heard'
    BY <1>1, <1>2, <2>1, <2>3, <2>5 DEF ServesAUse, Open
  <2>7. x.streams # {} => x.open /\ (x.use = "probing" \/ x.job # NoJob)
    BY <1>1, <2>1, <2>5 DEF Open
  <2> QED
    BY <1>2, <2>4, <2>5, <2>6, <2>7, ChangedServing
<1> QED
  BY <1>3, <1>4

LEMMA EndSetupServing ==
    ASSUME RelaysServe, NEW j, relayCalls' = relayCalls,
           heard' = heard \cup {j}, relay' = Closed(relay, ForJob(relay, j))
    PROVE  RelaysServe'
<1>1. ForJob(relay, j) = {r \in Relays : relay[r].job \in {j}}
  BY DEF ForJob
<1> QED
  BY <1>1, OverServing

LEMMA FrameServing ==
    ASSUME RelayInv, RelaysServe, TakeFrame
    PROVE  RelaysServe'
<1>1. PICK f \in Frames : f = Head(wire) /\ wire # <<>>
  BY DEF TakeFrame, RelayInv
<1>2. /\ f.kind \in {"open", "end", "done", "probed", "made", "refused", "progress", "status"}
      /\ f.kind \in {"open", "end"} => f.relay \in Relays /\ f.stream \in Streams
      /\ f.kind \in {"probed", "made", "refused"} => f.relay \in Relays
      /\ f.kind \in {"made", "progress", "status"} => f.job \in Jobs
  BY FrameCarries
<1>3. CASE f.kind = "open"
  BY <1>1, <1>2, <1>3, OpenServing DEF TakeFrame
<1>4. CASE f.kind = "end"
  <2>1. TakeEnd(f.relay, f.stream)
    BY <1>1, <1>4 DEF TakeFrame
  <2> QED
    BY <1>2, <1>4, <2>1, EndServing DEF TakeEnd
<1>5. CASE f.kind = "done"
  <2>1. TakeDone(f.relay)
    BY <1>1, <1>5 DEF TakeFrame
  <2> QED
    BY <2>1, ClosedServing DEF TakeDone
<1>6. CASE f.kind = "probed"
  <2>1. TakeProbed(f.relay)
    BY <1>1, <1>6 DEF TakeFrame
  <2>2. CASE <<f.relay, "probe">> \in relayCalls
    BY <1>2, <1>6, <2>1, <2>2, ProbedServing DEF TakeProbed
  <2>3. CASE <<f.relay, "probe">> \notin relayCalls
    BY <2>1, <2>3, ClosedServing DEF TakeProbed
  <2> QED
    BY <2>2, <2>3
<1>7. CASE f.kind = "made"
  <2>1. TakeMade(f.relay, f.job)
    BY <1>1, <1>7 DEF TakeFrame
  <2> QED
    BY <1>1, <1>2, <1>7, <2>1, MadeServing
<1>8. CASE f.kind = "refused"
  <2>1. TakeRefused(f.relay, f.why)
    BY <1>1, <1>8 DEF TakeFrame
  <2> QED
    BY <2>1, ClosedServing DEF TakeRefused, NotBegun
<1>9. CASE f.kind = "progress"
  <2>1. TakeProgress(f.job)
    BY <1>1, <1>9 DEF TakeFrame
  <2>2. CASE SetupOn(f.job) \/ f.job \in RecordedJobs
    BY <2>1, <2>2, EndSetupServing DEF TakeProgress, EndSetup
  <2>3. CASE ~(SetupOn(f.job) \/ f.job \in RecordedJobs)
    BY <2>1, <2>3, ClosedServing DEF TakeProgress
  <2> QED
    BY <2>2, <2>3
<1>10. CASE f.kind = "status"
  <2>1. TakeStatus(f.job)
    BY <1>1, <1>10 DEF TakeFrame
  <2> QED
    BY <2>1, EndSetupServing DEF TakeStatus
<1> QED
  BY <1>2, <1>3, <1>4, <1>5, <1>6, <1>7, <1>8, <1>9, <1>10

LEMMA ServingStep ==
    ASSUME RelayInv, SetupRelaysNext
    PROVE  RelaysServe'
<1>0. RelaysServe
  BY RelayTypesAre DEF RelayInv, RelaysServe
<1>1. ASSUME NEW r \in Relays, OpenRelay(r) PROVE RelaysServe'
  <2>1. /\ relay' = [relay EXCEPT ![r] = FreshRelay] /\ relayCalls' = relayCalls
        /\ heard' = heard
    BY <1>1 DEF OpenRelay
  <2> QED
    BY <1>0, <2>1, GoneIs, ChangedServing
<1>2. ASSUME NEW r \in Relays, RelayCloses(r) PROVE RelaysServe'
  BY <1>0, <1>2, ClosedServing DEF RelayCloses
<1>3. ASSUME NEW r \in Relays, NEW s \in Streams, PhoneEnds(r, s) PROVE RelaysServe'
  BY <1>0, <1>3, EndServing DEF PhoneEnds
<1>4. ASSUME NEW r \in Relays, ProbeThrough(r) \/ Begin(r) PROVE RelaysServe'
  <2>1. heard' = heard
    BY <1>4 DEF ProbeThrough, Begin
  <2> QED
    BY <1>0, <1>4, <2>1, ClaimServing
<1>5. ASSUME NEW r \in Relays, CallFails(r, "probe") PROVE RelaysServe'
  BY <1>0, <1>5, ProbedServing DEF CallFails
<1>6. ASSUME NEW r \in Relays, CallFails(r, "begin") PROVE RelaysServe'
  BY <1>0, <1>6, ClosedServing DEF CallFails, NotBegun
<1>7. ASSUME relay' = relay, relayCalls' = relayCalls, heard' \subseteq heard PROVE RelaysServe'
  BY <1>0, <1>7, ClosedServing
<1>8. ASSUME NEW r \in Relays, StartsProbe(r) \/ EndsProbe(r) PROVE RelaysServe'
  BY <1>7, <1>8 DEF StartsProbe, EndsProbe, coordVars
<1>9. ASSUME NEW r \in Relays, NEW j \in Jobs, MakesJob(r, j) PROVE RelaysServe'
  BY <1>7, <1>9 DEF MakesJob, coordVars
<1>10. ASSUME NEW r \in Relays, NEW why, RefusesJob(r, why) PROVE RelaysServe'
  BY <1>7, <1>10 DEF RefusesJob, coordVars
<1>11. ASSUME NEW r \in Relays, NEW s \in Streams, OpensStream(r, s) \/ EndsStream(r, s)
       PROVE  RelaysServe'
  BY <1>7, <1>11 DEF OpensStream, EndsStream, coordVars
<1>12. ASSUME NEW j \in Jobs, AskStatus(j) PROVE RelaysServe'
  <2>1. CASE SetupOn(j)
    BY <1>7, <1>12, <2>1 DEF AskStatus
  <2>2. CASE ~SetupOn(j)
    BY <1>0, <1>12, <2>2, EndSetupServing DEF AskStatus, EndSetup
  <2> QED
    BY <2>1, <2>2
<1>13. ASSUME NEW j \in Jobs, EndsJob(j) \/ RelayForgotten(j) PROVE RelaysServe'
  <2>1. relay' = relay /\ relayCalls' = relayCalls /\ heard' \subseteq heard
    BY <1>13 DEF EndsJob, RelayForgotten, coordVars
  <2> QED
    BY <1>7, <2>1
<1>14. CASE TakeFrame
  BY <1>0, <1>14, FrameServing
<1>15. CASE Rekeyed \/ SocketReturns
  BY <1>7, <1>15 DEF Rekeyed, SocketReturns, coordVars
<1>16. CASE RelayRevoked
  BY <1>0, <1>16, OverServing DEF RelayRevoked
<1>17. CASE SocketDrops \/ CoordinatorRestarts
  BY <1>0, <1>17, AllClosedServing DEF SocketDrops, CoordinatorRestarts
<1> QED
  BY <1>1, <1>2, <1>3, <1>4, <1>5, <1>6, <1>8, <1>9, <1>10, <1>11, <1>12, <1>13, <1>14, <1>15,
     <1>16, <1>17 DEF SetupRelaysNext

---------------------------------------------------------------------------
(* The wire: a job is first heard of by the answer to its begin *)

SetupsKnown == setups \in Seq(Jobs) /\ Len(setups) <= MaxSetups

WireKnown == wire \in Seq(Frames) /\ NewUnknown /\ MadeFirst

\* The machine says more, or nothing.
LEMMA WireGrows ==
    ASSUME RelayInv, wire' \in Seq(Frames), Len(wire') >= Len(wire),
           \A i \in 1..Len(wire) : wire'[i] = wire[i],
           \A i \in 1..Len(wire') : i > Len(wire) =>
              /\ \A j \in Jobs : AboutJob(wire'[i], j) => jobs'[j] # "none"
              /\ wire'[i].kind = "made" =>
                    Len(wire') = Len(wire) + 1 /\ jobs[wire'[i].job] = "none",
           \A j \in Jobs : jobs'[j] = "none" =>
              \/ jobs[j] = "none"
              \/ /\ j \notin heard' /\ j \notin RecordedJobs
                 /\ \A i \in 1..Len(wire) : ~AboutJob(wire[i], j),
           heard' \subseteq heard \cup RecordedJobs, RecordedJobs' \subseteq RecordedJobs
    PROVE  WireKnown'
<1>0. wire \in Seq(Frames) /\ Len(wire) \in Nat /\ Len(wire') \in Nat
  BY DEF RelayInv
<1>1. NewUnknown'
  <2> SUFFICES ASSUME NEW j \in Jobs, jobs'[j] = "none"
               PROVE  /\ j \notin heard' /\ j \notin RecordedJobs'
                      /\ \A i \in 1..Len(wire') : ~AboutJob(wire'[i], j)
    BY DEF NewUnknown, AboutJob
  <2>1. j \notin heard' /\ j \notin RecordedJobs /\ \A i \in 1..Len(wire) : ~AboutJob(wire[i], j)
    BY DEF RelayInv, NewUnknown
  <2>2. ASSUME NEW i \in 1..Len(wire') PROVE ~AboutJob(wire'[i], j)
    <3>1. CASE i > Len(wire)
      BY <3>1
    <3>2. CASE i <= Len(wire)
      <4>1. i \in 1..Len(wire)
        BY <1>0, <3>2
      <4>2. wire'[i] = wire[i]
        BY <4>1
      <4> QED
        BY <2>1, <4>1, <4>2
    <3> QED
      BY <1>0, <3>1, <3>2
  <2> QED
    BY <2>1, <2>2
<1>2. MadeFirst'
  <2> SUFFICES ASSUME NEW i \in 1..Len(wire'), wire'[i].kind = "made"
               PROVE  /\ wire'[i].job \notin heard' /\ wire'[i].job \notin RecordedJobs'
                      /\ \A k \in 1..Len(wire') : AboutJob(wire'[k], wire'[i].job) => k >= i
    BY DEF MadeFirst, AboutJob
  <2>1. PICK f \in Frames : f = wire'[i]
    OBVIOUS
  <2>2. f.kind = "made" /\ f.job \in Jobs
    BY <2>1, FrameCarries
  <2>3. CASE i > Len(wire)
    <3>1. Len(wire') = Len(wire) + 1 /\ jobs[f.job] = "none"
      BY <2>1, <2>3
    <3>2. /\ f.job \notin heard /\ f.job \notin RecordedJobs
          /\ \A k \in 1..Len(wire) : ~AboutJob(wire[k], f.job)
      BY <2>2, <3>1 DEF RelayInv, NewUnknown
    <3>3. ASSUME NEW k \in 1..Len(wire'), k < i PROVE ~AboutJob(wire'[k], f.job)
      <4>1. k \in 1..Len(wire)
        BY <1>0, <3>1, <3>3
      <4>2. wire'[k] = wire[k]
        BY <4>1
      <4> QED
        BY <3>2, <4>1, <4>2
    <3> QED
      BY <1>0, <2>1, <3>2, <3>3
  <2>4. CASE i <= Len(wire)
    <3>1. i \in 1..Len(wire)
      BY <1>0, <2>4
    <3>2. wire[i] = f
      BY <2>1, <3>1
    <3>3. /\ f.job \notin heard /\ f.job \notin RecordedJobs
          /\ \A k \in 1..Len(wire) : AboutJob(wire[k], f.job) => k >= i
      BY <2>2, <3>1, <3>2 DEF RelayInv, MadeFirst
    <3>4. ASSUME NEW k \in 1..Len(wire'), AboutJob(wire'[k], f.job) PROVE k >= i
      <4>1. CASE k <= Len(wire)
        <5>1. k \in 1..Len(wire)
          BY <1>0, <4>1
        <5>2. wire'[k] = wire[k]
          BY <5>1
        <5> QED
          BY <3>3, <3>4, <5>1, <5>2
      <4>2. CASE k > Len(wire)
        BY <1>0, <2>4, <4>2
      <4> QED
        BY <1>0, <4>1, <4>2
    <3> QED
      BY <2>1, <3>3, <3>4
  <2> QED
    BY <1>0, <2>3, <2>4
<1> QED
  BY <1>1, <1>2 DEF WireKnown

LEMMA WireKept ==
    ASSUME RelayInv, wire' = wire,
           \A j \in Jobs : jobs'[j] = "none" =>
              \/ jobs[j] = "none"
              \/ /\ j \notin heard' /\ j \notin RecordedJobs
                 /\ \A i \in 1..Len(wire) : ~AboutJob(wire[i], j),
           heard' \subseteq heard \cup RecordedJobs, RecordedJobs' \subseteq RecordedJobs
    PROVE  WireKnown'
<1>1. wire \in Seq(Frames) /\ Len(wire) \in Nat
  BY DEF RelayInv
<1>2. /\ wire' \in Seq(Frames) /\ Len(wire') >= Len(wire)
      /\ \A i \in 1..Len(wire) : wire'[i] = wire[i]
      /\ \A i \in 1..Len(wire') : ~(i > Len(wire))
  BY <1>1
<1> QED
  BY <1>2, WireGrows

\* The machine says one thing more.
LEMMA WireSays ==
    ASSUME RelayInv, NEW f \in Frames, wire' = Append(wire, f),
           \A j \in Jobs : AboutJob(f, j) => jobs'[j] # "none",
           f.kind = "made" => jobs[f.job] = "none",
           \A j \in Jobs : jobs'[j] = "none" => jobs[j] = "none",
           heard' = heard, setups' = setups
    PROVE  WireKnown'
<1>1. wire \in Seq(Frames) /\ Len(wire) \in Nat
  BY DEF RelayInv
<1>2. /\ wire' \in Seq(Frames) /\ Len(wire') = Len(wire) + 1
      /\ \A i \in 1..Len(wire) : wire'[i] = wire[i]
      /\ wire'[Len(wire) + 1] = f
  BY <1>1, AppendProperties
<1>3. RecordedJobs' = RecordedJobs
  BY DEF RecordedJobs
<1>4. ASSUME NEW i \in 1..Len(wire'), i > Len(wire) PROVE wire'[i] = f
  <2>1. i = Len(wire) + 1
    BY <1>1, <1>2, <1>4
  <2> QED
    BY <1>2, <2>1
<1>5. Len(wire') >= Len(wire)
  BY <1>1, <1>2
<1> QED
  BY <1>2, <1>3, <1>4, <1>5, WireGrows

\* The coordinator takes the first frame: what it learns of jobs is of one it
\* had recorded, or of the frame's.
LEMMA WireTaken ==
    ASSUME RelayInv, wire # <<>>, wire' = Tail(wire), jobs' = jobs,
           \A j \in Jobs : j \in heard' => j \in heard \/ j \in RecordedJobs \/ AboutJob(wire[1], j),
           \A j \in Jobs : j \in RecordedJobs' => j \in RecordedJobs \/ AboutJob(wire[1], j)
    PROVE  WireKnown'
<1>0. /\ wire \in Seq(Frames) /\ Len(wire) \in Nat /\ 1 \in 1..Len(wire)
      /\ wire' \in Seq(Frames) /\ Len(wire') \in Nat /\ Len(wire) = Len(wire') + 1
      /\ \A i \in 1..Len(wire') : i + 1 \in 1..Len(wire) /\ wire'[i] = wire[i + 1]
  <2>1. wire \in Seq(Frames) /\ Len(wire) \in Nat /\ Len(wire) # 0
    BY DEF RelayInv
  <2>2. /\ Tail(wire) \in Seq(Frames) /\ Len(Tail(wire)) = Len(wire) - 1
        /\ \A i \in 1..Len(Tail(wire)) : Tail(wire)[i] = wire[i + 1]
    BY <2>1, HeadTailProperties
  <2> QED
    BY <2>1, <2>2
<1>1. NewUnknown'
  <2> SUFFICES ASSUME NEW j \in Jobs, jobs[j] = "none"
               PROVE  /\ j \notin heard' /\ j \notin RecordedJobs'
                      /\ \A i \in 1..Len(wire') : ~AboutJob(wire'[i], j)
    BY DEF NewUnknown, AboutJob
  <2>1. j \notin heard /\ j \notin RecordedJobs /\ \A i \in 1..Len(wire) : ~AboutJob(wire[i], j)
    BY DEF RelayInv, NewUnknown
  <2>2. ASSUME NEW i \in 1..Len(wire') PROVE ~AboutJob(wire'[i], j)
    BY <1>0, <2>1
  <2> QED
    BY <1>0, <2>1, <2>2
<1>2. MadeFirst'
  <2> SUFFICES ASSUME NEW i \in 1..Len(wire'), wire'[i].kind = "made"
               PROVE  /\ wire'[i].job \notin heard' /\ wire'[i].job \notin RecordedJobs'
                      /\ \A k \in 1..Len(wire') : AboutJob(wire'[k], wire'[i].job) => k >= i
    BY DEF MadeFirst, AboutJob
  <2>1. PICK f \in Frames : f = wire'[i]
    BY <1>0
  <2>2. f.kind = "made" /\ f.job \in Jobs
    BY <2>1, FrameCarries
  <2>3. i + 1 \in 1..Len(wire) /\ wire[i + 1] = f
    BY <1>0, <2>1
  <2>4. /\ f.job \notin heard /\ f.job \notin RecordedJobs
        /\ \A k \in 1..Len(wire) : AboutJob(wire[k], f.job) => k >= i + 1
    BY <2>2, <2>3 DEF RelayInv, MadeFirst
  <2>5. ~AboutJob(wire[1], f.job)
    BY <1>0, <2>4
  <2>6. ASSUME NEW k \in 1..Len(wire'), AboutJob(wire'[k], f.job) PROVE k >= i
    <3>1. k + 1 \in 1..Len(wire) /\ AboutJob(wire[k + 1], f.job)
      BY <1>0, <2>6
    <3>2. k + 1 >= i + 1
      BY <2>4, <3>1
    <3> QED
      BY <1>0, <3>2
  <2> QED
    BY <2>1, <2>2, <2>4, <2>5, <2>6
<1> QED
  BY <1>0, <1>1, <1>2 DEF WireKnown

\* Records taken away, and added.
LEMMA EndedRecords ==
    ASSUME SetupsKnown, NEW j, setups' = RemoveFirst(setups, j)
    PROVE  SetupsKnown' /\ RecordedJobs' \subseteq RecordedJobs
<1>1. /\ setups' \in Seq(Jobs) /\ Len(setups') <= Len(setups) /\ Len(setups) \in Nat
      /\ \A i \in 1..Len(setups') : \E k \in 1..Len(setups) : setups'[i] = setups[k]
  BY WithoutFirst DEF SetupsKnown
<1>2. Len(setups') <= MaxSetups
  BY <1>1, SetupRelaysAssumption DEF SetupsKnown
<1>3. RecordedJobs' \subseteq RecordedJobs
  BY <1>1 DEF RecordedJobs, SetupsKnown
<1> QED
  BY <1>1, <1>2, <1>3 DEF SetupsKnown

LEMMA AddedRecord ==
    ASSUME SetupsKnown, NEW j \in Jobs, Recording(j)
    PROVE  SetupsKnown' /\ \A x \in RecordedJobs' : x \in RecordedJobs \/ x = j
<1>1. PICK n \in Nat : n = Len(setups)
  BY DEF SetupsKnown
<1>2. PICK dropped \in 0..n : /\ n - dropped < MaxSetups
                          /\ setups' = Append(SubSeq(setups, dropped + 1, n), j)
  BY <1>1 DEF Recording
<1>3. PICK u : u = SubSeq(setups, dropped + 1, n)
  OBVIOUS
<1>4. /\ u \in Seq(Jobs) /\ Len(u) = n - dropped
      /\ \A i \in 1..(n - dropped) : u[i] = setups[i + dropped]
  <2>1. \A i \in (dropped + 1)..n : setups[i] \in Jobs
    BY <1>1, <1>2 DEF SetupsKnown
  <2>2. /\ SubSeq(setups, dropped + 1, n) \in Seq(Jobs)
        /\ Len(SubSeq(setups, dropped + 1, n)) = IF dropped + 1 <= n THEN n - (dropped + 1) + 1 ELSE 0
        /\ \A i \in 1 .. n - (dropped + 1) + 1 : SubSeq(setups, dropped + 1, n)[i] = setups[(dropped + 1) + i - 1]
    BY <1>1, <1>2, <2>1, SubSeqProperties
  <2> QED
    BY <1>2, <1>3, <2>2
<1>5. /\ setups' \in Seq(Jobs) /\ Len(setups') = n - dropped + 1
      /\ \A i \in 1..(n - dropped) : setups'[i] = u[i]
      /\ setups'[n - dropped + 1] = j
  BY <1>2, <1>3, <1>4, AppendProperties
<1>6. Len(setups') <= MaxSetups
  BY <1>1, <1>2, <1>5, SetupRelaysAssumption
<1>7. ASSUME NEW x \in RecordedJobs' PROVE x \in RecordedJobs \/ x = j
  <2>1. PICK i \in 1..(n - dropped + 1) : x = setups'[i]
    BY <1>5 DEF RecordedJobs
  <2>2. CASE i = n - dropped + 1
    BY <1>5, <2>1, <2>2
  <2>3. CASE i # n - dropped + 1
    <3>1. i \in 1..(n - dropped) /\ i + dropped \in 1..n
      BY <1>2, <2>1, <2>3
    <3>2. x = setups[i + dropped]
      BY <1>4, <1>5, <2>1, <3>1
    <3> QED
      BY <1>1, <3>1, <3>2 DEF RecordedJobs, SetupsKnown
  <2> QED
    BY <2>2, <2>3
<1> QED
  BY <1>5, <1>6, <1>7 DEF SetupsKnown

LEMMA WireTold ==
    ASSUME RelayInv, NEW t \in Seq(Frames), wire' = wire \o t,
           \A i \in 1..Len(t) : t[i].kind # "made" /\ \A j \in Jobs : AboutJob(t[i], j) => jobs'[j] # "none",
           \A j \in Jobs : jobs'[j] = "none" => jobs[j] = "none",
           heard' = heard, setups' = setups
    PROVE  WireKnown'
<1>1. wire \in Seq(Frames) /\ Len(wire) \in Nat /\ Len(t) \in Nat
  BY DEF RelayInv
<1>2. PICK w : w = wire
  OBVIOUS
<1>3. /\ w \o t \in Seq(Frames) /\ Len(w \o t) = Len(w) + Len(t)
      /\ \A i \in 1 .. Len(w) + Len(t) : (w \o t)[i] = IF i <= Len(w) THEN w[i] ELSE t[i - Len(w)]
  BY <1>1, <1>2, ConcatProperties
<1>4. /\ wire' \in Seq(Frames) /\ Len(wire') = Len(wire) + Len(t)
      /\ \A i \in 1 .. Len(wire) + Len(t) : wire'[i] = IF i <= Len(wire) THEN wire[i] ELSE t[i - Len(wire)]
  BY <1>2, <1>3
<1>5. \A i \in 1..Len(wire) : wire'[i] = wire[i]
  BY <1>1, <1>4
<1>6. ASSUME NEW i \in 1..Len(wire'), i > Len(wire)
      PROVE  wire'[i].kind # "made" /\ \A j \in Jobs : AboutJob(wire'[i], j) => jobs'[j] # "none"
  <2>1. i - Len(wire) \in 1..Len(t)
    BY <1>1, <1>4, <1>6
  <2>2. wire'[i] = t[i - Len(wire)]
    BY <1>1, <1>4, <1>6
  <2> QED
    BY <2>1, <2>2
<1>7. RecordedJobs' = RecordedJobs
  BY DEF RecordedJobs
<1>8. Len(wire') >= Len(wire)
  BY <1>1, <1>4
<1> QED
  BY <1>4, <1>5, <1>6, <1>7, <1>8, WireGrows

LEMMA EndsJobWire ==
    ASSUME RelayInv, NEW j \in Jobs, EndsJob(j)
    PROVE  WireKnown'
<1>1. /\ jobs \in [Jobs -> {"none", "running", "over"}] /\ carrier[j] \in Relays \cup {NoRelay}
      /\ jobs' = [jobs EXCEPT ![j] = "over"] /\ heard' = heard /\ setups' = setups
  BY DEF EndsJob, coordVars, RelayInv, SetupRelaysTypeOK
<1>2. PICK p : p = [kind |-> "progress", job |-> j]
  OBVIOUS
<1>3. PICK d : d = [kind |-> "done", relay |-> carrier[j]]
  OBVIOUS
<1>4. p \in Frames /\ p.kind = "progress" /\ p.job = j
  BY <1>2 DEF Frames
<1>5. d \in Frames /\ d.kind = "done"
  BY <1>1, <1>3 DEF Frames
<1>6. PICK told \in {<<>>, <<p>>, <<p, d>>} : wire' = IF up THEN wire \o told ELSE wire
  BY <1>2, <1>3 DEF EndsJob
<1>7. told \in Seq(Frames) /\ \A i \in 1..Len(told) : told[i] = p \/ told[i] = d
  <2>1. CASE told = <<>>
    BY <2>1
  <2>2. CASE told = <<p>>
    BY <1>4, <2>2
  <2>3. CASE told = <<p, d>>
    BY <1>4, <1>5, <2>3
  <2> QED
    BY <1>6, <2>1, <2>2, <2>3
<1>8. /\ jobs'[j] = "over" /\ \A k \in Jobs : jobs'[k] = "none" => jobs[k] = "none"
  BY <1>1
<1>9. \A i \in 1..Len(told) :
         told[i].kind # "made" /\ \A k \in Jobs : AboutJob(told[i], k) => jobs'[k] # "none"
  BY <1>4, <1>5, <1>7, <1>8 DEF AboutJob
<1>10. CASE up
  BY <1>1, <1>6, <1>7, <1>8, <1>9, <1>10, WireTold
<1>11. CASE ~up
  <2>1. RecordedJobs' = RecordedJobs
    BY <1>1 DEF RecordedJobs
  <2> QED
    BY <1>1, <1>6, <1>8, <1>11, <2>1, WireKept
<1> QED
  BY <1>10, <1>11

LEMMA FrameWire ==
    ASSUME RelayInv, SetupsKnown, TakeFrame
    PROVE  WireKnown' /\ SetupsKnown'
<1>1. PICK f \in Frames : f = Head(wire) /\ f = wire[1] /\ wire # <<>>
  BY DEF TakeFrame, RelayInv
<1>2. /\ f.kind \in {"open", "end", "done", "probed", "made", "refused", "progress", "status"}
      /\ f.kind \in {"made", "progress", "status"} => f.job \in Jobs
  BY FrameCarries
<1>3. wire' = Tail(wire) /\ jobs' = jobs
  BY DEF TakeFrame
<1>4. ASSUME heard' = heard, setups' = setups PROVE WireKnown' /\ SetupsKnown'
  <2>1. RecordedJobs' = RecordedJobs /\ SetupsKnown'
    BY <1>4 DEF RecordedJobs, SetupsKnown
  <2> QED
    BY <1>1, <1>3, <1>4, <2>1, WireTaken
<1>5. CASE f.kind \in {"open", "end", "done", "probed", "refused"}
  <2>1. heard' = heard /\ setups' = setups
    BY <1>1, <1>5 DEF TakeFrame, TakeOpen, TakeEnd, TakeDone, TakeProbed, TakeRefused
  <2> QED
    BY <1>4, <2>1
<1>6. CASE f.kind = "made"
  <2>1. TakeMade(f.relay, f.job)
    BY <1>1, <1>6 DEF TakeFrame
  <2>2. heard' = heard /\ (setups' = setups \/ Recording(f.job))
    BY <2>1 DEF TakeMade
  <2>3. CASE Recording(f.job)
    <3>1. SetupsKnown' /\ \A x \in RecordedJobs' : x \in RecordedJobs \/ x = f.job
      BY <1>2, <1>6, <2>3, AddedRecord
    <3>2. AboutJob(wire[1], f.job)
      BY <1>1, <1>6 DEF AboutJob
    <3> QED
      BY <1>1, <1>3, <2>2, <3>1, <3>2, WireTaken
  <2> QED
    BY <1>4, <2>2, <2>3
<1>7. CASE f.kind \in {"progress", "status"}
  <2>1. AboutJob(wire[1], f.job)
    BY <1>1, <1>7 DEF AboutJob
  <2>2. /\ heard' = heard \/ heard' = heard \cup {f.job}
        /\ setups' = setups \/ setups' = RemoveFirst(setups, f.job)
    BY <1>1, <1>7 DEF TakeFrame, TakeProgress, TakeStatus, EndSetup
  <2>3. SetupsKnown' /\ RecordedJobs' \subseteq RecordedJobs
    <3>1. CASE setups' = setups
      BY <3>1 DEF SetupsKnown, RecordedJobs
    <3>2. CASE setups' = RemoveFirst(setups, f.job)
      BY <3>2, EndedRecords
    <3> QED
      BY <2>2, <3>1, <3>2
  <2> QED
    BY <1>1, <1>3, <2>1, <2>2, <2>3, WireTaken
<1> QED
  BY <1>2, <1>5, <1>6, <1>7

LEMMA WireStep ==
    ASSUME RelayInv, SetupRelaysNext
    PROVE  WireKnown' /\ SetupsKnown'
<1>0. /\ SetupsKnown /\ jobs \in [Jobs -> {"none", "running", "over"}]
      /\ wire \in Seq(Frames)
  BY RelayTypesAre DEF RelayInv, SetupsKnown
<1>1. ASSUME wire' = wire, jobs' = jobs, heard' = heard, setups' = setups
      PROVE  WireKnown' /\ SetupsKnown'
  <2>1. RecordedJobs' = RecordedJobs /\ SetupsKnown'
    BY <1>0, <1>1 DEF RecordedJobs, SetupsKnown
  <2> QED
    BY <1>1, <2>1, WireKept
<1>2. ASSUME NEW f \in Frames, f.kind \notin {"made", "progress", "status"}, wire' = Append(wire, f),
             jobs' = jobs, heard' = heard, setups' = setups
      PROVE  WireKnown' /\ SetupsKnown'
  <2>1. SetupsKnown' /\ \A j \in Jobs : ~AboutJob(f, j)
    BY <1>0, <1>2 DEF SetupsKnown, AboutJob
  <2> QED
    BY <1>2, <2>1, WireSays
<1>3. ASSUME NEW r \in Relays,
             \/ OpenRelay(r) \/ RelayCloses(r) \/ ProbeThrough(r) \/ Begin(r)
             \/ CallFails(r, "probe") \/ CallFails(r, "begin") \/ StartsProbe(r)
             \/ \E s \in Streams : PhoneEnds(r, s)
      PROVE  WireKnown' /\ SetupsKnown'
  <2>1. wire' = wire /\ jobs' = jobs /\ heard' = heard /\ setups' = setups
    BY <1>3 DEF OpenRelay, RelayCloses, ProbeThrough, Begin, CallFails, StartsProbe, PhoneEnds,
                machineVars, coordVars
  <2> QED
    BY <1>1, <2>1
<1>4. ASSUME NEW r \in Relays, EndsProbe(r) PROVE WireKnown' /\ SetupsKnown'
  <2>1. PICK f : f = [kind |-> "probed", relay |-> r]
    OBVIOUS
  <2>2. f \in Frames /\ f.kind = "probed"
    BY <2>1 DEF Frames
  <2> QED
    BY <1>2, <1>4, <2>1, <2>2 DEF EndsProbe, Says, coordVars
<1>5. ASSUME NEW r \in Relays, NEW j \in Jobs, MakesJob(r, j) PROVE WireKnown' /\ SetupsKnown'
  <2>1. PICK f : f = [kind |-> "made", relay |-> r, job |-> j]
    OBVIOUS
  <2>2. f \in Frames /\ f.kind = "made" /\ f.job = j
    BY <2>1 DEF Frames
  <2>3. /\ jobs[j] = "none" /\ jobs' = [jobs EXCEPT ![j] = "running"] /\ wire' = Append(wire, f)
        /\ heard' = heard /\ setups' = setups
    BY <1>5, <2>1 DEF MakesJob, Says, coordVars
  <2>4. /\ \A k \in Jobs : AboutJob(f, k) => jobs'[k] # "none"
        /\ \A k \in Jobs : jobs'[k] = "none" => jobs[k] = "none"
    BY <1>0, <2>2, <2>3 DEF AboutJob
  <2>5. SetupsKnown'
    BY <1>0, <2>3 DEF SetupsKnown
  <2> QED
    BY <2>2, <2>3, <2>4, <2>5, WireSays
<1>6. ASSUME NEW r \in Relays, NEW why \in {"outdated", "failed"}, RefusesJob(r, why)
      PROVE  WireKnown' /\ SetupsKnown'
  <2>1. PICK f : f = [kind |-> "refused", relay |-> r, why |-> why]
    OBVIOUS
  <2>2. f \in Frames /\ f.kind = "refused"
    BY <2>1 DEF Frames
  <2> QED
    BY <1>2, <1>6, <2>1, <2>2 DEF RefusesJob, Says, coordVars
<1>7. ASSUME NEW r \in Relays, NEW s \in Streams, OpensStream(r, s) \/ EndsStream(r, s)
      PROVE  WireKnown' /\ SetupsKnown'
  <2>1. PICK f : f \in {[kind |-> "open", relay |-> r, stream |-> s],
                        [kind |-> "end", relay |-> r, stream |-> s]} /\ wire' = Append(wire, f)
    BY <1>7 DEF OpensStream, EndsStream, Says
  <2>2. f \in Frames /\ f.kind \in {"open", "end"}
    BY <2>1 DEF Frames
  <2>3. jobs' = jobs /\ heard' = heard /\ setups' = setups
    BY <1>7 DEF OpensStream, EndsStream, coordVars
  <2> QED
    BY <1>2, <2>1, <2>2, <2>3
<1>8. ASSUME NEW j \in Jobs, AskStatus(j) PROVE WireKnown' /\ SetupsKnown'
  <2>1. CASE SetupOn(j)
    <3>1. PICK f : f = [kind |-> "status", job |-> j]
      OBVIOUS
    <3>2. f \in Frames /\ f.kind = "status" /\ f.job = j
      BY <3>1 DEF Frames
    <3>3. /\ jobs[j] = "over" /\ jobs' = jobs /\ wire' = Append(wire, f)
          /\ heard' = heard /\ setups' = setups
      BY <1>8, <2>1, <3>1 DEF AskStatus
    <3>4. SetupsKnown' /\ \A k \in Jobs : AboutJob(f, k) => jobs'[k] # "none"
      BY <1>0, <3>2, <3>3 DEF SetupsKnown, AboutJob
    <3> QED
      BY <3>2, <3>3, <3>4, WireSays
  <2>2. CASE ~SetupOn(j)
    <3>1. /\ j \in RecordedJobs /\ setups' = RemoveFirst(setups, j) /\ heard' = heard \cup {j}
          /\ wire' = wire /\ jobs' = jobs
      BY <1>8, <2>2 DEF AskStatus, EndSetup
    <3>2. SetupsKnown' /\ RecordedJobs' \subseteq RecordedJobs
      BY <1>0, <3>1, EndedRecords
    <3> QED
      BY <3>1, <3>2, WireKept
  <2> QED
    BY <2>1, <2>2
<1>9. ASSUME NEW j \in Jobs, EndsJob(j) PROVE WireKnown' /\ SetupsKnown'
  BY <1>0, <1>9, EndsJobWire DEF EndsJob, coordVars, SetupsKnown
<1>10. ASSUME NEW j \in Jobs, RelayForgotten(j) PROVE WireKnown' /\ SetupsKnown'
  <2>1. /\ wire' = wire /\ setups' = setups /\ jobs' = [jobs EXCEPT ![j] = "none"]
        /\ heard' = heard \ {j} /\ j \notin RecordedJobs
    BY <1>10 DEF RelayForgotten
  <2>2. \A i \in 1..Len(wire) : ~AboutJob(wire[i], j)
    <3> SUFFICES ASSUME NEW i \in 1..Len(wire), AboutJob(wire[i], j) PROVE FALSE
      OBVIOUS
    <3>1. wire[i] \in Frames /\ i \in DOMAIN wire
      BY <1>0
    <3>2. "job" \in DOMAIN wire[i]
      BY <3>1, FrameCarries DEF AboutJob
    <3> QED
      BY <1>10, <3>1, <3>2 DEF RelayForgotten, AboutJob
  <2>3. \A k \in Jobs : jobs'[k] = "none" => jobs[k] = "none" \/ k = j
    BY <1>0, <2>1
  <2>4. RecordedJobs' = RecordedJobs /\ SetupsKnown'
    BY <1>0, <2>1 DEF RecordedJobs, SetupsKnown
  <2> QED
    BY <2>1, <2>2, <2>3, <2>4, WireKept
<1>11. CASE TakeFrame
  BY <1>0, <1>11, FrameWire
<1>12. CASE Rekeyed \/ SocketReturns \/ CoordinatorRestarts
  <2>1. wire' = wire /\ jobs' = jobs /\ heard' = heard /\ setups' = setups
    BY <1>12 DEF Rekeyed, SocketReturns, CoordinatorRestarts, machineVars, coordVars
  <2> QED
    BY <1>1, <2>1
<1>13. CASE RelayRevoked
  <2>1. wire' = wire /\ jobs' = jobs /\ heard' = heard \cup RecordedJobs /\ setups' = <<>>
    BY <1>13 DEF RelayRevoked, machineVars
  <2>2. RecordedJobs' = {}
    BY <2>1 DEF RecordedJobs
  <2>3. SetupsKnown'
    BY <2>1, SetupRelaysAssumption DEF SetupsKnown
  <2> QED
    BY <2>1, <2>2, <2>3, WireKept
<1>14. CASE SocketDrops
  <2>1. wire' = <<>> /\ jobs' = jobs /\ heard' = heard /\ setups' = setups
    BY <1>14 DEF SocketDrops
  <2>2. SetupsKnown' /\ RecordedJobs' = RecordedJobs
    BY <1>0, <2>1 DEF SetupsKnown, RecordedJobs
  <2>3. NewUnknown'
    BY <2>1, <2>2 DEF RelayInv, NewUnknown
  <2>4. MadeFirst'
    BY <2>1 DEF MadeFirst
  <2> QED
    BY <2>1, <2>2, <2>3, <2>4 DEF WireKnown
<1> QED
  BY <1>3, <1>4, <1>5, <1>6, <1>7, <1>8, <1>9, <1>10, <1>11, <1>12, <1>13, <1>14
     DEF SetupRelaysNext

---------------------------------------------------------------------------
(* What follows *)

RestTyped ==
    /\ relayCalls \subseteq Relays \X {"probe", "begin"}
    /\ asked \subseteq Relays \X {"probe", "begin"}
    /\ begunOn \in [Jobs -> Nat] /\ enrolment \in Nat
    /\ up \in BOOLEAN /\ probes \subseteq Relays
    /\ jobs \in [Jobs -> {"none", "running", "over"}]
    /\ carrier \in [Jobs -> Relays \cup {NoRelay}]
    /\ heard \subseteq Jobs /\ relayUpsets \in 0..MaxRelayUpsets

LEMMA UpsetCounted ==
    ASSUME RestTyped, relayUpsets < MaxRelayUpsets, relayUpsets' = relayUpsets + 1
    PROVE  relayUpsets' \in 0..MaxRelayUpsets
<1>1. PICK m \in Nat : m = relayUpsets /\ m < MaxRelayUpsets
  BY SetupRelaysAssumption DEF RestTyped
<1>2. m + 1 \in 0..MaxRelayUpsets
  BY <1>1, SetupRelaysAssumption
<1> QED
  BY <1>1, <1>2

LEMMA RestStep ==
    ASSUME RelayInv, SetupRelaysNext
    PROVE  RestTyped'
<1>0. RestTyped /\ RecordedJobs \subseteq Jobs /\ wire \in Seq(Frames)
  BY DEF RelayInv, SetupRelaysTypeOK, RestTyped, RecordedJobs
<1>1. ASSUME NEW r \in Relays,
             \/ OpenRelay(r) \/ RelayCloses(r) \/ ProbeThrough(r) \/ Begin(r)
             \/ CallFails(r, "probe") \/ CallFails(r, "begin")
             \/ \E s \in Streams : PhoneEnds(r, s)
      PROVE  RestTyped'
  BY <1>0, <1>1 DEF OpenRelay, RelayCloses, ProbeThrough, Begin, RelayClaim, CallFails,
     PhoneEnds,
                    machineVars, RestTyped
<1>2. ASSUME NEW r \in Relays,
             \/ StartsProbe(r) \/ EndsProbe(r)
             \/ RefusesJob(r, "outdated") \/ RefusesJob(r, "failed")
             \/ \E s \in Streams : OpensStream(r, s) \/ EndsStream(r, s)
      PROVE  RestTyped'
  BY <1>0, <1>2 DEF StartsProbe, EndsProbe, RefusesJob, OpensStream, EndsStream, Answers,
     coordVars,
                    RestTyped
<1>3. ASSUME NEW r \in Relays, NEW j \in Jobs, MakesJob(r, j) PROVE RestTyped'
  BY <1>0, <1>3 DEF MakesJob, Answers, coordVars, RestTyped
<1>4. ASSUME NEW j \in Jobs, AskStatus(j) \/ EndsJob(j) \/ RelayForgotten(j) PROVE RestTyped'
  <2>1. CASE AskStatus(j)
    BY <1>0, <2>1 DEF AskStatus, EndSetup, RestTyped
  <2>2. CASE EndsJob(j)
    <3>1. jobs' = [jobs EXCEPT ![j] = "over"]
      BY <2>2 DEF EndsJob
    <3>2. UNCHANGED <<relayCalls, asked, begunOn, enrolment, up, probes, carrier, heard, relayUpsets>>
      BY <2>2 DEF EndsJob, coordVars
    <3> QED
      BY <1>0, <3>1, <3>2 DEF RestTyped
  <2>3. CASE RelayForgotten(j)
    BY <1>0, <2>3 DEF RelayForgotten, RestTyped
  <2> QED
    BY <1>4, <2>1, <2>2, <2>3
<1>5. CASE TakeFrame
  <2>1. PICK f \in Frames : f = Head(wire) /\ wire # <<>>
    BY <1>0, <1>5 DEF TakeFrame
  <2>2. /\ f.kind \in {"open", "end", "done", "probed", "made", "refused", "progress", "status"}
        /\ f.kind \in {"made", "progress", "status"} => f.job \in Jobs
    BY FrameCarries
  <2>3. /\ relayCalls' \subseteq relayCalls /\ begunOn' \in [Jobs -> Nat] /\ heard' \subseteq Jobs
    <3>1. CASE f.kind \in {"open", "end", "done"}
      BY <1>0, <1>5, <2>1, <3>1 DEF TakeFrame, TakeOpen, TakeEnd, TakeDone, RestTyped
    <3>2. CASE f.kind \in {"probed", "refused"}
      BY <1>0, <1>5, <2>1, <3>2 DEF TakeFrame, TakeProbed, TakeRefused, RestTyped
    <3>3. CASE f.kind = "made"
      BY <1>0, <1>5, <2>1, <2>2, <3>3 DEF TakeFrame, TakeMade, Recording, RestTyped
    <3>4. CASE f.kind \in {"progress", "status"}
      BY <1>0, <1>5, <2>1, <2>2, <3>4 DEF TakeFrame, TakeProgress, TakeStatus, EndSetup,
         RestTyped
    <3> QED
      BY <2>2, <3>1, <3>2, <3>3, <3>4
  <2> QED
    BY <1>0, <1>5, <2>3 DEF TakeFrame, RestTyped
<1>6. CASE Rekeyed \/ RelayRevoked \/ CoordinatorRestarts
  <2>1. relayUpsets' \in 0..MaxRelayUpsets
    BY <1>0, <1>6, UpsetCounted DEF Rekeyed, RelayRevoked, CoordinatorRestarts
  <2> QED
    BY <1>0, <1>6, <2>1 DEF Rekeyed, RelayRevoked, CoordinatorRestarts, machineVars, RestTyped
<1>7. CASE SocketDrops \/ SocketReturns
  <2>1. relayUpsets' \in 0..MaxRelayUpsets
    BY <1>0, <1>7, UpsetCounted DEF SocketDrops, SocketReturns, RestTyped
  <2> QED
    BY <1>0, <1>7, <2>1 DEF SocketDrops, SocketReturns, coordVars, RestTyped
<1> QED
  BY <1>1, <1>2, <1>3, <1>4, <1>5, <1>6, <1>7 DEF SetupRelaysNext

LEMMA RelaysInitially == SetupRelaysInit => RelayInv
<1> SUFFICES ASSUME SetupRelaysInit PROVE RelayInv
  OBVIOUS
<1>1. SetupRelaysTypeOK
  <2>1. relay \in [Relays -> RelayRecords]
    BY GoneIs DEF SetupRelaysInit
  <2>2. 0 \in 0..MaxRelayUpsets /\ 0 <= MaxSetups
    BY SetupRelaysAssumption
  <2> QED
    BY <2>1, <2>2 DEF SetupRelaysInit, SetupRelaysTypeOK, RelayRecords
<1>2. \A r \in Relays : ServesAUse(r)
  BY GoneIs DEF SetupRelaysInit, ServesAUse, Open
<1>3. wire \in Seq(Frames) /\ NewUnknown /\ MadeFirst
  BY DEF SetupRelaysInit, NewUnknown, MadeFirst, RecordedJobs
<1> QED
  BY <1>1, <1>2, <1>3 DEF RelayInv

LEMMA RelaysStep == RelayInv /\ [SetupRelaysNext]_setupRelaysVars => RelayInv'
<1> SUFFICES ASSUME RelayInv, [SetupRelaysNext]_setupRelaysVars PROVE RelayInv'
  OBVIOUS
<1>1. CASE SetupRelaysNext
  <2>1. RelaysServe' /\ WireKnown' /\ SetupsKnown' /\ RestTyped'
    BY <1>1, ServingStep, WireStep, RestStep
  <2>2. SetupRelaysTypeOK'
    BY <2>1 DEF RelaysServe, SetupsKnown, RestTyped, SetupRelaysTypeOK, RelayRecords
  <2> QED
    BY <2>1, <2>2 DEF RelayInv, RelaysServe, WireKnown
<1>2. CASE UNCHANGED setupRelaysVars
  <2>1. UNCHANGED <<relay, relayCalls, setups, begunOn, enrolment, up, asked, probes, jobs, carrier,
                    wire, heard, relayUpsets>>
    BY <1>2 DEF setupRelaysVars, coordVars, machineVars
  <2>2. SetupRelaysTypeOK'
    BY <2>1 DEF RelayInv, SetupRelaysTypeOK
  <2>3. \A r \in Relays : ServesAUse(r)'
    BY <2>1 DEF RelayInv, ServesAUse, Open
  <2>4. wire' \in Seq(Frames) /\ NewUnknown' /\ MadeFirst'
    BY <2>1 DEF RelayInv, NewUnknown, MadeFirst, RecordedJobs
  <2> QED
    BY <2>2, <2>3, <2>4 DEF RelayInv
<1> QED
  BY <1>1, <1>2

LEMMA RelaysInvariant == SetupRelaysSpec => []RelayInv
  BY RelaysInitially, RelaysStep, PTL DEF SetupRelaysSpec

LEMMA ServingIs == RelayInv => StreamsServeAUse
  BY RelayTypesAre DEF RelayInv, ServesAUse, StreamsServeAUse, RelayRecords

\* The types of the relays, the setup jobs and the machine.
THEOREM SetupRelaysTypes == SetupRelaysSpec => []SetupRelaysTypeOK
  BY RelaysInvariant, PTL DEF RelayInv

\* StreamsServeAUse, for any number of relays, jobs and streams: a connection
\* through a phone's network is open only for a probe that is waited for or a
\* job that is not known to have ended.
THEOREM StreamsAreUsed == SetupRelaysSpec => []StreamsServeAUse
  BY RelaysInvariant, ServingIs, PTL

---------------------------------------------------------------------------
(* Sessions *)

\* A record that neither is listed as running nor comes back at a boot.
AtRest(r) == r.status # "running" /\ ~r.onBoot

Down == \A n \in askedDown :
    /\ n \notin panes /\ ~LaunchOf(n)
    /\ rec[n] # NoRecord => AtRest(rec[n])
    /\ rec[n] = NoRecord /\ bin[n] # NoRecord => AtRest(bin[n].rec)

MaybeRecord == Records \cup {NoRecord}

---------------------------------------------------------------------------
(* The operators on records *)

LEMMA RecordsAre ==
    /\ NoRecord \notin Records /\ NoRecord \notin Binned
    /\ Unrun \in Records /\ AtRest(Unrun)
    /\ \A r \in Records : r.uuid \in BOOLEAN /\ r.onBoot \in BOOLEAN
    /\ NoName \notin SessionNames /\ IsFiniteSet(SessionNames)
  BY SessionsAssumption DEF Records, Unrun, AtRest

LEMMA ChangedIsARecord ==
    ASSUME NEW r \in Records, NEW b \in BOOLEAN
    PROVE  /\ [r EXCEPT !.onBoot = b] \in Records /\ [r EXCEPT !.onBoot = b].onBoot = b
           /\ [r EXCEPT !.onBoot = b].status = r.status
           /\ [r EXCEPT !.uuid = b] \in Records /\ [r EXCEPT !.uuid = b].onBoot = r.onBoot
           /\ [r EXCEPT !.uuid = b].status = r.status
           /\ \A s \in {"running", "stopped", "error"} :
                 /\ [r EXCEPT !.status = s] \in Records /\ [r EXCEPT !.status = s].status = s
                 /\ [r EXCEPT !.status = s].onBoot = r.onBoot
  BY DEF Records

LEMMA StatusIsARecord ==
    ASSUME NEW r \in [SessionNames -> MaybeRecord], NEW n \in SessionNames,
           NEW s \in {"running", "stopped", "error"}
    PROVE  /\ Status(r, n, s) \in Records /\ Status(r, n, s).status = s
           /\ r[n] # NoRecord => Status(r, n, s).onBoot = r[n].onBoot
           /\ r[n] = NoRecord => Status(r, n, s).onBoot = FALSE
  BY RecordsAre DEF Status, MaybeRecord, Records, Unrun

LEMMA DrainedIsQuiet ==
    ASSUME SessionsTypeOK
    PROVE  /\ Drained \in [SessionNames -> MaybeRecord]
           /\ \A n \in SessionNames :
                /\ Drained[n] = NoRecord => rec[n] = NoRecord
                /\ (rec[n] # NoRecord => AtRest(rec[n])) /\ Drained[n] # NoRecord
                      => AtRest(Drained[n])
<1>1. rec \in [SessionNames -> MaybeRecord]
  BY DEF SessionsTypeOK, MaybeRecord
<1>2. ASSUME NEW n \in SessionNames
      PROVE  /\ Drained[n] \in MaybeRecord
             /\ Drained[n] = NoRecord => rec[n] = NoRecord
             /\ (rec[n] # NoRecord => AtRest(rec[n])) /\ Drained[n] # NoRecord
                   => AtRest(Drained[n])
  <2>1. PICK r \in Records : r = IF rec[n] = NoRecord THEN Unrun ELSE rec[n]
    BY <1>1, RecordsAre DEF MaybeRecord
  <2>2. CASE n \in spool
    <3>1. Drained[n] = [r EXCEPT !.uuid = TRUE]
      BY <2>1, <2>2 DEF Drained
    <3>2. [r EXCEPT !.uuid = TRUE] \in Records /\ (AtRest(r) => AtRest([r EXCEPT !.uuid = TRUE]))
      BY ChangedIsARecord DEF AtRest
    <3> QED
      BY <2>1, <3>1, <3>2, RecordsAre DEF MaybeRecord
  <2>3. CASE n \notin spool
    BY <1>1, <2>3 DEF Drained
  <2> QED
    BY <2>2, <2>3
<1>3. Drained = [n \in SessionNames |-> Drained[n]]
  BY DEF Drained
<1> QED
  BY <1>2, <1>3

\* A record at rest, of a name without a pane, is at rest when it is reconciled;
\* and every record is one afterwards, unless there is neither record nor pane.
LEMMA ReconciledOneIsQuiet ==
    ASSUME NEW r \in MaybeRecord, NEW alive \in BOOLEAN
    PROVE  /\ ReconciledOne(r, alive) \in MaybeRecord
           /\ ReconciledOne(r, alive) = NoRecord => r = NoRecord /\ ~alive
           /\ ~alive /\ (r # NoRecord => AtRest(r)) /\ ReconciledOne(r, alive) # NoRecord
                 => AtRest(ReconciledOne(r, alive))
           /\ ~alive /\ ReconciledOne(r, alive) # NoRecord
                 => ReconciledOne(r, alive).status # "running"
  BY RecordsAre DEF ReconciledOne, MaybeRecord, Records, Unrun, AtRest

LEMMA ReconciledIsQuiet ==
    ASSUME SessionsTypeOK, NEW live, NEW held
    PROVE  /\ ReconciledAgainst(live, held) \in [SessionNames -> MaybeRecord]
           /\ \A n \in SessionNames :
                /\ ReconciledAgainst(live, held)[n] = NoRecord => rec[n] = NoRecord
                /\ n \notin live /\ (rec[n] # NoRecord => AtRest(rec[n]))
                      /\ ReconciledAgainst(live, held)[n] # NoRecord
                      => AtRest(ReconciledAgainst(live, held)[n])
<1>1. ASSUME NEW n \in SessionNames
      PROVE  /\ ReconciledAgainst(live, held)[n] \in MaybeRecord
             /\ ReconciledAgainst(live, held)[n] = NoRecord => rec[n] = NoRecord
             /\ n \notin live /\ (rec[n] # NoRecord => AtRest(rec[n]))
                   /\ ReconciledAgainst(live, held)[n] # NoRecord
                   => AtRest(ReconciledAgainst(live, held)[n])
  <2>1. Drained[n] \in MaybeRecord
    BY DrainedIsQuiet
  <2>2. CASE n \in held
    BY <2>2, <2>1, DrainedIsQuiet DEF ReconciledAgainst
  <2>3. CASE n \notin held
    <3>1. ReconciledAgainst(live, held)[n] = ReconciledOne(Drained[n], n \in live)
      BY <2>3 DEF ReconciledAgainst
    <3>2. CASE n \in live
      <4>1. ReconciledAgainst(live, held)[n] = ReconciledOne(Drained[n], TRUE)
        BY <3>1, <3>2
      <4> QED
        BY <4>1, <3>2, <2>1, ReconciledOneIsQuiet
    <3>3. CASE n \notin live
      <4>1. ReconciledAgainst(live, held)[n] = ReconciledOne(Drained[n], FALSE)
        BY <3>1, <3>3 DEF ReconciledOne
      <4> QED
        BY <4>1, <3>3, <2>1, DrainedIsQuiet, ReconciledOneIsQuiet
    <3> QED
      BY <3>2, <3>3
  <2> QED
    BY <2>2, <2>3
<1> QED
  BY <1>1 DEF ReconciledAgainst

\* A launch that has not ended is of a session.
LEMMA UnderwayIsOfASession ==
    ASSUME SessionsTypeOK, NEW l \in Launches, launch[l].phase # "idle"
    PROVE  launch[l] \in Underway /\ launch[l].name \in SessionNames
  BY DEF SessionsTypeOK, NoLaunch, Underway

LEMMA LaunchingIsUnderway ==
    ASSUME SessionsTypeOK, NEW n \in SessionNames, NEW u \in BOOLEAN, Launching(n, u)
    PROVE  /\ launch' \in [Launches -> {NoLaunch} \cup Underway]
           /\ \A l \in Launches : launch'[l] = launch[l] \/ launch'[l].name = n
           /\ askedDown' = askedDown \ {n}
<1>1. [name |-> n, uuid |-> u, phase |-> "preparing"] \in Underway
  BY DEF Underway
<1> QED
  BY <1>1 DEF Launching, SessionsTypeOK

LEMMA SweptIsSome ==
    ASSUME SessionsTypeOK
    PROVE  /\ SweptBin \in [SessionNames -> Binned \cup {NoRecord}]
           /\ \A n \in SessionNames : SweptBin[n] # NoRecord => SweptBin[n] = bin[n]
  BY DEF SessionsTypeOK, SweptBin

---------------------------------------------------------------------------
(* Types *)

\* Every step of the session manager (core/sessions.js) keeps its records, panes
\* and calls well formed, whatever the names and however calls interleave.
THEOREM SessionsTypes == SessionsSpec => []SessionsTypeOK
<1>1. SessionsInit => SessionsTypeOK
  BY SessionsAssumption DEF SessionsInit, SessionsTypeOK, NoLaunch
<1>2. SessionsTypeOK /\ [SessionsNext]_sessionVars => SessionsTypeOK'
  <2> SUFFICES ASSUME SessionsTypeOK, [SessionsNext]_sessionVars PROVE SessionsTypeOK'
    OBVIOUS
  <2> USE DEF restoreVars, bootVars
  <2>0. /\ RecordsReconciled \in [SessionNames -> MaybeRecord]
        /\ SweptBin \in [SessionNames -> Binned \cup {NoRecord}]
        /\ rec \in [SessionNames -> MaybeRecord]
    BY ReconciledIsQuiet, SweptIsSome DEF RecordsReconciled, SessionsTypeOK, MaybeRecord
  <2>1. ASSUME NEW n \in SessionNames, Start(n) PROVE SessionsTypeOK'
    BY <2>0, <2>1, LaunchingIsUnderway DEF Start, SessionsTypeOK, MaybeRecord
  <2>2. ASSUME NEW n \in SessionNames, Resume(n) PROVE SessionsTypeOK'
    BY <2>0, <2>2, LaunchingIsUnderway DEF Resume, SessionsTypeOK, MaybeRecord
  <2>3. ASSUME NEW n \in SessionNames, Stop(n) PROVE SessionsTypeOK'
    <3>1. Stopped(RecordsReconciled, n) \in Records
      <4>1. CASE n \in panes \/ RecordsReconciled[n].status = "running"
        <5>1. Status(RecordsReconciled, n, "stopped") \in Records
          BY <2>0, StatusIsARecord
        <5> QED
          BY <5>1, <4>1 DEF Stopped, Records
      <4>2. CASE ~(n \in panes \/ RecordsReconciled[n].status = "running")
        BY <2>0, <2>3, <4>2 DEF Stop, Stopped, MaybeRecord, Records
      <4> QED
        BY <4>1, <4>2
    <3> QED
      BY <2>0, <2>3, <3>1 DEF Stop, SessionsTypeOK, MaybeRecord
  <2>4. ASSUME NEW n \in SessionNames, Forget(n) PROVE SessionsTypeOK'
    <3>1. [rec |-> rec[n], over |-> FALSE] \in Binned
      BY <2>0, <2>4 DEF Forget, MaybeRecord, Binned
    <3> QED
      BY <2>0, <2>4, <3>1 DEF Forget, SessionsTypeOK, MaybeRecord
  <2>5. ASSUME NEW n \in SessionNames, ForgetOwner(n) PROVE SessionsTypeOK'
    BY <2>0, <2>5 DEF ForgetOwner, SessionsTypeOK, MaybeRecord, Binned, Records
  <2>6. ASSUME NEW n \in SessionNames, RestoreFromBin(n) PROVE SessionsTypeOK'
    BY <2>0, <2>6, SweptIsSome DEF RestoreFromBin, SessionsTypeOK, MaybeRecord, Binned
  <2>7. ASSUME NEW n \in SessionNames, Purge(n) PROVE SessionsTypeOK'
    BY <2>0, <2>7 DEF Purge, SessionsTypeOK, MaybeRecord
  <2>8. ASSUME NEW n \in SessionNames, RecordUuid(n) PROVE SessionsTypeOK'
    <3>1. rec[n] \in Records
      BY <2>0, <2>8 DEF RecordUuid, MaybeRecord
    <3>2. \A s \in {"running", "stopped"} :
             [[rec EXCEPT ![n].uuid = TRUE] EXCEPT ![n].status = s]
                \in [SessionNames -> MaybeRecord]
      BY <2>0, <3>1 DEF MaybeRecord, Records
    <3> QED
      BY <2>8, <3>2 DEF RecordUuid, SessionsTypeOK, MaybeRecord
  <2>9. ASSUME NEW n \in SessionNames, SpoolUuid(n) PROVE SessionsTypeOK'
    BY <2>9, SessionsAssumption DEF SpoolUuid, Booted, SessionsTypeOK
  <2>10. ASSUME NEW n \in SessionNames, NEW u \in BOOLEAN, Candidate(n, u)
         PROVE  SessionsTypeOK'
    <3>1. [Status(rec, n, "stopped") EXCEPT !.onBoot = @ /\ u] \in Records
      <4>1. Status(rec, n, "stopped") \in Records
        BY <2>0, StatusIsARecord
      <4>2. (Status(rec, n, "stopped").onBoot /\ u) \in BOOLEAN
        OBVIOUS
      <4> QED
        BY <4>1, <4>2, ChangedIsARecord
    <3> QED
      BY <2>10, <3>1 DEF Candidate, SessionsTypeOK
  <2>11. ASSUME NEW n \in SessionNames, PaneDies(n) \/ PaneAppears(n) \/ WindowEnds(n)
         PROVE  SessionsTypeOK'
    <3>1. boots' \in 0..MaxBoots
      BY <2>11, SessionsAssumption DEF PaneDies, PaneAppears, WindowEnds, Booted, SessionsTypeOK
    <3>2. CASE WindowEnds(n)
      BY <3>1, <3>2 DEF WindowEnds, SessionsTypeOK, Binned
    <3> QED
      BY <2>11, <3>1, <3>2 DEF PaneDies, PaneAppears, SessionsTypeOK
  <2>12. ASSUME NEW l \in Launches, LaunchFails(l) PROVE SessionsTypeOK'
    <3>1. launch[l].name \in SessionNames
      BY <2>12, UnderwayIsOfASession DEF LaunchFails
    <3>2. Status(rec, launch[l].name, "error") \in Records
      BY <2>0, <3>1, StatusIsARecord
    <3> QED
      BY <2>12, <3>2 DEF LaunchFails, SessionsTypeOK
  <2>13. ASSUME NEW l \in Launches, LaunchPrepared(l) PROVE SessionsTypeOK'
    <3>1. launch[l] \in Underway
      BY <2>13, UnderwayIsOfASession DEF LaunchPrepared
    <3>2. [launch[l] EXCEPT !.phase = "opening"] \in Underway
      BY <3>1 DEF Underway
    <3> QED
      BY <2>13, <3>1, <3>2 DEF LaunchPrepared, SessionsTypeOK, Underway
  <2>14. ASSUME NEW l \in Launches, LaunchSpawns(l) PROVE SessionsTypeOK'
    <3>1. launch[l] \in Underway /\ launch[l].name \in SessionNames
      BY <2>14, UnderwayIsOfASession DEF LaunchSpawns
    <3>2. [launch[l] EXCEPT !.phase = "settling"] \in Underway /\ launch[l].uuid \in BOOLEAN
      BY <3>1 DEF Underway
    <3>3. /\ Status(rec, launch[l].name, "running") \in Records
          /\ Status(rec, launch[l].name, "error") \in Records
      BY <2>0, <3>1, StatusIsARecord
    <3>4. [Status(rec, launch[l].name, "running") EXCEPT !.uuid = @ \/ launch[l].uuid] \in Records
      <4>1. (Status(rec, launch[l].name, "running").uuid \/ launch[l].uuid) \in BOOLEAN
        OBVIOUS
      <4> QED
        BY <3>3, <4>1, ChangedIsARecord
    <3> QED
      BY <2>14, <3>1, <3>2, <3>3, <3>4 DEF LaunchSpawns, SessionsTypeOK
  <2>15. ASSUME NEW l \in Launches, LaunchSettles(l) PROVE SessionsTypeOK'
    <3> DEFINE n == launch[l].name
               was == IF rec[n] = NoRecord THEN Unrun ELSE rec[n]
    <3>1. n \in SessionNames
      BY <2>15, UnderwayIsOfASession DEF LaunchSettles
    <3>2. was \in Records
      BY <2>0, <3>1, RecordsAre DEF MaybeRecord
    <3>3. [was EXCEPT !.status = "error", !.onBoot = FALSE] \in Records
      BY <3>2 DEF Records
    <3> HIDE DEF was
    <3>4. \/ rec' = [rec EXCEPT ![n] = was] /\ UNCHANGED panes
          \/ /\ panes' = panes \ {n}
             /\ rec' = [rec EXCEPT ![n] = [was EXCEPT !.status = "error", !.onBoot = FALSE]]
      BY <2>15 DEF LaunchSettles, was
    <3> QED
      BY <2>15, <3>1, <3>2, <3>3, <3>4 DEF LaunchSettles, SessionsTypeOK
  <2>16. CASE ReconcilePass \/ SweepPass
    BY <2>0, <2>16 DEF ReconcilePass, SweepPass, SessionsTypeOK, MaybeRecord
  <2>17. CASE BringBack
    <3>1. bringing \in SessionNames
      BY <2>17 DEF BringBack, SessionsTypeOK
    <3>2. /\ [Status(rec, bringing, "running") EXCEPT !.onBoot = FALSE] \in Records
          /\ [Status(rec, bringing, "error") EXCEPT !.onBoot = FALSE] \in Records
      BY <2>0, <3>1, StatusIsARecord, ChangedIsARecord
    <3>3. /\ rec' \in [SessionNames -> MaybeRecord] /\ panes' \subseteq SessionNames
          /\ askedDown' \subseteq SessionNames /\ brought' \in Nat
      <4>1. \/ /\ panes' = panes \cup {bringing} /\ brought' = brought + 1
               /\ askedDown' = askedDown \ {bringing}
               /\ rec' = [rec EXCEPT ![bringing] =
                            [Status(rec, bringing, "running") EXCEPT !.onBoot = FALSE]]
            \/ /\ UNCHANGED <<panes, brought, askedDown>>
               /\ rec' = [rec EXCEPT ![bringing] =
                            [Status(rec, bringing, "error") EXCEPT !.onBoot = FALSE]]
        BY <2>17 DEF BringBack
      <4>2. rec' \in [SessionNames -> MaybeRecord]
        BY <2>0, <3>2, <4>1 DEF MaybeRecord
      <4> QED
        BY <3>1, <4>1, <4>2 DEF SessionsTypeOK
    <3> QED
      BY <2>17, <3>3 DEF BringBack, SessionsTypeOK, MaybeRecord
  <2>18. ASSUME NEW alive \in SUBSET panes, HubStarts(alive) PROVE SessionsTypeOK'
    <3> DEFINE r == ReconciledAgainst(alive, {})
    <3>1. r \in [SessionNames -> MaybeRecord]
      BY ReconciledIsQuiet
    <3>2. Cardinality(alive) \in Nat
      BY RecordsAre, FS_Subset, FS_CardinalityType DEF SessionsTypeOK
    <3>3. \A n \in SessionNames : r[n] # NoRecord => r[n].uuid \in BOOLEAN
      BY <3>1, RecordsAre DEF MaybeRecord
    <3> HIDE DEF r
    <3>4. restoring' \subseteq SessionNames \X BOOLEAN /\ rec' = r
      BY <2>18, <3>3 DEF HubStarts, r
    <3>5. brought' \in Nat /\ boots' \in 0..MaxBoots
      BY <2>18, <3>2, SessionsAssumption DEF HubStarts, Booted, SessionsTypeOK
    <3> QED
      BY <2>18, <3>1, <3>4, <3>5 DEF HubStarts, SessionsTypeOK, MaybeRecord
  <2>19. CASE UNCHANGED sessionVars
    BY <2>19 DEF sessionVars, SessionsTypeOK
  <2> QED
    BY <2>1, <2>2, <2>3, <2>4, <2>5, <2>6, <2>7, <2>8, <2>9, <2>10, <2>11, <2>12, <2>13,
       <2>14, <2>15, <2>16, <2>17, <2>18, <2>19 DEF SessionsNext
<1> QED
  BY <1>1, <1>2, PTL DEF SessionsSpec

---------------------------------------------------------------------------
(* What was asked to be down *)

\* What a request asked to be down stays down and is not flagged for a boot:
\* across whatever ends, is reported, forgotten, put back, launched or restored.
THEOREM StoppedSessionsStayDown == SessionsSpec => []StoppedStaysDown
<1>1. SessionsInit => Down
  BY DEF SessionsInit, Down
<1>2. SessionsTypeOK /\ Down /\ [SessionsNext]_sessionVars => Down'
  <2> SUFFICES ASSUME SessionsTypeOK, Down, [SessionsNext]_sessionVars PROVE Down'
    OBVIOUS
  <2> USE DEF restoreVars, bootVars
  <2>0. /\ askedDown \subseteq SessionNames
        /\ \A n \in SessionNames : RecordsReconciled[n] = NoRecord => rec[n] = NoRecord
        /\ \A n \in SessionNames \ panes :
              (rec[n] # NoRecord => AtRest(rec[n])) /\ RecordsReconciled[n] # NoRecord
                 => AtRest(RecordsReconciled[n])
        /\ RecordsReconciled \in [SessionNames -> MaybeRecord]
        /\ rec \in [SessionNames -> MaybeRecord]
    BY ReconciledIsQuiet DEF RecordsReconciled, SessionsTypeOK, MaybeRecord
  <2>1. ASSUME NEW n \in SessionNames, Start(n) \/ Resume(n) PROVE Down'
    <3>1. /\ askedDown' = askedDown \ {n} /\ panes' = panes
          /\ \A l \in Launches : launch'[l] = launch[l] \/ launch'[l].name = n
      BY <2>1, LaunchingIsUnderway DEF Start, Resume
    <3>2. \A m \in askedDown' : LaunchOf(m)' => LaunchOf(m)
      BY <3>1 DEF LaunchOf
    <3>3. rec' = RecordsReconciled
      BY <2>1 DEF Start, Resume
    <3>4. \A m \in SessionNames : bin'[m] = bin[m] \/ bin'[m] = NoRecord
      BY <2>1, SweptIsSome DEF Start, Resume
    <3> QED
      BY <2>0, <3>1, <3>2, <3>3, <3>4 DEF Down
  <2>3. ASSUME NEW n \in SessionNames, Stop(n) PROVE Down'
    <3>1. AtRest(Stopped(RecordsReconciled, n)) /\ Stopped(RecordsReconciled, n) \in Records
      <4>1. CASE n \in panes \/ RecordsReconciled[n].status = "running"
        <5>1. /\ Status(RecordsReconciled, n, "stopped") \in Records
              /\ Status(RecordsReconciled, n, "stopped").status = "stopped"
          BY <2>0, StatusIsARecord
        <5>2. Stopped(RecordsReconciled, n)
              = [Status(RecordsReconciled, n, "stopped") EXCEPT !.onBoot = FALSE]
          BY <4>1 DEF Stopped
        <5> QED
          BY <5>1, <5>2 DEF AtRest, Records
      <4>2. CASE ~(n \in panes \/ RecordsReconciled[n].status = "running")
        <5>1. RecordsReconciled[n] \in Records /\ RecordsReconciled[n].status # "running"
          BY <2>0, <2>3, <4>2 DEF Stop, MaybeRecord
        <5>2. Stopped(RecordsReconciled, n) = [RecordsReconciled[n] EXCEPT !.onBoot = FALSE]
          BY <4>2 DEF Stopped
        <5> QED
          BY <5>1, <5>2 DEF AtRest, Records
      <4> QED
        BY <4>1, <4>2
    <3>2. \A m \in askedDown' : m \in askedDown \/ (m = n /\ ~LaunchOf(n))
      BY <2>3 DEF Stop
    <3>3. \A m : LaunchOf(m)' = LaunchOf(m)
      BY <2>3 DEF Stop, LaunchOf
    <3>4. /\ rec' = [RecordsReconciled EXCEPT ![n] = Stopped(RecordsReconciled, n)]
          /\ panes' = panes \ {n} /\ bin' = bin
      BY <2>3 DEF Stop
    <3> QED
      BY <2>0, <3>1, <3>2, <3>3, <3>4, RecordsAre DEF Down
  <2>4. ASSUME NEW n \in SessionNames, Forget(n) \/ ForgetOwner(n) PROVE Down'
    <3>1. rec[n] \in Records /\ (AtRest(rec[n]) => AtRest(bin'[n].rec))
      <4>1. rec[n] \in Records
        BY <2>0, <2>4 DEF Forget, ForgetOwner, MaybeRecord
      <4>2. CASE Forget(n)
        BY <4>1, <4>2, SweptIsSome DEF Forget
      <4>3. CASE ForgetOwner(n)
        <5>1. bin'[n].rec = [rec[n] EXCEPT !.status = "stopped", !.onBoot = FALSE]
          BY <4>3, SweptIsSome DEF ForgetOwner
        <5> QED
          BY <4>1, <5>1 DEF AtRest, Records
      <4> QED
        BY <2>4, <4>1, <4>2, <4>3
    <3>2. /\ rec' = [rec EXCEPT ![n] = NoRecord] /\ panes' = panes \ {n}
          /\ launch' = launch /\ askedDown' = askedDown
      BY <2>4 DEF Forget, ForgetOwner
    <3>3. \A m \in SessionNames \ {n} : bin'[m] = bin[m] \/ bin'[m] = NoRecord
      BY <2>4, SweptIsSome DEF Forget, ForgetOwner
    <3> QED
      BY <2>0, <3>1, <3>2, <3>3, RecordsAre DEF Down, LaunchOf
  <2>6. ASSUME NEW n \in SessionNames, RestoreFromBin(n) PROVE Down'
    <3>1. rec[n] = NoRecord /\ bin[n] # NoRecord /\ rec' = [rec EXCEPT ![n] = bin[n].rec]
      BY <2>6, SweptIsSome DEF RestoreFromBin
    <3>2. bin[n].rec # NoRecord
      BY <3>1, RecordsAre DEF SessionsTypeOK, Binned
    <3>3. \A m \in SessionNames : bin'[m] = bin[m] \/ bin'[m] = NoRecord
      BY <2>6, SweptIsSome DEF RestoreFromBin
    <3> QED
      BY <2>0, <2>6, <3>1, <3>2, <3>3 DEF RestoreFromBin, Down, LaunchOf
  <2>7. ASSUME NEW n \in SessionNames, Purge(n) PROVE Down'
    BY <2>0, <2>7 DEF Purge, Down, LaunchOf, SessionsTypeOK
  <2>8. ASSUME NEW n \in SessionNames, RecordUuid(n) PROVE Down'
    <3>1. rec[n] \in Records
      BY <2>0, <2>8 DEF RecordUuid, MaybeRecord
    <3>2. \A m \in SessionNames \ {n} : rec'[m] = rec[m]
      BY <2>8, <2>0 DEF RecordUuid
    <3>3. n \notin panes /\ AtRest(rec[n]) => AtRest(rec'[n])
      BY <2>0, <2>8, <3>1 DEF RecordUuid, AtRest, Records
    <3>4. rec'[n] # NoRecord
      BY <2>0, <2>8, <3>1, RecordsAre DEF RecordUuid, Records
    <3>5. UNCHANGED <<bin, panes, inFlight, launch, askedDown>>
      BY <2>8 DEF RecordUuid, restoreVars, bootVars
    <3>6. \A m \in SessionNames : LaunchOf(m)' = LaunchOf(m)
      BY <3>5 DEF LaunchOf
    <3>7. ASSUME NEW m \in askedDown, m \in SessionNames
          PROVE  /\ rec[m] # NoRecord => AtRest(rec[m])
                 /\ rec'[m] # NoRecord => AtRest(rec'[m])
                 /\ rec'[m] = NoRecord => rec[m] = NoRecord
      BY <3>1, <3>2, <3>3, <3>4, <3>7, RecordsAre DEF Down
    <3> QED
      BY <2>0, <3>5, <3>6, <3>7 DEF Down
  <2>9. ASSUME NEW n \in SessionNames, SpoolUuid(n) \/ PaneDies(n) \/ PaneAppears(n) PROVE Down'
    BY <2>9 DEF SpoolUuid, PaneDies, PaneAppears, Down, LaunchOf
  <2>10. ASSUME NEW n \in SessionNames, NEW u \in BOOLEAN, Candidate(n, u) PROVE Down'
    <3>1. (rec[n] # NoRecord => AtRest(rec[n])) /\ rec'[n] # rec[n] => AtRest(rec'[n])
      <4> DEFINE b == Status(rec, n, "stopped").onBoot /\ u
      <4>1. /\ Status(rec, n, "stopped") \in Records
            /\ Status(rec, n, "stopped").status = "stopped"
            /\ (rec[n] # NoRecord => AtRest(rec[n])) => ~Status(rec, n, "stopped").onBoot
        BY <2>0, StatusIsARecord DEF AtRest
      <4>2. b \in BOOLEAN
        OBVIOUS
      <4>3. rec'[n] # rec[n] => rec'[n] = [Status(rec, n, "stopped") EXCEPT !.onBoot = b]
        BY <2>0, <2>10 DEF Candidate
      <4>4. AtRest([Status(rec, n, "stopped") EXCEPT !.onBoot = b])
            <=> "stopped" # "running" /\ ~b
        BY <4>1, <4>2 DEF AtRest, Records
      <4> QED
        BY <4>1, <4>3, <4>4
    <3>2. (\A m \in SessionNames \ {n} : rec'[m] = rec[m])
          /\ (rec'[n] = NoRecord => rec[n] = NoRecord)
      <4>1. Status(rec, n, "stopped") \in Records
        BY <2>0, StatusIsARecord
      <4>2. [Status(rec, n, "stopped") EXCEPT !.onBoot = @ /\ u] \in Records
        <5>1. (Status(rec, n, "stopped").onBoot /\ u) \in BOOLEAN
          OBVIOUS
        <5> QED
          BY <4>1, <5>1, ChangedIsARecord
      <4> QED
        BY <2>0, <2>10, <4>2, RecordsAre DEF Candidate
    <3> QED
      BY <2>0, <2>10, <3>1, <3>2 DEF Candidate, Down, LaunchOf
  <2>11. ASSUME NEW n \in SessionNames, WindowEnds(n) PROVE Down'
    <3>1. \A m \in SessionNames : (bin'[m] = NoRecord <=> bin[m] = NoRecord) /\ bin'[m].rec = bin[m].rec
      BY <2>11, RecordsAre DEF WindowEnds, SessionsTypeOK, Binned
    <3> QED
      BY <2>0, <2>11, <3>1 DEF WindowEnds, Down, LaunchOf
  <2>12. ASSUME NEW l \in Launches,
                LaunchFails(l) \/ LaunchPrepared(l) \/ LaunchSpawns(l) \/ LaunchSettles(l)
         PROVE  Down'
    <3>1. launch[l].name \in SessionNames /\ launch[l].name \notin askedDown
      BY <2>12, UnderwayIsOfASession DEF LaunchFails, LaunchPrepared, LaunchSpawns,
         LaunchSettles,
         Down, LaunchOf
    <3>2. /\ askedDown' = askedDown /\ bin' = bin
          /\ \A m \in SessionNames \ {launch[l].name} : rec'[m] = rec[m] /\ (m \in panes' => m \in panes)
      BY <2>0, <2>12, <3>1 DEF LaunchFails, LaunchPrepared, LaunchSpawns, LaunchSettles
    <3>3. \A k \in Launches : launch'[k].name \in {launch[k].name, NoName}
      <4>1. \/ launch' = [launch EXCEPT ![l] = NoLaunch]
            \/ \E p \in {"opening", "settling"} : launch' = [launch EXCEPT ![l].phase = p]
        BY <2>12 DEF LaunchFails, LaunchPrepared, LaunchSpawns, LaunchSettles
      <4>2. launch[l] \in Underway /\ NoLaunch.name = NoName
        BY <2>12, UnderwayIsOfASession DEF LaunchFails, LaunchPrepared, LaunchSpawns,
           LaunchSettles,
           NoLaunch
      <4> QED
        BY <4>1, <4>2 DEF SessionsTypeOK, Underway
    <3>4. \A m \in askedDown : ~LaunchOf(m)'
      BY <2>0, <3>3, RecordsAre DEF LaunchOf, Down
    <3> QED
      BY <2>0, <3>1, <3>2, <3>4 DEF Down
  <2>16. CASE ReconcilePass \/ SweepPass
    <3>1. \A m \in SessionNames : bin'[m] = bin[m] \/ bin'[m] = NoRecord
      BY <2>16, SweptIsSome DEF ReconcilePass, SweepPass
    <3>2. CASE ReconcilePass
      BY <2>0, <3>1, <3>2 DEF ReconcilePass, Down, LaunchOf
    <3>3. CASE SweepPass
      BY <2>0, <3>1, <3>3 DEF SweepPass, Down, LaunchOf
    <3> QED
      BY <2>16, <3>2, <3>3
  <2>17. CASE BringBack
    <3>1. bringing \in SessionNames
      BY <2>17 DEF BringBack, SessionsTypeOK
    <3>2. \/ panes' = panes \cup {bringing} /\ askedDown' = askedDown \ {bringing}
          \/ panes' = panes /\ askedDown' = askedDown
             /\ rec'[bringing] = [Status(rec, bringing, "error") EXCEPT !.onBoot = FALSE]
      BY <2>0, <2>17, <3>1 DEF BringBack
    <3>3. AtRest([Status(rec, bringing, "error") EXCEPT !.onBoot = FALSE])
          /\ [Status(rec, bringing, "error") EXCEPT !.onBoot = FALSE] # NoRecord
      <4>1. /\ Status(rec, bringing, "error") \in Records
            /\ Status(rec, bringing, "error").status = "error"
        BY <2>0, <3>1, StatusIsARecord
      <4>2. [Status(rec, bringing, "error") EXCEPT !.onBoot = FALSE] \in Records
        BY <4>1, ChangedIsARecord
      <4> QED
        BY <4>1, <4>2, RecordsAre DEF AtRest, Records
    <3>4. \A m \in SessionNames \ {bringing} : rec'[m] = rec[m]
      BY <2>0, <2>17 DEF BringBack
    <3> QED
      BY <2>0, <2>17, <3>1, <3>2, <3>3, <3>4 DEF BringBack, Down, LaunchOf
  <2>18. ASSUME NEW alive \in SUBSET panes, HubStarts(alive) PROVE Down'
    <3>1. \A m \in askedDown : ~LaunchOf(m)'
      BY <2>0, <2>18, RecordsAre DEF HubStarts, LaunchOf, NoLaunch
    <3> QED
      BY <2>0, <2>18, <3>1, ReconciledIsQuiet DEF HubStarts, Down
  <2>19. CASE UNCHANGED sessionVars
    BY <2>19 DEF sessionVars, Down, LaunchOf
  <2> QED
    BY <2>1, <2>3, <2>4, <2>6, <2>7, <2>8, <2>9, <2>10, <2>11, <2>12,
       <2>16, <2>17, <2>18, <2>19 DEF SessionsNext
<1>3. Down => StoppedStaysDown
  BY DEF Down, StoppedStaysDown, AtRest
<1> QED
  BY SessionsTypes, <1>1, <1>2, <1>3, PTL DEF SessionsSpec

---------------------------------------------------------------------------
(* Releases on trial *)

\* The types of what the update, the services and the watchdog share, but for
\* the releases unpacked on disk.
UpdateShape ==
    /\ current \in Releases /\ copies \in Seq(Releases) /\ Len(copies) \in 1..2
    /\ hub \in [runs : Releases,
                phase : {"proving", "serving", "leaving", "repairing", "blocked"}]
    /\ sidecar \in [runs : Releases, asking : BOOLEAN]
    /\ fetching = NoFetch \/ fetching \in [before : Releases, want : Releases \cup {NoRelease},
                                           flag : {"plain", "apply", "restart"}]
    /\ trial = NoTrial \/ trial \in [from : Releases, to : Releases, over : BOOLEAN]
    /\ marker \in [rollback : BOOLEAN, unseen : SUBSET Services]

ReleaseInv == UpdateShape /\ RevertIsFollowed

LEMMA MarkerSeen ==
    ASSUME UpdateShape, NEW S
    PROVE  /\ Seen(S) \in [rollback : BOOLEAN, unseen : SUBSET Services]
           /\ Seen(S).rollback = marker.rollback
           /\ Seen(S).unseen = marker.unseen \ S
  BY DEF Seen, UpdateShape

LEMMA LaunchedType ==
    ASSUME UpdateShape
    PROVE  Launched \in Releases
<1>1. copies[Len(copies)] \in Releases
  <2>1. copies \in Seq(Releases) /\ Len(copies) \in Nat /\ Len(copies) >= 1
    BY DEF UpdateShape
  <2> QED
    BY <2>1
<1> QED
  BY <1>1 DEF Launched, UpdateShape, Last

LEMMA HubMoves ==
    ASSUME UpdateShape, NEW phase \in {"proving", "serving", "leaving", "repairing", "blocked"}
    PROVE  /\ [hub EXCEPT !.phase = phase] \in
                 [runs : Releases,
                  phase : {"proving", "serving", "leaving", "repairing", "blocked"}]
           /\ [hub EXCEPT !.phase = phase].runs = hub.runs
           /\ [hub EXCEPT !.phase = phase].phase = phase
  BY DEF UpdateShape

LEMMA SidecarAsks ==
    ASSUME UpdateShape, NEW it \in BOOLEAN
    PROVE  /\ [sidecar EXCEPT !.asking = it] \in [runs : Releases, asking : BOOLEAN]
           /\ [sidecar EXCEPT !.asking = it].runs = sidecar.runs
  BY DEF UpdateShape

LEMMA CopiesMade ==
    ASSUME UpdateShape, HealDone
    PROVE  /\ copies' \in Seq(Releases) /\ Len(copies') \in 1..2
           /\ current \in ToSet(copies')
<1>1. Len(copies) \in 1..2 /\ copies \in Seq(Releases) /\ current \in Releases
  BY DEF UpdateShape
<1>2. copies[Len(copies)] \in Releases /\ Len(copies) \in DOMAIN copies
  <2>1. Len(copies) \in Nat /\ Len(copies) >= 1 /\ DOMAIN copies = 1..Len(copies)
    BY <1>1
  <2> QED
    BY <1>1, <2>1
<1>3. CASE copies[Len(copies)] = current
  <2>1. copies' = copies
    BY <1>3 DEF HealDone, Last
  <2> QED
    BY <1>1, <1>2, <1>3, <2>1 DEF ToSet
<1>4. CASE copies[Len(copies)] # current
  <2>1. copies' = <<copies[Len(copies)], current>>
    BY <1>4 DEF HealDone, Last
  <2>2. copies' \in Seq(Releases) /\ Len(copies') = 2 /\ 2 \in DOMAIN copies' /\ copies'[2] = current
    BY <1>1, <1>2, <2>1
  <2> QED
    BY <2>2 DEF ToSet
<1> QED
  BY <1>3, <1>4

LEMMA UpdateShapeInit == UpdateInit => ReleaseInv
  BY UpdateTrialAssumption DEF UpdateInit, ReleaseInv, UpdateShape, RevertIsFollowed, Services

\* What the hub does with an update it was asked for.
LEMMA UpdateVerbKeeps ==
    ASSUME ReleaseInv,
           \/ \E f \in {"plain", "apply", "restart"} : UpdateAsked(f)
           \/ \E v \in Releases : UpdateDecided(v)
           \/ NothingNew \/ UpdateFails \/ UpdateLands \/ UpdateApplies
    PROVE  ReleaseInv'
<1> USE DEF ReleaseInv
<1>1. Services \subseteq Services /\ "sidecar" \in Services /\ "hub" \in Services
  BY DEF Services
<1>2. ASSUME NEW f \in {"plain", "apply", "restart"}, UpdateAsked(f) PROVE ReleaseInv'
  BY <1>2 DEF UpdateAsked, UpdateShape, RevertIsFollowed, updateFiles, Launched,
     ShouldFollowRevert
<1>3. ASSUME NEW v \in Releases, UpdateDecided(v) PROVE ReleaseInv'
  BY <1>3 DEF UpdateDecided, UpdateShape, RevertIsFollowed, updateFiles, Launched,
              ShouldFollowRevert
<1>4. CASE NothingNew
  <2>1. CASE fetching.flag = "restart"
    <3>1. /\ marker' = [rollback |-> FALSE, unseen |-> Services]
          /\ hub' = [hub EXCEPT !.phase = "leaving"] /\ fetching' = NoFetch
          /\ UNCHANGED <<current, copies, trial, moved, sidecar>>
      BY <1>4, <2>1 DEF NothingNew, Marked
    <3>2. UpdateShape' /\ hub'.phase = "leaving" /\ marker'.unseen = Services
      BY <3>1, HubMoves DEF UpdateShape
    <3> QED
      BY <1>1, <3>2 DEF RevertIsFollowed
  <2>2. CASE fetching.flag # "restart"
    BY <1>4, <2>2 DEF NothingNew, UpdateShape, RevertIsFollowed, Launched, ShouldFollowRevert
  <2> QED
    BY <2>1, <2>2
<1>5. CASE UpdateFails
  BY <1>5 DEF UpdateFails, UpdateShape, RevertIsFollowed, updateFiles, Launched,
              ShouldFollowRevert
<1>6. CASE UpdateLands
  <2>1. fetching.want \in Releases
    BY <1>6 DEF UpdateLands, UpdateShape, NoFetch
  <2> QED
    BY <1>6, <2>1 DEF UpdateLands, UpdateShape, RevertIsFollowed, Swapped
<1>7. CASE UpdateApplies
  <2>1. fetching.want \in Releases /\ fetching.before \in Releases
    BY <1>7 DEF UpdateApplies, UpdateShape, NoFetch
  <2>2. trial' = trial \/ trial' \in [from : Releases, to : Releases, over : BOOLEAN]
    <3>1. [from |-> fetching.before, to |-> fetching.want, over |-> FALSE]
              \in [from : Releases, to : Releases, over : BOOLEAN]
      BY <2>1
    <3>2. Armed(fetching.before, fetching.want)
      BY <1>7 DEF UpdateApplies
    <3> QED
      BY <3>1, <3>2 DEF Armed
  <2>3. /\ hub' \in [runs : Releases,
                     phase : {"proving", "serving", "leaving", "repairing", "blocked"}]
        /\ marker' \in [rollback : BOOLEAN, unseen : SUBSET Services]
    <3>1. \/ Marked(FALSE) /\ hub' = [hub EXCEPT !.phase = "leaving"]
          \/ UNCHANGED marker /\ hub' = [hub EXCEPT !.phase = "repairing"]
      BY <1>7 DEF UpdateApplies
    <3>2. CASE Marked(FALSE) /\ hub' = [hub EXCEPT !.phase = "leaving"]
      <4>1. marker' \in [rollback : BOOLEAN, unseen : SUBSET Services]
        BY <3>2 DEF Marked
      <4> QED
        BY <3>2, <4>1, HubMoves
    <3>3. CASE UNCHANGED marker /\ hub' = [hub EXCEPT !.phase = "repairing"]
      BY <3>3, HubMoves DEF UpdateShape
    <3> QED
      BY <3>1, <3>2, <3>3
  <2>4. UNCHANGED <<copies, sidecar>> /\ current' \in Releases /\ fetching' = NoFetch
        /\ moved' # "reverted"
    BY <1>7, <2>1 DEF UpdateApplies, Swapped
  <2> QED
    BY <2>2, <2>3, <2>4 DEF UpdateShape, RevertIsFollowed
<1> QED
  BY <1>2, <1>3, <1>4, <1>5, <1>6, <1>7

\* The two services start, stop and speak.
LEMMA ServicesKeep ==
    ASSUME ReleaseInv,
           \/ HubLeaves \/ HubProves \/ HealStarts \/ HealDone \/ HealFails \/ HubFollows
           \/ SidecarConnects \/ AskAnswered \/ SidecarNotices
           \/ HubCrashes \/ SidecarCrashes \/ PowerCycle
    PROVE  ReleaseInv'
<1> USE DEF ReleaseInv
<1>1. CASE HubLeaves \/ HealFails \/ HubFollows \/ HubCrashes
  <2>1. /\ hub' = [runs |-> current, phase |-> "proving"] /\ fetching' = NoFetch
        /\ marker' = Seen({"hub"})
        /\ UNCHANGED <<current, copies, trial, moved, sidecar>>
    BY <1>1 DEF HubLeaves, HealFails, HubFollows, HubCrashes, HubStarted
  <2>2. "sidecar" \in marker.unseen => "sidecar" \in marker'.unseen
    BY <2>1, MarkerSeen
  <2>3. UpdateShape'
    BY <2>1, MarkerSeen DEF UpdateShape
  <2> QED
    BY <2>1, <2>2, <2>3 DEF RevertIsFollowed, Launched
<1>2. CASE HubProves
  BY <1>2, HubMoves DEF HubProves, UpdateShape, RevertIsFollowed, Launched, ShouldFollowRevert
<1>3. CASE HealStarts
  BY <1>3, HubMoves DEF HealStarts, Marked, UpdateShape, RevertIsFollowed, Services, Launched
<1>4. CASE HealDone
  <2>1. UpdateShape'
    BY <1>4, CopiesMade, MarkerSeen DEF HealDone, HubStarted, UpdateShape
  <2>2. Launched' = current' /\ hub'.runs = current' /\ sidecar'.runs = current'
    BY <1>4, CopiesMade DEF HealDone, HubStarted, Launched
  <2> QED
    BY <2>1, <2>2 DEF RevertIsFollowed
<1>5. CASE SidecarConnects \/ AskAnswered
  <2>1. /\ UNCHANGED <<current, copies, hub, fetching, trial, marker, moved>>
        /\ sidecar'.runs = sidecar.runs
        /\ sidecar' \in [runs : Releases, asking : BOOLEAN]
    BY <1>5, SidecarAsks DEF SidecarConnects, AskAnswered, updateFiles
  <2> QED
    BY <2>1 DEF UpdateShape, RevertIsFollowed, Launched, ShouldFollowRevert
<1>6. CASE SidecarNotices \/ SidecarCrashes
  <2>1. /\ sidecar' = [runs |-> Launched, asking |-> FALSE] /\ marker' = Seen({"sidecar"})
        /\ UNCHANGED <<current, copies, hub, trial, moved, fetching>>
    BY <1>6 DEF SidecarNotices, SidecarCrashes, SidecarStarted
  <2>2. UpdateShape'
    BY <2>1, MarkerSeen, LaunchedType DEF UpdateShape
  <2>3. Launched' = Launched /\ sidecar'.runs = Launched'
    BY <2>1 DEF Launched
  <2>4. ShouldFollowRevert => ShouldFollowRevert'
    BY <2>1, MarkerSeen DEF ShouldFollowRevert
  <2> QED
    BY <2>1, <2>2, <2>3, <2>4 DEF RevertIsFollowed
<1>7. CASE PowerCycle
  <2>1. /\ hub' = [runs |-> current, phase |-> "proving"] /\ fetching' = NoFetch
        /\ sidecar' = [runs |-> Launched, asking |-> FALSE] /\ marker' = Seen(Services)
        /\ UNCHANGED <<current, copies, trial, moved>>
    BY <1>7 DEF PowerCycle, HubStarted, SidecarStarted
  <2>2. UpdateShape'
    BY <2>1, MarkerSeen, LaunchedType DEF UpdateShape
  <2>3. Launched' = Launched
    BY <2>1 DEF Launched
  <2> QED
    BY <2>1, <2>2, <2>3 DEF RevertIsFollowed
<1> QED
  BY <1>1, <1>2, <1>3, <1>4, <1>5, <1>6, <1>7

\* Time passes, and the watchdog looks.
LEMMA WatchdogKeeps ==
    ASSUME ReleaseInv, WindowPasses \/ UptimePasses \/ WatchdogConfirms \/ WatchdogReverts
    PROVE  ReleaseInv'
<1> USE DEF ReleaseInv
<1>1. CASE WindowPasses
  BY <1>1 DEF WindowPasses, OnTrial, UpdateShape, RevertIsFollowed, Launched, ShouldFollowRevert
<1>2. CASE UptimePasses \/ WatchdogConfirms
  BY <1>2 DEF UptimePasses, WatchdogConfirms, UpdateShape, RevertIsFollowed, Launched,
              ShouldFollowRevert
<1>3. CASE WatchdogReverts
  <2>1. trial.from \in Releases
    BY <1>3 DEF WatchdogReverts, OnTrial, UpdateShape
  <2>2. trial' = NoTrial /\ UNCHANGED <<copies, hub, sidecar, fetching>>
    BY <1>3 DEF WatchdogReverts
  <2>3. CASE unpacked[trial.from] # 0
    <3>1. /\ current' = trial.from /\ marker' = [rollback |-> TRUE, unseen |-> Services]
      BY <1>3, <2>3 DEF WatchdogReverts, Revert, Marked
    <3>2. UpdateShape'
      BY <2>1, <2>2, <3>1 DEF UpdateShape
    <3> QED
      BY <2>2, <3>1, <3>2 DEF RevertIsFollowed, ShouldFollowRevert, Services
  <2>4. CASE unpacked[trial.from] = 0
    BY <1>3, <2>2, <2>4 DEF WatchdogReverts, UpdateShape, RevertIsFollowed, Launched,
                            ShouldFollowRevert
  <2> QED
    BY <2>3, <2>4
<1> QED
  BY <1>1, <1>2, <1>3

LEMMA ReleaseInvariant == UpdateSpec => []ReleaseInv
<1>1. UpdateInit => ReleaseInv
  BY UpdateShapeInit
<1>2. ReleaseInv /\ [UpdateNext]_updateVars => ReleaseInv'
  <2>1. ASSUME ReleaseInv, UNCHANGED updateVars PROVE ReleaseInv'
    BY <2>1 DEF ReleaseInv, updateVars, updateFiles, UpdateShape, RevertIsFollowed, Launched,
                ShouldFollowRevert
  <2> QED
    BY <2>1, UpdateVerbKeeps, ServicesKeep, WatchdogKeeps DEF UpdateNext
<1> QED
  BY <1>1, <1>2, PTL DEF UpdateSpec

\* After a revert no service stays on the release taken back, whatever crashed,
\* repaired or was updated since (restart-watch.js).
THEOREM RevertsAreFollowed == UpdateSpec => []RevertIsFollowed
<1>1. ReleaseInv => RevertIsFollowed
  BY DEF ReleaseInv
<1> QED
  BY <1>1, ReleaseInvariant, PTL

\* What is on disk besides: the releases unpacked, the linked one among them, the
\* evidence, and what is counted.
UpdateDisk ==
    /\ unpacked \in [Releases -> 0..(MaxUpdates + 1)] /\ unpacked[current] # 0
    /\ evidence \in [hub : Releases \cup {NoRelease}, coord : Releases \cup {NoRelease}]
    /\ uptime \in BOOLEAN /\ moved \in {"installed", "landed", "applied", "reverted"}
    /\ updates \in 0..MaxUpdates /\ mishaps \in 0..MaxMishaps

\* Pruning spares the release the link was moved to.
LEMMA SwapKeepsTheLinked ==
    ASSUME UpdateDisk, NEW v \in Releases, Swapped(v)
    PROVE  unpacked' \in [Releases -> 0..(MaxUpdates + 1)] /\ unpacked'[current'] # 0
<1> DEFINE at == [unpacked EXCEPT ![v] = updates + 1]
<1>1. updates + 1 \in 1..(MaxUpdates + 1)
  BY UpdateTrialAssumption DEF UpdateDisk
<1>2. at \in [Releases -> 0..(MaxUpdates + 1)] /\ at[v] # 0
  BY <1>1 DEF UpdateDisk
<1>3. unpacked' = Pruned(at, v, current) /\ current' = v
  BY DEF Swapped
<1> HIDE DEF at
<1>4. \A r \in Releases : Pruned(at, v, current)[r] \in {at[r], 0}
  BY DEF Pruned
<1>5. Pruned(at, v, current) = [r \in Releases |-> Pruned(at, v, current)[r]]
  BY DEF Pruned
<1>6. Pruned(at, v, current)[v] = at[v]
  BY DEF Pruned
<1>7. 0 \in 0..(MaxUpdates + 1)
  BY UpdateTrialAssumption
<1>8. \A r \in Releases : Pruned(at, v, current)[r] \in 0..(MaxUpdates + 1)
  BY <1>2, <1>4, <1>7
<1> QED
  BY <1>2, <1>3, <1>5, <1>6, <1>8

\* Evidence is of the release that gives it.
LEMMA HealthIsARelease ==
    ASSUME UpdateDisk, NEW which \in {"hub", "coord"}, NEW release \in Releases,
           HealthNoted(which, release)
    PROVE  evidence' \in [hub : Releases \cup {NoRelease}, coord : Releases \cup {NoRelease}]
  BY DEF UpdateDisk, HealthNoted

LEMMA DiskStep ==
    ASSUME UpdateShape, UpdateDisk, [UpdateNext]_updateVars
    PROVE  UpdateDisk'
<1>1. NoEvidence \in [hub : Releases \cup {NoRelease}, coord : Releases \cup {NoRelease}]
  BY DEF NoEvidence
<1>2. updates \in Nat /\ mishaps \in Nat /\ MaxUpdates \in Nat /\ MaxMishaps \in Nat
  BY UpdateTrialAssumption DEF UpdateDisk
<1>3. CASE UpdateLands \/ UpdateApplies
  <2>0. fetching.want # NoRelease /\ Swapped(fetching.want)
    BY <1>3 DEF UpdateLands, UpdateApplies
  <2>1. fetching.want \in Releases
    BY <2>0 DEF UpdateShape, NoFetch
  <2>2. evidence' \in {evidence, NoEvidence} /\ moved' \in {"landed", "applied"}
        /\ UNCHANGED <<uptime, updates, mishaps>>
    BY <1>3 DEF UpdateLands, UpdateApplies, Armed
  <2> QED
    BY <1>1, <2>0, <2>1, <2>2, SwapKeepsTheLinked DEF UpdateDisk
<1>4. CASE HubProves
  <2>1. evidence' = evidence \/ HealthNoted("hub", hub.runs)
    BY <1>4 DEF HubProves
  <2>2. evidence' \in [hub : Releases \cup {NoRelease}, coord : Releases \cup {NoRelease}]
    BY <2>1, HealthIsARelease DEF UpdateShape, UpdateDisk
  <2> QED
    BY <1>4, <2>2 DEF HubProves, UpdateDisk
<1>5. CASE AskAnswered
  <2>1. evidence' = evidence \/ HealthNoted("coord", sidecar.runs)
    BY <1>5 DEF AskAnswered
  <2>2. evidence' \in [hub : Releases \cup {NoRelease}, coord : Releases \cup {NoRelease}]
    BY <2>1, HealthIsARelease DEF UpdateShape, UpdateDisk
  <2> QED
    BY <1>5, <2>2 DEF AskAnswered, UpdateDisk
<1>6. CASE WatchdogReverts
  <2>1. trial.from \in Releases
    BY <1>6 DEF WatchdogReverts, OnTrial, UpdateShape
  <2>2. /\ UNCHANGED <<unpacked, uptime, updates, mishaps>>
        /\ evidence' \in {evidence, NoEvidence} /\ moved' \in {moved, "reverted"}
        /\ current' = current \/ (current' = trial.from /\ unpacked[trial.from] # 0)
    BY <1>6 DEF WatchdogReverts, Revert
  <2> QED
    BY <1>1, <2>1, <2>2 DEF UpdateDisk
<1>7. CASE WatchdogConfirms
  BY <1>1, <1>7 DEF WatchdogConfirms, UpdateDisk
<1>8. ASSUME NEW v \in Releases, UpdateDecided(v) PROVE UpdateDisk'
  BY <1>2, <1>8 DEF UpdateDecided, updateFiles, UpdateDisk
<1>9. CASE HubCrashes \/ SidecarCrashes \/ PowerCycle
  <2>1. UNCHANGED <<current, unpacked, evidence, moved, updates>> /\ uptime' \in {uptime, FALSE}
        /\ mishaps < MaxMishaps /\ mishaps' = mishaps + 1
    BY <1>9 DEF HubCrashes, SidecarCrashes, PowerCycle, Mishap
  <2>2. mishaps' \in 0..MaxMishaps
    BY <1>2, <2>1
  <2>3. uptime' \in BOOLEAN
    BY <2>1 DEF UpdateDisk
  <2> QED
    BY <2>1, <2>2, <2>3 DEF UpdateDisk
<1>10. CASE UptimePasses
  BY <1>10 DEF UptimePasses, UpdateDisk
<1>11. CASE \/ \E f \in {"plain", "apply", "restart"} : UpdateAsked(f)
            \/ NothingNew \/ UpdateFails \/ HubLeaves \/ HealStarts \/ HealDone
            \/ HealFails \/ HubFollows \/ SidecarConnects \/ SidecarNotices
            \/ WindowPasses \/ UNCHANGED updateVars
  <2>1. UNCHANGED <<current, unpacked, evidence, uptime, moved, updates, mishaps>>
    BY <1>11 DEF UpdateAsked, NothingNew, UpdateFails, HubLeaves, HealStarts, HealDone,
       HealFails,
                 HubFollows, SidecarConnects, SidecarNotices, WindowPasses, updateVars, updateFiles
  <2> QED
    BY <2>1 DEF UpdateDisk
<1> QED
  BY <1>3, <1>4, <1>5, <1>6, <1>7, <1>8, <1>9, <1>10, <1>11 DEF UpdateNext

\* What hub, sidecar, installer and watchdog share stays well formed: the link is to a
\* release unpacked on disk, however many were pruned or taken back.
THEOREM UpdateTypes == UpdateSpec => []UpdateTypeOK
<1>1. UpdateInit => UpdateDisk
  BY UpdateTrialAssumption DEF UpdateInit, UpdateDisk, NoEvidence
<1>2. ReleaseInv /\ UpdateDisk /\ [UpdateNext]_updateVars => UpdateDisk'
  BY DiskStep DEF ReleaseInv
<1>3. ReleaseInv /\ UpdateDisk => UpdateTypeOK
  BY DEF ReleaseInv, UpdateShape, UpdateDisk, UpdateTypeOK
<1> QED
  BY <1>1, <1>2, <1>3, ReleaseInvariant, PTL DEF UpdateSpec

=============================================================================
