------------------------------ MODULE Sessions ------------------------------
(***************************************************************************)
(* The sessions of one box: SessionManager (src/src/core/sessions.js) over *)
(* the records of Registry (src/src/core/registry.js) and the panes tmux   *)
(* has.  tmux says what is running, the records what can be resumed; every *)
(* request first reconciles the two.                                       *)
(*                                                                         *)
(* Most requests run to their end at once.  A launch does not: it awaits   *)
(* the egress network and the volumes, then its hook socket, then the      *)
(* resume dialog and Remote Control; and after a start of the hub, restore *)
(* brings sessions back one by one while requests are already served       *)
(* (index.js, restoreInBackground).  Records are saved as they change, so  *)
(* a hub that dies loses only what was in flight.                          *)
(***************************************************************************)
EXTENDS Naturals, FiniteSets

CONSTANTS
    SessionNames,
    NoRecord, NoName,
    Cap,            \* cfg.maxSessions
    RcRequired,     \* cfg.rcRequired
    Launches,       \* bound: launches in flight at once
    MaxBoots        \* bound: starts of the hub, reports it missed, panes
                    \* that die or appear, recovery windows that end

Records == [status : {"running", "stopped", "error"}, uuid : BOOLEAN, onBoot : BOOLEAN]
Binned == [rec : Records, over : BOOLEAN]

ASSUME SessionsAssumption ==
    /\ IsFiniteSet(SessionNames) /\ NoName \notin SessionNames
    /\ Cap \in Nat \ {0} /\ RcRequired \in BOOLEAN /\ MaxBoots \in Nat
    /\ NoRecord \notin Records \cup Binned

VARIABLES
    rec,            \* registry.sessions: status, whether a conversation is
                    \* recorded, resumeOnBoot
    bin,            \* registry.bin, and whether the recovery window is over
    panes,          \* the sessions tmux has
    spool,          \* names with a conversation waiting in the spool file
    inFlight,       \* this.inFlight
    launch,         \* each #launch under way: its name, what it resumes, how far
    restoring,      \* candidates restore() has still to look at
    bringing,       \* the one it is bringing back now, or NoName
    brought,        \* restored.length + alreadyCounted
    boots,
    askedDown       \* history: names somebody asked to be down, and nobody since up

sessionVars == <<rec, bin, panes, spool, inFlight, launch, restoring, bringing,
                 brought, boots, askedDown>>
restoreVars == <<restoring, bringing, brought>>
bootVars == <<restoreVars, boots>>

NoLaunch == [name |-> NoName, uuid |-> FALSE, phase |-> "idle"]
Underway == [name : SessionNames, uuid : BOOLEAN, phase : {"preparing", "opening", "settling"}]

SessionsTypeOK ==
    /\ rec \in [SessionNames -> Records \cup {NoRecord}]
    /\ bin \in [SessionNames -> Binned \cup {NoRecord}]
    /\ panes \subseteq SessionNames /\ spool \subseteq SessionNames
    /\ inFlight \subseteq SessionNames
    /\ launch \in [Launches -> {NoLaunch} \cup Underway]
    /\ restoring \subseteq SessionNames \X BOOLEAN /\ bringing \in SessionNames \cup {NoName}
    /\ brought \in Nat /\ boots \in 0..MaxBoots /\ askedDown \subseteq SessionNames

Booted == boots < MaxBoots /\ boots' = boots + 1

---------------------------------------------------------------------------
(* Records *)

Unrun == [status |-> "stopped", uuid |-> FALSE, onBoot |-> FALSE]

\* upsert: merged into the record that is there, or into a new one.
Status(r, n, s) == [(IF r[n] = NoRecord THEN Unrun ELSE r[n]) EXCEPT !.status = s]

\* drainSpool: it makes a record where there is none.
Drained == [n \in SessionNames |->
    IF n \in spool THEN [(IF rec[n] = NoRecord THEN Unrun ELSE rec[n]) EXCEPT !.uuid = TRUE]
                   ELSE rec[n]]

\* What reconcile makes of one record, against the panes there are: an ended
\* session is flagged for the next boot, a pane nobody knows is adopted.
ReconciledOne(r, alive) ==
    IF r = NoRecord THEN IF alive THEN [Unrun EXCEPT !.status = "running"] ELSE r
    ELSE IF r.status = "running" /\ ~alive THEN [r EXCEPT !.status = "stopped", !.onBoot = TRUE]
    ELSE IF alive THEN [r EXCEPT !.status = "running"]
    ELSE r

\* reconcile: the spool first, then every name that is not being launched.
ReconciledAgainst(live, held) == [n \in SessionNames |->
    IF n \in held THEN Drained[n] ELSE ReconciledOne(Drained[n], n \in live)]

RecordsReconciled == ReconciledAgainst(panes, inFlight)

\* sweepBin: what is past its recovery window.
SweptBin == [n \in SessionNames |-> IF bin[n] # NoRecord /\ bin[n].over THEN NoRecord ELSE bin[n]]

RunningIn(r) == {n \in SessionNames : r[n] # NoRecord /\ r[n].status = "running"}

LaunchOf(n) == \E l \in Launches : launch[l].name = n

---------------------------------------------------------------------------
(* Requests *)

Launching(n, uuid) ==
    /\ Cardinality(RunningIn(RecordsReconciled)) < Cap
    /\ \E l \in Launches :
          /\ launch[l] = NoLaunch
          /\ launch' = [launch EXCEPT ![l] = [name |-> n, uuid |-> uuid, phase |-> "preparing"]]
    /\ askedDown' = askedDown \ {n}

\* start: a name that is free in every place it is looked for.
Start(n) ==
    /\ n \notin panes /\ n \notin inFlight
    /\ SweptBin[n] = NoRecord
    /\ RecordsReconciled[n] # NoRecord =>
          RecordsReconciled[n].status = "error" /\ ~RecordsReconciled[n].uuid
    /\ Launching(n, FALSE)
    /\ rec' = RecordsReconciled /\ bin' = SweptBin /\ spool' = {}
    /\ UNCHANGED <<panes, inFlight, bootVars>>

\* resume: a record with a conversation and no pane.
Resume(n) ==
    /\ n \notin panes
    /\ RecordsReconciled[n] # NoRecord /\ RecordsReconciled[n].uuid
    /\ Launching(n, TRUE)
    /\ rec' = RecordsReconciled /\ spool' = {}
    /\ UNCHANGED <<bin, panes, inFlight, bootVars>>

\* Mutant: one that is not running is left as it is.
StoppedUnflagged(r, n) ==
    IF n \in panes THEN [Status(r, n, "stopped") EXCEPT !.onBoot = FALSE] ELSE r[n]

\* What stop leaves: down, and down at the next boot.
Stopped(r, n) ==
    IF n \in panes \/ r[n].status = "running"
    THEN [Status(r, n, "stopped") EXCEPT !.onBoot = FALSE]
    ELSE [r[n] EXCEPT !.onBoot = FALSE]

\* stop: it reconciles first, which flags one that had just ended.  A pane
\* whose launch is still in flight has a record only once the launch wrote it.
Stop(n) ==
    /\ RecordsReconciled[n] # NoRecord \/ n \in panes
    /\ rec' = [RecordsReconciled EXCEPT ![n] = Stopped(RecordsReconciled, n)]
    /\ panes' = panes \ {n}
    /\ spool' = {}
    /\ askedDown' = IF LaunchOf(n) THEN askedDown ELSE askedDown \cup {n}
    /\ UNCHANGED <<bin, inFlight, launch, bootVars>>

\* forget: the pane goes and the record moves to the bin, over whatever was
\* binned under the name.  It does not reconcile.
Forget(n) ==
    /\ rec[n] # NoRecord
    /\ panes' = panes \ {n}
    /\ bin' = [SweptBin EXCEPT ![n] = [rec |-> rec[n], over |-> FALSE]]
    /\ rec' = [rec EXCEPT ![n] = NoRecord]
    /\ UNCHANGED <<spool, inFlight, launch, bootVars, askedDown>>

\* forgetOwner, for one session of somebody removed: stopped, then forgotten.
ForgetOwner(n) ==
    /\ rec[n] # NoRecord
    /\ panes' = panes \ {n}
    /\ bin' = [SweptBin EXCEPT ![n] =
                 [rec |-> [rec[n] EXCEPT !.status = "stopped", !.onBoot = FALSE], over |-> FALSE]]
    /\ rec' = [rec EXCEPT ![n] = NoRecord]
    /\ UNCHANGED <<spool, inFlight, launch, bootVars, askedDown>>

RestoreFromBin(n) ==
    /\ rec[n] = NoRecord /\ SweptBin[n] # NoRecord
    /\ rec' = [rec EXCEPT ![n] = bin[n].rec]
    /\ bin' = [SweptBin EXCEPT ![n] = NoRecord]
    /\ UNCHANGED <<panes, spool, inFlight, launch, bootVars, askedDown>>

\* purge: for good; the record, or else the binned one.
Purge(n) ==
    /\ rec[n] # NoRecord \/ bin[n] # NoRecord
    /\ panes' = panes \ {n}
    /\ IF rec[n] # NoRecord
       THEN rec' = [rec EXCEPT ![n] = NoRecord] /\ UNCHANGED bin
       ELSE bin' = [bin EXCEPT ![n] = NoRecord] /\ UNCHANGED rec
    /\ askedDown' = askedDown \ {n}
    /\ UNCHANGED <<spool, inFlight, launch, bootVars>>

\* The timer's reconcile, and that of every read.
ReconcilePass ==
    /\ rec' = RecordsReconciled /\ spool' = {}
    /\ UNCHANGED <<bin, panes, inFlight, launch, bootVars, askedDown>>

SweepPass ==
    /\ bin' = SweptBin
    /\ UNCHANGED <<rec, panes, spool, inFlight, launch, bootVars, askedDown>>

\* recordUuid, the hook's report: of a record that is there.
RecordUuid(n) ==
    /\ rec[n] # NoRecord
    /\ rec' = [rec EXCEPT ![n].uuid = TRUE,
                          ![n].status = IF n \in panes THEN "running" ELSE "stopped"]
    /\ UNCHANGED <<bin, panes, spool, inFlight, launch, bootVars, askedDown>>

\* The report while the hub could not be reached.
SpoolUuid(n) ==
    /\ Booted
    /\ n \in panes
    /\ spool' = spool \cup {n}
    /\ UNCHANGED <<rec, bin, panes, inFlight, launch, restoreVars, askedDown>>

---------------------------------------------------------------------------
(* A launch *)

\* What it was preparing could not be had.
LaunchFails(l) ==
    /\ launch[l].phase = "preparing"
    /\ rec' = [rec EXCEPT ![launch[l].name] = Status(rec, launch[l].name, "error")]
    /\ launch' = [launch EXCEPT ![l] = NoLaunch]
    /\ UNCHANGED <<bin, panes, spool, inFlight, bootVars, askedDown>>

\* The volumes are there; only now is the name held.
LaunchPrepared(l) ==
    /\ launch[l].phase = "preparing"
    /\ inFlight' = inFlight \cup {launch[l].name}
    /\ launch' = [launch EXCEPT ![l].phase = "opening"]
    /\ UNCHANGED <<rec, bin, panes, spool, bootVars, askedDown>>

\* newSession: it fails where the name has a pane already, or for reasons of
\* its own, or the pane dies as it opens.
LaunchSpawns(l) ==
    LET n == launch[l].name
        up == [Status(rec, n, "running") EXCEPT !.uuid = @ \/ launch[l].uuid] IN
    /\ launch[l].phase = "opening"
    /\ \/ /\ n \notin panes
          /\ panes' = panes \cup {n}
          /\ rec' = [rec EXCEPT ![n] = up]
          /\ launch' = [launch EXCEPT ![l].phase = "settling"]
          /\ UNCHANGED inFlight
       \/ /\ rec' = [rec EXCEPT ![n] = Status(rec, n, "error")]
          /\ launch' = [launch EXCEPT ![l] = NoLaunch]
          /\ inFlight' = inFlight \ {n}
          /\ UNCHANGED panes
    /\ UNCHANGED <<bin, spool, bootVars, askedDown>>

\* The dialog and Remote Control are over, well or not.  The record is
\* written once more, whatever has become of it meanwhile.
LaunchSettles(l) ==
    LET n == launch[l].name
        kept == IF rec[n] = NoRecord THEN Unrun ELSE rec[n] IN
    /\ launch[l].phase = "settling"
    /\ \/ rec' = [rec EXCEPT ![n] = kept] /\ UNCHANGED panes
       \/ /\ RcRequired
          /\ panes' = panes \ {n}
          /\ rec' = [rec EXCEPT ![n] = [kept EXCEPT !.status = "error", !.onBoot = FALSE]]
    /\ launch' = [launch EXCEPT ![l] = NoLaunch]
    /\ inFlight' = inFlight \ {n}
    /\ UNCHANGED <<bin, spool, bootVars, askedDown>>

---------------------------------------------------------------------------
(* The start of the hub, and restore *)

\* main: reconcile, then restore in the background, of the sessions that were
\* running or ended by themselves, beside what other sessions take of the cap.
\* A reboot of the box takes the panes too.
HubStarts(alive) ==
    LET r == ReconciledAgainst(alive, {}) IN
    /\ Booted
    /\ panes' = alive
    /\ rec' = r /\ spool' = {}
    /\ inFlight' = {} /\ launch' = [l \in Launches |-> NoLaunch]
    /\ restoring' = {<<n, r[n].uuid>> :
                        n \in {m \in SessionNames \ alive : r[m] # NoRecord /\ r[m].onBoot}}
    /\ bringing' = NoName
    /\ \E others \in 0..Cap : brought' = Cardinality(alive) + others
    /\ UNCHANGED <<bin, askedDown>>

\* restore comes to a candidate, of which it holds what list() gave it at the
\* start; the record may have changed since.  One without a conversation, or
\* beyond the cap, is left down.
Candidate(n, uuid) ==
    /\ bringing = NoName /\ <<n, uuid>> \in restoring
    /\ restoring' = restoring \ {<<n, uuid>>}
    /\ IF uuid /\ brought < Cap
       THEN /\ bringing' = n /\ inFlight' = inFlight \cup {n}
            /\ UNCHANGED rec
       ELSE /\ rec' = [rec EXCEPT ![n] =
                          [Status(rec, n, "stopped") EXCEPT !.onBoot = @ /\ uuid]]
            /\ UNCHANGED <<bringing, inFlight>>
    /\ UNCHANGED <<bin, panes, spool, launch, brought, boots, askedDown>>

\* The awaits of a candidate are over: it is brought back, or cannot be.
BringBack ==
    /\ bringing # NoName
    /\ bringing' = NoName /\ inFlight' = inFlight \ {bringing}
    /\ \/ /\ bringing \notin panes
          /\ panes' = panes \cup {bringing}
          /\ rec' = [rec EXCEPT ![bringing] =
                        [Status(rec, bringing, "running") EXCEPT !.onBoot = FALSE]]
          /\ brought' = brought + 1 /\ askedDown' = askedDown \ {bringing}
       \/ /\ rec' = [rec EXCEPT ![bringing] =
                        [Status(rec, bringing, "error") EXCEPT !.onBoot = FALSE]]
          /\ UNCHANGED <<panes, brought, askedDown>>
    /\ UNCHANGED <<bin, spool, launch, restoring, boots>>

---------------------------------------------------------------------------
(* What surrounds the manager *)

PaneDies(n) ==
    /\ Booted
    /\ n \in panes /\ panes' = panes \ {n}
    /\ UNCHANGED <<rec, bin, spool, inFlight, launch, restoreVars, askedDown>>

\* Somebody on the box opens a pane of that name by hand.
PaneAppears(n) ==
    /\ Booted
    /\ n \notin panes /\ panes' = panes \cup {n}
    /\ askedDown' = askedDown \ {n}
    /\ UNCHANGED <<rec, bin, spool, inFlight, launch, restoreVars>>

\* A binned session's recovery window ends.
WindowEnds(n) ==
    /\ Booted
    /\ bin[n] # NoRecord /\ ~bin[n].over
    /\ bin' = [bin EXCEPT ![n].over = TRUE]
    /\ UNCHANGED <<rec, panes, spool, inFlight, launch, restoreVars, askedDown>>

---------------------------------------------------------------------------
(* Specification *)

SessionsInit ==
    /\ rec = [n \in SessionNames |-> NoRecord] /\ bin = [n \in SessionNames |-> NoRecord]
    /\ panes = {} /\ spool = {} /\ inFlight = {}
    /\ launch = [l \in Launches |-> NoLaunch]
    /\ restoring = {} /\ bringing = NoName /\ brought = 0 /\ boots = 0
    /\ askedDown = {}

SessionsNext ==
    \/ \E n \in SessionNames :
          \/ Start(n) \/ Resume(n) \/ Stop(n) \/ Forget(n) \/ ForgetOwner(n)
          \/ RestoreFromBin(n) \/ Purge(n) \/ RecordUuid(n) \/ SpoolUuid(n)
          \/ Candidate(n, TRUE) \/ Candidate(n, FALSE)
          \/ PaneDies(n) \/ PaneAppears(n) \/ WindowEnds(n)
    \/ \E l \in Launches :
          LaunchFails(l) \/ LaunchPrepared(l) \/ LaunchSpawns(l) \/ LaunchSettles(l)
    \/ ReconcilePass \/ SweepPass \/ BringBack
    \/ HubStarts({}) \/ HubStarts(panes)

SessionsSpec == SessionsInit /\ [][SessionsNext]_sessionVars

---------------------------------------------------------------------------
(* Properties *)

\* "Someone asked for this.  It must NOT come back by itself at the next boot
\* - that is the difference between a stop and a crash" (sessions.js:1020).
\* Whatever ended, was reported, spooled, forgotten, put back, launched or
\* brought back meanwhile, a session that was asked to be down, and that nothing
\* has opened since, is not listed as running nor as one for the next boot.
StoppedStaysDown ==
    \A n \in askedDown : rec[n] # NoRecord => rec[n].status # "running" /\ ~rec[n].onBoot

\* Nor does the boot under way bring it up: restore opens no pane for a session
\* someone asked to be down and nobody asked for since.  Does not hold: restore
\* goes by the list it made at its start.
RestoreLeavesStopped ==
    [][\A n \in askedDown : n = bringing /\ n # bringing' => n \notin panes']_sessionVars

\* "A name can only be in one place" (registry.js, bin_): a binned session is
\* out of the list, so that it can be put back, and what is swept from the
\* bin - its volumes, by name - is nobody's.  Does not hold: a launch under way
\* writes its record again after a forget.
NameInOnePlace == \A n \in SessionNames : rec[n] = NoRecord \/ bin[n] = NoRecord
=============================================================================
