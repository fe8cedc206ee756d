---------------------------- MODULE UpdateTrial ----------------------------
(***************************************************************************)
(* An update of a packaged box, and the trial that may take it back: the   *)
(* `update` verb (src/src/adapters/commands.js) over applyRelease and      *)
(* prune (src/src/core/release-apply.js), armConfirmation and noteHealth   *)
(* (core/update-confirm.js), the restart marker (core/restart-watch.js),   *)
(* the deferred heal (core/migrate.js), the launcher of the sidecar's own  *)
(* copies and the watchdog script (install/fleetwright-confirm).           *)
(*                                                                         *)
(* Hub, sidecar, root's installer and watchdog share only files.  Times    *)
(* are kept as what they are compared for: whether a window has passed,    *)
(* and which services started before the marker was written.  Evidence     *)
(* carries, as history, the release of the process that gave it.           *)
(***************************************************************************)
EXTENDS Naturals, FiniteSets, SequencesExt

CONSTANTS
    Releases, NoRelease,
    Installed,      \* what the box starts from, proven
    NoSession,      \* releases whose hub cannot start a session
    NoLink,         \* releases whose sidecar cannot reach the coordinator
    KeepReleases,   \* RELEASES_KEPT
    MaxUpdates,     \* bound: releases decided on
    MaxMishaps      \* bound: crashes and power cycles

ASSUME UpdateTrialAssumption ==
    /\ NoRelease \notin Releases /\ Installed \in Releases
    /\ NoSession \subseteq Releases /\ NoLink \subseteq Releases
    /\ KeepReleases \in Nat \ {0, 1} /\ MaxUpdates \in Nat /\ MaxMishaps \in Nat

VARIABLES
    current,        \* the link
    unpacked,       \* releases/: when each was unpacked, 0 for not there
    copies,         \* root's copies for the sidecar, newest last
    hub,            \* what it runs, and how far it has got
    sidecar,        \* what it runs, and whether its ask is still unanswered
    fetching,       \* an update between its first await and its landing
    trial,          \* the record: from, to, whether its window is over
    evidence,       \* each half of health, as the release that gave it
    uptime,         \* the box has been up a whole window
    marker,         \* whose, and the services started before it
    moved,          \* history: how the link last moved
    updates, mishaps

updateFiles == <<current, unpacked, copies, trial, evidence, uptime, marker, moved>>
updateVars == <<updateFiles, hub, sidecar, fetching, updates, mishaps>>

NoTrial == [from |-> NoRelease, to |-> NoRelease, over |-> FALSE]
NoEvidence == [hub |-> NoRelease, coord |-> NoRelease]
NoFetch == [before |-> NoRelease, want |-> NoRelease, flag |-> "plain"]
Services == {"hub", "sidecar"}

UpdateTypeOK ==
    /\ current \in Releases
    /\ unpacked \in [Releases -> 0..(MaxUpdates + 1)] /\ unpacked[current] # 0
    /\ copies \in Seq(Releases) /\ Len(copies) \in 1..2
    /\ hub \in [runs : Releases,
                phase : {"proving", "serving", "leaving", "repairing", "blocked"}]
    /\ sidecar \in [runs : Releases, asking : BOOLEAN]
    /\ fetching \in [before : Releases, want : Releases \cup {NoRelease},
                     flag : {"plain", "apply", "restart"}] \cup {NoFetch}
    /\ trial \in [from : Releases, to : Releases, over : BOOLEAN] \cup {NoTrial}
    /\ evidence \in [hub : Releases \cup {NoRelease}, coord : Releases \cup {NoRelease}]
    /\ uptime \in BOOLEAN
    /\ marker \in [rollback : BOOLEAN, unseen : SUBSET Services]
    /\ moved \in {"installed", "landed", "applied", "reverted"}
    /\ updates \in 0..MaxUpdates /\ mishaps \in 0..MaxMishaps

---------------------------------------------------------------------------
(* Files *)

OnTrial == trial # NoTrial
Proven == evidence.hub # NoRelease /\ evidence.coord # NoRelease

\* releasesToPrune: what runs, what ran before it, and the newest of the rest.
Pruned(at, live, previous) ==
    LET spared == {live, previous}
        newer(r) == {q \in Releases \ spared : at[q] > at[r]}
        kept == {r \in Releases : r \in spared
                    \/ Cardinality(newer(r)) < KeepReleases - Cardinality(spared)}
    IN [r \in Releases |-> IF r \in kept THEN at[r] ELSE 0]

\* The swap: unpacked anew under its name, the link moved, the old ones pruned.
Swapped(v) ==
    /\ current' = v
    /\ unpacked' = Pruned([unpacked EXCEPT ![v] = updates + 1], v, current)

\* armConfirmation: nothing to arm where there is nothing to fall back to.
Armed(from, to) ==
    IF from = to THEN UNCHANGED <<trial, evidence>>
    ELSE /\ trial' = [from |-> from, to |-> to, over |-> FALSE]
         /\ evidence' = NoEvidence

\* noteHealth: only while something is on trial.
HealthNoted(which, release) ==
    evidence' = IF OnTrial THEN [evidence EXCEPT ![which] = release] ELSE evidence

\* requestRestart: every service running now started before the marker.
Marked(rollback) == marker' = [rollback |-> rollback, unseen |-> Services]

\* The release the launcher picks: the hub's, where root has a copy of it.
Launched == IF current \in ToSet(copies) THEN current ELSE Last(copies)

HubServes == hub.phase \in {"serving", "leaving", "repairing"}

---------------------------------------------------------------------------
(* The update verb, in the hub *)

\* /update, /update --apply, /update --restart: what a trial would fall back to
\* is read before the manifest is asked for.
UpdateAsked(flag) ==
    /\ HubServes /\ fetching = NoFetch
    /\ fetching' = [before |-> current, want |-> NoRelease, flag |-> flag]
    /\ UNCHANGED <<updateFiles, hub, sidecar, updates, mishaps>>

\* decideRelease: the manifest's is not the one `current` holds.
UpdateDecided(v) ==
    /\ fetching # NoFetch /\ fetching.want = NoRelease /\ v # current
    /\ updates < MaxUpdates /\ updates' = updates + 1
    /\ fetching' = [fetching EXCEPT !.want = v]
    /\ UNCHANGED <<updateFiles, hub, sidecar, mishaps>>

\* Already current: an explicit restart is still a restart (restartSelf).
NothingNew ==
    /\ fetching # NoFetch /\ fetching.want = NoRelease
    /\ IF fetching.flag = "restart"
       THEN Marked(FALSE) /\ hub' = [hub EXCEPT !.phase = "leaving"]
       ELSE UNCHANGED <<marker, hub>>
    /\ fetching' = NoFetch
    /\ UNCHANGED <<current, unpacked, copies, trial, evidence, uptime, moved, sidecar,
                   updates, mishaps>>

\* The manifest, the download, its digest or its first run failed.
UpdateFails ==
    /\ fetching # NoFetch
    /\ fetching' = NoFetch
    /\ UNCHANGED <<updateFiles, hub, sidecar, updates, mishaps>>

\* Landed, for somebody to restart onto later.
UpdateLands ==
    /\ fetching.want # NoRelease /\ fetching.flag = "plain"
    /\ Swapped(fetching.want)
    /\ moved' = "landed" /\ fetching' = NoFetch
    /\ UNCHANGED <<copies, trial, evidence, uptime, marker, hub, sidecar, updates, mishaps>>

\* Landed and applied: on trial, then root's installer in a moment, or where
\* there is no helper a restart.
UpdateApplies ==
    /\ fetching.want # NoRelease /\ fetching.flag # "plain"
    /\ Swapped(fetching.want)
    /\ Armed(fetching.before, fetching.want)
    /\ \/ Marked(FALSE) /\ hub' = [hub EXCEPT !.phase = "leaving"]
       \/ UNCHANGED marker /\ hub' = [hub EXCEPT !.phase = "repairing"]
    /\ moved' = "applied" /\ fetching' = NoFetch
    /\ UNCHANGED <<copies, uptime, sidecar, updates, mishaps>>

---------------------------------------------------------------------------
(* The hub *)

HubStarted == hub' = [runs |-> current, phase |-> "proving"] /\ fetching' = NoFetch

\* Mutant: a service that restarts leaves its fellow nothing to see.
SeenBoth(services) == [marker EXCEPT !.unseen = {}]

\* A service that starts now started after the marker.
Seen(services) == [marker EXCEPT !.unseen = @ \ services]

\* The exit a restart had promised.
HubLeaves ==
    /\ hub.phase = "leaving"
    /\ HubStarted /\ marker' = Seen({"hub"})
    /\ UNCHANGED <<current, unpacked, copies, trial, evidence, uptime, moved, sidecar,
                   updates, mishaps>>

\* proveHub: a session starts, or does not; and then it serves.
HubProves ==
    /\ hub.phase = "proving"
    /\ hub' = [hub EXCEPT !.phase = "serving"]
    /\ IF hub.runs \in NoSession THEN UNCHANGED evidence ELSE HealthNoted("hub", hub.runs)
    /\ UNCHANGED <<current, unpacked, copies, trial, uptime, marker, moved, sidecar,
                   fetching, updates, mishaps>>

\* healAfterRelease: the marker first, and then the hub waits for the helper.
HealStarts ==
    /\ hub.phase = "repairing"
    /\ Marked(FALSE) /\ hub' = [hub EXCEPT !.phase = "blocked"]
    /\ UNCHANGED <<current, unpacked, copies, trial, evidence, uptime, moved, sidecar,
                   fetching, updates, mishaps>>

\* The installer ran: root's copy of the release, and both services restarted.
HealDone ==
    /\ hub.phase = "blocked"
    /\ copies' = IF Last(copies) = current THEN copies ELSE <<Last(copies), current>>
    /\ HubStarted
    /\ sidecar' = [runs |-> current, asking |-> FALSE]
    /\ marker' = Seen(Services)
    /\ UNCHANGED <<current, unpacked, trial, evidence, uptime, moved, updates, mishaps>>

\* It did not: the hub restarts all the same.
HealFails ==
    /\ hub.phase = "blocked"
    /\ HubStarted /\ marker' = Seen({"hub"})
    /\ UNCHANGED <<current, unpacked, copies, trial, evidence, uptime, moved, sidecar,
                   updates, mishaps>>

\* Mutant: the hub leaves a reverted release to the next restart.
FollowNever == FALSE

\* shouldFollowRevert, asked every fifteen seconds.
ShouldFollowRevert == marker.rollback /\ "hub" \in marker.unseen /\ hub.runs # current

HubFollows ==
    /\ HubServes /\ ShouldFollowRevert
    /\ HubStarted /\ marker' = Seen({"hub"})
    /\ UNCHANGED <<current, unpacked, copies, trial, evidence, uptime, moved, sidecar,
                   updates, mishaps>>

---------------------------------------------------------------------------
(* The sidecar *)

SidecarStarted == sidecar' = [runs |-> Launched, asking |-> FALSE]

\* It reached the coordinator, and asks the hub to write that down.
SidecarConnects ==
    /\ sidecar.runs \notin NoLink /\ ~sidecar.asking
    /\ sidecar' = [sidecar EXCEPT !.asking = TRUE]
    /\ UNCHANGED <<updateFiles, hub, fetching, updates, mishaps>>

\* The hub answers, or the tries run out.
AskAnswered ==
    /\ sidecar.asking
    /\ sidecar' = [sidecar EXCEPT !.asking = FALSE]
    /\ IF HubServes THEN HealthNoted("coord", sidecar.runs) ELSE UNCHANGED evidence
    /\ UNCHANGED <<current, unpacked, copies, trial, uptime, marker, moved, hub, fetching,
                   updates, mishaps>>

\* #noticeRestart, from the hub's state.
SidecarNotices ==
    /\ HubServes /\ "sidecar" \in marker.unseen
    /\ SidecarStarted /\ marker' = Seen({"sidecar"})
    /\ UNCHANGED <<current, unpacked, copies, trial, evidence, uptime, moved, hub, fetching,
                   updates, mishaps>>

---------------------------------------------------------------------------
(* The watchdog, and time *)

WindowPasses ==
    /\ OnTrial /\ ~trial.over
    /\ trial' = [trial EXCEPT !.over = TRUE]
    /\ UNCHANGED <<current, unpacked, copies, evidence, uptime, marker, moved, hub, sidecar,
                   fetching, updates, mishaps>>

UptimePasses ==
    /\ ~uptime /\ uptime' = TRUE
    /\ UNCHANGED <<current, unpacked, copies, trial, evidence, marker, moved, hub, sidecar,
                   fetching, updates, mishaps>>

WatchdogConfirms ==
    /\ OnTrial /\ Proven
    /\ trial' = NoTrial /\ evidence' = NoEvidence
    /\ UNCHANGED <<current, unpacked, copies, uptime, marker, moved, hub, sidecar, fetching,
                   updates, mishaps>>

\* Mutant: the link is put back and nobody told.
RevertUntold(to) ==
    /\ current' = to /\ moved' = "reverted" /\ UNCHANGED marker

\* The link put back, and every service asked to restart onto it.
Revert(to) ==
    /\ current' = to /\ moved' = "reverted" /\ Marked(TRUE)

\* Not proven in a window of the clock and of uptime: back to what it came from,
\* if that is still there.
WatchdogReverts ==
    /\ OnTrial /\ ~Proven /\ trial.over /\ uptime
    /\ IF unpacked[trial.from] # 0
       THEN Revert(trial.from) /\ evidence' = NoEvidence
       ELSE UNCHANGED <<current, moved, marker, evidence>>
    /\ trial' = NoTrial
    /\ UNCHANGED <<unpacked, copies, uptime, hub, sidecar, fetching, updates, mishaps>>

---------------------------------------------------------------------------
(* Mishaps *)

Mishap == mishaps < MaxMishaps /\ mishaps' = mishaps + 1

HubCrashes ==
    /\ Mishap /\ HubStarted /\ marker' = Seen({"hub"})
    /\ UNCHANGED <<current, unpacked, copies, trial, evidence, uptime, moved, sidecar, updates>>

SidecarCrashes ==
    /\ Mishap /\ SidecarStarted /\ marker' = Seen({"sidecar"})
    /\ UNCHANGED <<current, unpacked, copies, trial, evidence, uptime, moved, hub, fetching, updates>>

PowerCycle ==
    /\ Mishap /\ HubStarted /\ SidecarStarted
    /\ marker' = Seen(Services) /\ uptime' = FALSE
    /\ UNCHANGED <<current, unpacked, copies, trial, evidence, moved, updates>>

---------------------------------------------------------------------------
(* Specification *)

UpdateInit ==
    /\ current = Installed /\ copies = <<Installed>>
    /\ unpacked = [r \in Releases |-> IF r = Installed THEN 1 ELSE 0]
    /\ hub = [runs |-> Installed, phase |-> "serving"]
    /\ sidecar = [runs |-> Installed, asking |-> FALSE]
    /\ fetching = NoFetch /\ trial = NoTrial /\ evidence = NoEvidence
    /\ uptime = TRUE /\ marker = [rollback |-> FALSE, unseen |-> {}]
    /\ moved = "installed" /\ updates = 0 /\ mishaps = 0

UpdateNext ==
    \/ \E f \in {"plain", "apply", "restart"} : UpdateAsked(f)
    \/ \E v \in Releases : UpdateDecided(v)
    \/ NothingNew \/ UpdateFails \/ UpdateLands \/ UpdateApplies
    \/ HubLeaves \/ HubProves \/ HealStarts \/ HealDone \/ HealFails \/ HubFollows
    \/ SidecarConnects \/ AskAnswered \/ SidecarNotices
    \/ WindowPasses \/ UptimePasses \/ WatchdogConfirms \/ WatchdogReverts
    \/ HubCrashes \/ SidecarCrashes \/ PowerCycle

UpdateSpec == UpdateInit /\ [][UpdateNext]_updateVars

---------------------------------------------------------------------------
(* Properties *)

\* After a revert no service stays on the release that was taken back: each
\* runs what it would start as now, or is about to restart, or has the
\* watchdog's marker still to see (restart-watch.js, "its hub on the reverted
\* release and its sidecar on the other one until somebody restarted it").
RevertIsFollowed ==
    moved = "reverted" =>
        /\ hub.runs = current \/ hub.phase \in {"leaving", "repairing", "blocked"}
           \/ ShouldFollowRevert
        /\ sidecar.runs = Launched \/ "sidecar" \in marker.unseen

\* "A broken hub, a broken sidecar, or a broken coordinator link each leaves one
\* half missing, and the update reverts" (update-confirm.js:27): the health that
\* confirms a release is that release's.  Does not hold: the sidecar of the
\* release before still asks, and the hub writes it down for the trial.
HealthIsOfTheTrial ==
    OnTrial => /\ evidence.hub \in {NoRelease, trial.to}
               /\ evidence.coord \in {NoRelease, trial.to}
=============================================================================
