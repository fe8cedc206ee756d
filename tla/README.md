# Fleetwright in TLA+

A verification development of Fleetwright: TLA+ modules of the parts whose
correctness depends on order, time, failure and restarts; TLC configurations
that check them on small instances; and TLAPS proofs of their safety
properties for every instance. Paths below are relative to the repository.

To reproduce, in this directory:

    tlc -config ReplayCache.cfg ReplayCacheMC.tla      # any run of the table below
    tlapm ReplayCacheProofs.tla                        # any *Proofs module

## 1. The system

Fleetwright runs Claude Code sessions on many machines and lets people reach
them from phones, a web page and MCP clients.

    phones, MCP clients, web page
        | https
        v
    coordinator: one Cloudflare Durable Object per fleet
        worker/src/fleet-do.js     sockets, storage, routes
        src/fleet/coordinator/*    decisions (core.js) and stores
        |  one WebSocket per host, dialled by the host
        v
    sidecar, one per host (src/fleet/host/sidecar.js)
        |  http on the machine
        v
    session manager (src/core, src/adapters) -> tmux -> claude

Beside these stand a minter Worker that holds long-lived credentials
(`worker/src/minter.js`, `src/fleet/minter/`), phone apps (`apps/`), and a
package channel (`apt/`). In production only Cloudflare's runtime runs the
coordinator; the Node coordinator of the repository is a harness for its tests.

### Components, their state, and what makes each correct

| Component | State | Operations | Correct when | Module |
|---|---|---|---|---|
| Sidecar intent handling (`host/sidecar.js`) | `replay`, a Map from intent id to the promise of a reply | `handle`, `#recall`, `#remember`, `#run` | one envelope does its work once; every delivery is answered, with a reply of its own run | ReplayCache |
| Intent exchange (`coordinator/core.js` `send`, `onHostMessage`) | `pending`, a waiter and a timer per intent id | send, reply, time out | a call is settled once, by its own host; no waiter is lost | IntentExchange, IntentCalls |
| Host transport (`host/transports/websocket.js`) | one socket, a retry timer, a heartbeat, grace timers | start, dial, heartbeat, close, stop | the host is always on its way into the fleet; only silence drops a socket; silence does drop it | HostSocket |
| Fleet membership and connections (`hosts.js`, `registry.js`, `fleet-do.js`) | enrolled keys (storage); sockets, registry, drops, `missingSince` (memory) | enrol, prove and upgrade, close, revoke, retire, hibernate, redeploy | one live socket per host, held by the present key; nobody revoked is in the picture; no live machine is retired | HostConnections |
| Join pins (`enrollment.js`) | pending pins, recent failures, a queue (memory); pins (storage) | mint, redeem, cancel, sweep | one machine per pin, across restarts; guesses are slowed globally | Admission, SingleUse |
| Runner tickets (`runner-tickets.js`) | tickets and spent VM tickets, both stored | mint, peek, redeem, `spentFor` | one machine per ticket; a ticket presented twice is undone | Admission, SingleUse |
| Placement and health (`scheduler.js`, `registry.js`) | each box's last report, the list kept beside a busy one, whom the box acts for | `place`, `connect`, `disconnect`, `recordHealth`, `noteSessions`, `actFor`, `sweep` | a verb goes only where the box itself claims the session, and to a box that may act for its sender | Placement |
| Relays and hypervisor setups (`relays.js`, `xo-relay.js`, `core.js` `#setup`) | open relays and their streams, jobs | open, probe, begin, carry, end | a connection through a phone serves a probe or a job under way | SetupRelays |
| Decision budget (`decide.js`) | the day's spend, when each pane and host last asked | `admit`, `reconcile`, `restore` | calls are spaced; the day's limit holds | DecideBudget |
| Removals (`core.js` `#forgetPerson`, `#askForget`, `hosts.js`) | who was removed; what each box owes | remove, ask, settle, prune, hand back | what a removed person left on a box is owed until the box has acted | Removals |
| Machines kept ready (`vm-standby.js`, `core.js`) | a wish per person, machines kept, tickets | top up, give up, take, let in | no more are made than asked for; one given up on stays away | Standby |
| Minter: a person's Claude sign-in (`minter/claude-login.js`, `vault.js`, `claude.js`) | the sign-in's row, notes of renewals | renew, check, deposit | a refresh token is not spent twice; an end is told once, and is true | ClaudeSignIn |
| Sessions (`core/sessions.js`, `core/registry.js`) | records, the bin, panes, launches in flight | start, resume, stop, forget, put back, purge, reconcile, restore | what was asked to be down stays down | Sessions |
| Updates (`release-apply.js`, `update-confirm.js`, `restart-watch.js`, `migrate.js`) | the link, releases, the trial, its evidence, the restart marker | update, prove, confirm, revert, follow, heal | a revert takes every service with it | UpdateTrial |
| Requests of a pool's own machine to join (`holder-joins.js`) | open requests | ask, approve, refuse, take | approved once, by whoever may | planned |
| Sign-in (`oauth.js`, `oidc.js`) | codes and tokens | authorise, exchange | a code is used once | planned |
| Box keys, pinned admins (`intent-keys.js`, `pinned-admins.js`) | keys of the admins | learn, pin, check | enforcement does not lapse | planned |
| Session watcher (`watcher.js`) | last state of each session | look, notify | one notification per change | planned |
| Pools, images (`xo-*.js`), edge router (`edge-*.js`) | runs of long scripts | set up, sweep, watch | a failed step leaves nothing behind | planned in part |
| Renewal of credentials on a box (`keepalive.js`, `connectors.js`) | tokens on disk | renew | a crash in between loses none | planned |
| Login and hooks (`hook-socket.js`) | one login | begin, end | one at a time | planned |
| Phone outbox (`Outbox.kt`, `Outbox.swift`) | messages not yet delivered | send, retry, give up | sent again only while the host remembers it | planned |
| Everything else | | | | see section 8 |

### Behaviours that are hard

- **Restarts.** The Durable Object is rebuilt from storage at any moment. After
  hibernation its sockets live on, after a deploy none does. The sidecar keeps
  its memory of replies in the process only.
- **Late, repeated and re-placed messages.** The caller owns an intent's id
  and uses it again when it missed the answer; placement may then choose
  another host. Closes of superseded sockets arrive after their successors.
- **Files shared by processes.** Hub, sidecar, installer and watchdog of a box
  agree on a release through files alone, and each may die between two of them.
- **Boxes that are away.** What a box must do is owed while it is away, and what
  it last said is used while it is silent.
- **Awaits.** A signature is checked between the freshness test and the look
  at the cache; a proof and an enrolment hold a record across WebCrypto; a pin
  door sleeps; GitHub is asked between the peek at a ticket and its use; a launch
  awaits the network while its session is stopped or forgotten; a renewal
  awaits Anthropic while a new sign-in is deposited.
- **Clocks.** Freshness is judged by two clocks, and the cache by one.
- **Limits.** The replay cache, the queue of the pin door, tickets kept, spent
  tickets remembered.

PROJECT.json lists each hazard at the line where it bites, with the properties
that would catch it.

## 2. How the modules are built

Each component is a module with its constants and their named assumptions, one
action per handler or per uninterrupted part of one, and its properties. An
`MC` module extends it with definitions for TLC. A `Proofs` module extends one
component, or a few that belong together, with TLAPS: SpendingProofs has Standby,
DecideBudget and ClaudeSignIn (what must not be spent twice), FleetProofs has
Placement, Removals, SetupRelays, Sessions and UpdateTrial (the fleet and its
boxes), five have one component each, and PartsProofs carries all of them
over to the parts side by side. No module declares a RECURSIVE operator, so all can
be proved about. The modules that are checked in one run (section 4) have names of
their own for every operator and variable, so that FleetPartsMC and PartsProofs
extend them as they are: an INSTANCE would bring the definitions and not the theorems.

    IntentCalls       abstract: what a caller of send is promised
        ^ implemented by (refinement mapping CallView, RanView)
    IntentExchange    coordinator waiters + wires + hosts' replay caches
    ReplayCache       one sidecar process, in detail (time, size, awaits)
    HostSocket        the host's end of a connection
    HostConnections   the coordinator's end: keys, sockets, registry
    SingleUse         abstract: what the doors promise of pins and tickets
        ^ implemented by (refinement mapping in Promise)
    Admission         how a key gets there: pins and tickets, memory and storage
    Standby           machines asked for, with tickets, before anybody needs one
    Placement         what the registry knows of sessions, and where verbs go by it
    SetupRelays       phone <-> coordinator <-> machine while a setup runs
    DecideBudget      what bounds the questions hosts put to a model
    Removals          what boxes owe after somebody is removed
    ClaudeSignIn      the minter: one person's sign-in and its renewals
    Sessions          one box: records, panes, launches
    UpdateTrial       one box: its releases, and the trial of a new one

    FleetPartsMC      small instances of Admission, HostConnections and the last
                      eight, side by side in one run

IntentExchange takes from ReplayCache that a cache replays an id until it
forgets it, at any time; ReplayCache says when it may forget. HostConnections
takes an enrolment as one write; Admission shows the writes of each door.
Standby has tickets as Admission does, and adds who asks for them and the machine
that spends them. Placement takes connections as HostConnections gives them, one
per box. Removals takes an intent's answer as IntentExchange gives it: once,
late, or not at all.

Definitions marked `Mutant:` are deliberately wrong variants of the definition
that follows them. No specification uses one. Each property of a passing run
fails when one of them takes its original's place, which shows that the
property depends on the code (PROJECT.json "mutants").

## 3. Modules and the code

### ReplayCache (`src/fleet/host/sidecar.js`, `protocol/intents.js`)

| Here | There |
|---|---|
| `Receive` | `handle` up to `await intentKeys.check`, with `validateIntent`'s freshness test |
| `Refuse` | the check came back as `signature_required` |
| `Replay`, `RunMutating` | `#recall` with its deletion of an expired entry, then the promise of `#run` and `#remember` with its eviction, one turn of the event loop |
| `RunRead`, `FinishRead` | an intent that is not mutating |
| `FinishRun` | the promise resolves: everyone who awaits it is answered |
| `replay`, `Expired`, `Evict` | the Map, `Date.now() - hit.at > REPLAY_TTL_MS`, the front of the Map past `REPLAY_MAX` |

An intent is an id and a stamp; the verb only decides whether the id is
mutating. `Stamps` are clocks of whoever issued it, so they may be ahead of or
behind the host. The module is the life of one process.

### IntentExchange, IntentCalls (`coordinator/core.js`, `host/sidecar.js`)

| Here | There |
|---|---|
| `RefuseUnsigned`, `RejectInUse`, `RejectUnsent`, `Send` | the ways `send` ends |
| `TimeOut` | the waiter's timer |
| `DropLateReply`, `IgnoreOtherHost`, `TakeReply` | the reply half of `onHostMessage` |
| `Connect`, `Disconnect` | a host's socket; waiters are left to their timers |
| `Redeploy` | a new Durable Object with no waiters |
| `HandleReplay`, `HandleRun` | `handle` as one step (ReplayCache has its parts) |
| `Forget`, `RestartSidecar` | time or size, and a new process |

IntentCalls has only calls and which hosts ran which ids: a call is opened,
answered at most once and after its host ran its id, or fails at most once.

### HostSocket (`host/transports/websocket.js`)

`DialOpens`, `DialFails`, `RetryFires` are `#dial` and `#scheduleRetry`;
`FrameArrives`, `SocketCloses`, `OldSocketCloses` the socket's listeners;
`NoPong`, `SendFails`, `SendHeartbeat`, `GraceEnds` are `#startHeartbeat`'s two
timers and `#abandon`; `Stop` is `stop`. A `DialOpens` after `Stop` is possible:
`#dial` does not look at `stopped` again once it has awaited. `GoesMute` is the
network: a connection whose other end is not heard any more. The length of a
backoff is left open, so every order of a retry with other events is there.

### HostConnections (`hosts.js`, `registry.js`, `core.js`, `fleet-do.js`)

| Here | There |
|---|---|
| `StartEnrol`, `FinishEnrol` | `HostIdentities#enrol` before and after the fingerprint, and the closing of a replaced key's sockets |
| `StartProof`, `RefuseProof`, `AcceptHost` | `prove` and `#acceptHost` with `hostConnected` |
| `CorpseCloses`, `SocketCloses` | `webSocketClose` and `webSocketError` with `hostDisconnected` |
| `Revoke` | `DELETE /api/hosts/<id>`: core, registry, drops and sockets |
| `RevokeInCore` | `#vmTicketSpentTwice`, `#onHolderRemoved`: the same without sockets |
| `LookLists`, `LookLacks` | a pool's report with, and without, a machine |
| `RetireStranded` | one pass of the timer |
| `ForgetDropped` | the end of `DROPPED_TTL_MS` |
| `sockets`, `registry`, `sendTo`, `dropped`, `missing` | `this.sockets`, `registry.hosts` and its `send`, `registry.dropped`, `missingSince` |
| `Wake`, `Deploy` | the constructor after hibernation, and after a deploy |

A key is the number of the name's enrolment. `Ephemeral` are the hosts the code calls
temporary. `lastUp` and `keyEnded` are history.

Two questions the code leaves to Cloudflare's runtime are parameters.
`CryptoYields`: may another event be handled while one awaits WebCrypto? The
runtime's gates hold events back during storage, and WebCrypto usually resolves
without input or output, but the repository states no guarantee.
`ClosingListed`: does `getWebSockets()` hand a rebuilt object a socket on which
`close()` was called? Properties that need neither are checked with both TRUE.
`KeyHolderOnly` needs `CryptoYields` FALSE: otherwise a proof of the old key can
be accepted after the name was given a new one.

An enrolment is taken to be durable once made. That is so at the pin door;
Admission shows the other two doors.

### Admission (`enrollment.js`, `runner-tickets.js`, `hosts.js`, `core.js`, `fleet-do.js`)

| Here | There |
|---|---|
| `MintPin`, `CancelPin` | `POST` and `DELETE /api/enroll` |
| `Arrive`, `Wakes`, `LookUp`, `FinishPin` | `POST /api/enroll/host`: `Enrollment#redeem` before and after its sleep, `#saveEnrollment`, then `enrol` and `#saveHosts` |
| `MintTicket` | `RunnerTickets#mint` and the write before the machine is asked for |
| `JobArrives`, `JobRefused`, `JobVerified`, `NoteRunnerEnrolled` | `POST /api/enroll/actions` around GitHub's answer |
| `VmArrives`, `SpendVmTicket`, `VmSpentTwice` | `POST /api/enroll/vm` and `enrolVm` |
| `Connect`, `RevokeHost`, `ForgetPerson` | what else writes the hosts, and `#forgetPerson` |
| `Rebuild` | the object ends in the middle of anything, and is restored |
| `stored`, `SaveAll`, `Fresh` | storage by key, `onStateChanged`, the sweeps (serialising sweeps too) |

Memory and storage are separate variables, and a handler that writes twice is
two actions with `Rebuild` possible between them. While one handler is between
its writes no other event is handled (`Idle`), as the runtime's gates have it;
during the sleep at the pin door and while GitHub is asked, others are.

SingleUse is what the three doors promise, with none of that in it: a credential is
`unissued`, `good`, taken by one machine (`redeeming`), or answered (`given`), and
leaves `good` for ever by being redeemed, withdrawn or lost. Admission implements it
with `good` as what memory holds, `redeeming` as the handler between two writes and
`given` as what was answered (`Promise`): storage is an implementation's matter, and
that a rebuild from it revives nothing is the larger part of the proof.

### Placement (`coordinator/registry.js`, `scheduler.js`, `core.js`)

| Here | There |
|---|---|
| `entry` | `hosts` and `dropped`: where a box is, its last report's rows and their age, the list kept beside a busy report (`Kept`), whom it acts for |
| `Connects`, `Drops`, `Removed` | `connect`, `disconnect`, and `remove` with its memory of temporary boxes |
| `Reports`, `ReportsBusy` | `recordHealth` of a frame with, and without, its sessions |
| `Replies`, `Noted` | `noteSessions` of a reply to a start or resume |
| `Rekeys`, `OperatorChanges`, `Retiered` | an enrolment by another; `#retier` and `actFor`, which files the rows again |
| `Claims`, `PinnedTo`, `StartsOn` | `findSessions` and the choices `place` makes by it |
| `TimePasses`, `Aged` | `sweep`: stale health, the pin age, the end of a memory |
| `RegistryRebuilt` | a new object: boxes connected and no reports |

A row says who started a session and whether it is in the bin; `believedCreator`
decides whom it is filed under. Ages are counted to one past the oldest compared.

### SetupRelays (`coordinator/relays.js`, `core.js`, `host/xo-relay.js`, `host/xo-setup.js`)

| Here | There |
|---|---|
| `OpenRelay`, `RelayCloses`, `PhoneEnds` | a phone's relay and its frames (`Relays#start`, `close`, `fromPhone`) |
| `ProbeThrough`, `Begin`, `AskStatus`, `CallFails` | the three calls of a setup, and their timeouts |
| `StartsProbe`, `EndsProbe`, `MakesJob`, `RefusesJob`, `EndsJob`, `OpensStream`, `EndsStream` | the machine |
| `TakeFrame` | what comes up the machine's one socket, in order: `open`, `end`, the answer to a call, progress |
| `Rekeyed`, `RelayRevoked`, `SocketDrops`, `SocketReturns`, `CoordinatorRestarts` | the ways the two ends lose one another (`#setupOn` compares the enrolment a job began under) |

### DecideBudget (`coordinator/decide.js`, `core.js` `#onHostDecide`)

`Arrives` is the handler up to the platform's rate limit, `RateLimited`,
`TooLate` and `Charge` what follows that await (`admit`), `ModelAnswers` and
`ModelFails` what follows the model's (`reconcile`), `LimitsRebuilt` a new object
with what was stored, `AnHourPasses` the clock.

### Removals (`coordinator/core.js`, `hosts.js`)

| Here | There |
|---|---|
| `RemovePerson` | `revokeClient` of a last credential, or `revokePerson`: `#forgetPerson` with `#retier`, `#handBack`, `#forgetOnBoxes`, `#noteRemoval` and `#pruneRemovals` |
| `SignsInAgain` | `issueClient` with `#retier`, which withdraws hand-backs |
| `BoxReturns`, `BoxLeaves`, `BoxRevoked`, `BoxReadmitted` | `hostConnected`, `hostDisconnected`, `revokeHost`, `enrol` with what is carried over |
| `BoxReports` | the two payments at the head of `onHostMessage`'s health frame, then the report kept |
| `AsksForget`, `AskSettles` | `#askForget` before and after its await |
| `BoxForgets`, `SaysDone`, `SaysUnknown`, `NotAnswered` | the box: `forgetperson` done, answered, not known, or not heard |
| `MayAskAgain`, `FleetRebuilt` | `FORGET_RETRY_MS`; a restart, with `restoreRemovals` |

`left` and `unasked` are history: what is on a box of somebody removed, and boxes
out of the tier that nobody has asked. A removal beyond the list's length is
said in a record, and is then nobody's debt. Writes are taken as durable. The list,
which the code keeps by time, is the set of its rows: each has a moment of its own.

### Standby (`coordinator/vm-standby.js`, `core.js`, `runner-tickets.js`)

`TopUp` and `SetWish` begin what is short (`#topUpStandby`), `Minted` is the ticket
and the machine noted, `AskBox`, `AskFails` and `NextBox` ask the boxes holding the
pool with that ticket one by one, `BoxMakes`, `BoxRefuses`, `BoxNeverHears` are the
box, `Presents` is `enrolVm`, `Take` `#startOnKept`, `Ends` a machine's retirement,
`Tallied` what any reading gives up on, and `Restarts` `restore`.

### ClaudeSignIn (`minter/claude-login.js`, `vault.js`, `claude.js`)

`AsksFresh`, `Answered`, `RefusedByAnthropic`, `Unheard`, `Rereads`, `WritesBack`
and `Settles` are `freshClaude` under the person's lock, in the order of its
awaits; `Checks`, `CheckRenews` and `Tells` are `checkClaude` and
`answerClaudeCheck`; `DepositRead` and `DepositKept` are the deposit, which is not
under the lock; `CutOff` ends the object. Anthropic, with the token it will take
next, is `takes` and `ended`.

### Sessions (`core/sessions.js`, `core/registry.js`, `index.js`)

| Here | There |
|---|---|
| `Start`, `Resume`, `LaunchPrepared`, `LaunchSpawns`, `LaunchSettles`, `LaunchFails` | `start`, `resume` and `#launch` in the parts its awaits cut it into |
| `Stop`, `Forget`, `ForgetOwner`, `RestoreFromBin`, `Purge` | the operations of the same names |
| `ReconcilePass`, `SweepPass`, `RecordUuid`, `SpoolUuid` | `reconcile`, `sweepBin`, a hook's report and one left in the spool |
| `HubStarts`, `Candidate`, `BringBack` | a start of the hub and `restore`, one candidate after another |
| `PaneDies`, `PaneAppears`, `WindowEnds` | tmux and time |

Every operation that reconciles first does so in its action.

### UpdateTrial (`adapters/commands.js`, `core/release-apply.js`, `update-confirm.js`, `restart-watch.js`, `migrate.js`, `install/`)

`UpdateAsked`, `UpdateDecided`, `NothingNew`, `UpdateFails`, `UpdateLands`,
`UpdateApplies` are the `update` verb with `applyRelease`, pruning and
`armConfirmation`; `HubLeaves`, `HubProves`, `HealStarts`, `HealDone`, `HealFails`,
`HubFollows` the hub; `SidecarConnects`, `AskAnswered`, `SidecarNotices` the
sidecar; `WatchdogConfirms` and `WatchdogReverts` the script
`install/fleetwright-confirm`; the rest are time and mishaps. `unpacked` has, for each
release on disk, when it was unpacked, which is what pruning goes by.

## 4. What the runs show

| Run | Properties | Instance and what it shows |
|---|---|---|
| `replay` | TypeOK, OneRunPerEnvelope, NoRerunWhileRemembered, ReplyIsOwnRun, OneEntryPerId, EveryFrameAnswered | two starts and a read, three deliveries, a check of one tick, room for one reply: with `ReplayTTL >= 2 MaxSkew + MaxCheck` one envelope runs once, and everybody is answered |
| `exchange` | TypeOK, WaiterPerCall, AnswerFromOwnHost, RetryGetsOriginal, KeepsPromise | two hosts, a start and a read, three calls: late, repeated and re-placed replies, redeploys and restarts; and IntentExchange implements IntentCalls |
| `socket` | TypeOK, OneWayIn, NeverDropped, OnlySilenceDrops, BackInFleet | three sockets, a grace shorter and one longer than two intervals: a way in always, and back in the fleet in the end |
| `connections` | HostsTypeOK, RevokedIsOut, KeyHolderOnly, NoLiveRetirement, OpenIsCurrent, RegistryFollowsSocket | a box and a runner, two sockets and two keys each: revocation, re-keying, retirement, wakes and deploys |
| `parts` | the eighteen of the next table | ten parts of the fleet side by side |
| `replay_skew` | OneRunPerEnvelope fails | finding 1 |
| `exchange_placed` | OneHostPerId fails | finding 2 |
| `socket_silent` | SilenceIsDropped fails | finding 3 |
| `connections_taken` | RevokedIsOut fails | finding 4 |
| `connections_flap` | RetiredOnlyWhenAway fails | finding 5 |
| `admission_halves` | BothHalves fails | finding 6 |
| `sessions_restore` | RestoreLeavesStopped fails | finding 7 |

`parts` (FleetPartsMC) checks ten small instances in one run, so that one command
covers what needs no larger instance. A behaviour is of one part, chosen in its
initial state; the parts share no variable here, and those of the other nine stay
as they began, which is why the view `Moving`, the variables of the part, tells
all its states apart. `x1` and `x2` stand in for tickets' machines, sockets,
relays, launches, holders, callers and boxes; swapping them is a symmetry of every
part. PartsTypeOK is the part's type invariant. The run assumes no fairness, and
does not check deadlock, as most parts stop where their bounds do.

| Part | Properties | What it shows |
|---|---|---|
| admission | OneMachinePerCredential, TwoHoldersNoHost, GivesEachOnce, LookupsTakeTurns, FreeGuessesBounded | two pins or two tickets, two machines, two names, three presentations, a rebuild at any point; and Admission implements SingleUse |
| races | RacesAgree, of OpenIsCurrent and RegistryFollowsSocket | one host, three sockets, every interleaving at WebCrypto, revocations that close nothing, closing sockets handed back |
| relays | StreamsServeAUse | a connection through a phone is open only for a probe waited for or a job not known to be over, however calls, frames, ends and losses cross |
| decide | CallsSpaced | calls keep their distance by session and by host across two awaits and rebuilds |
| sessions | StoppedStaysDown | neither a late report, a launch, the bin nor a restart brings up what somebody asked to be down |
| updates | RevertIsFollowed | after a revert no service stays on the release taken back |
| placement | ClaimsAreHeard, ReachesItsPerson | no verb goes by a claim the box did not make or has taken back, or, by a live list, to a box no longer its sender's |
| standby | SurplusIsStale, GivenUpStaysAway | no second machine for one wish; a wait and its ticket end together |
| signin | SpentOnlyOnceLost, EndToldOnce | two callers, or a deposit, do not spend a token twice, and an end is told once |
| removals | OwedUntilPaid | what a removed person left on a box is owed until that box has acted, whoever is removed or back meanwhile |

### Findings

1. **Half the window** (`sidecar.js:361`). The constructor requires
   `maxSkewMs < REPLAY_TTL_MS` so that no envelope is fresh after its reply is
   forgotten. Freshness is two-sided, so an envelope stamped ahead stays fresh
   for twice the skew. What is needed, and proved sufficient in
   ReplayCacheProofs, is `ReplayTTL >= 2 MaxSkew + MaxCheck`.
2. **A retry placed elsewhere runs again** (`core.js:3735`).
   `docs/coordinator.md:92` promises the original outcome; the memory is per
   host and placement does not know where the id ran.
3. **Silence is never dropped** (`websocket.js:326`). The grace timer (15 s)
   clears `awaitingPong` before the next interval (20 s) reads it.
4. **Revoked and back** (`core.js:8218`). Revocations made in the core leave
   the socket open, and the next wake registers every open socket.
5. **Counted from the first absence** (`core.js:938`). `missingSince` is not
   cleared when a host connects, only by a pass that sees it connected.
6. **Both halves or neither** (`fleet-do.js:694`). The ticket is written, the
   host it bought is not written until it first connects. Where a session or a place
   waits for the machine both are (AwaitedHaveBothHalves, section 5).
7. **Stopped and brought back** (`sessions.js:1401`). `restore` lists its candidates
   once and brings them back one by one while requests are served; a stop in
   between is not looked at again.

### Known gaps

Statements of the code's comments that a module states and TLC refutes, without a
run of their own. Each is a definition of the named module whose comment says
"Does not hold"; in a configuration of its part it gives the trace.

- NameInOnePlace (Sessions): a launch in flight writes its record again after a
  forget (`sessions.js:685`). The cap, too, counts what runs and not what is being
  launched, and a removed person's launch in flight is not forgotten.
- SpentRelayCarries (SetupRelays): a machine too old for `begin` is answered
  before its relay is closed (`core.js:1986`).
- SpendCoversTheDay (DecideBudget): a call charged before midnight is corrected
  against the day after (`decide.js:213`).
- HealthIsOfTheTrial (UpdateTrial): the sidecar of the release before still has
  its evidence written down, for the trial (`evidence.js:42`). And an update
  applied in two steps, `/update` and then a restart, has no trial
  (`commands.js:2318`; `docs/deployment.md:152`).
- ReachesItsPersonBusy, NotingKeepsTheRest (Placement): the list kept beside a busy
  report is not filed again by `actFor` (`registry.js:312`), and a reply noted on
  such a box becomes its whole list (`registry.js:722`).
- AlarmIsReal (Standby): after an answer is lost the next box is asked with the same
  ticket (`core.js:7824`), and the second machine is taken for an intruder.
- EndedIsTrue, DepositSurvives, VerdictIsTrue (ClaudeSignIn): a deposit is outside
  the lock that renewals hold, and an answer lost is noted as one not got
  (`claude-login.js:286`).
- ReturnedBoxesOwe (Removals): somebody removed while a box was out of the tier is
  owed by it through the hand-back alone, and `#retier` withdraws that when the
  box's admin signs in again (`core.js:3269`).
- `stop()` while a dial awaits its upgrade leaves a socket open on a stopped
  transport (`websocket.js:366`; HostSocket has the behaviour); its only caller
  exits next.

### Bounds, and why they are enough

- `replay`: a cache of one reply and three deliveries let an id be run, evicted
  by another and sent again; four ticks are one past `ReplayTTL`, so an entry
  expires; both stamps are on either side of the host's clock.
- `exchange`: `MaxCalls` 3 is a call, its retry on the other host, and one more
  that meets the late replies of both. Runs are bounded by calls.
- `socket`: `MaxSockets` 3 leaves a grace timer of the first socket to fire under
  the second or the third; `MaxQuiet` 3 is past the interval of 2.
  `socket_silent` has the shipped times in ticks of 5 s.
- `connections`: two keys and two sockets per host make one replacement of each.
  `MaxTicks` 2 with `Stranded` 1 lets a pass of the timer find a host missing
  and a later one retire it. The part `races` has one host with three sockets and
  three keys, at one moment: a third comes while the first is still closing.
- admission: `MaxFailures` 1, `Step` 2, `PenaltyMax` 2 and `MaxQueue` 1 with
  three presentations give a free guess, one that waits, and one that is queued
  behind it or told to come back. Three ticks and a TTL of 2 let things expire.
  `PerPerson` 1 makes a second ticket replace the first; `MaxLive` 1 makes the
  fleet's ceiling bind; `MaxSpent` is 1 with one VM ticket, so the forgetting of
  a spent ticket past the limit is in the model and covered by the proofs only.
  `Mixes` keeps pins and tickets in separate behaviours: the doors share the
  hosts, and pins share nothing else with tickets.
- relays: two relays, one job and one setup, one stream each, two frames on the
  wire and one upset: a frame of one use meets the end of it and the start of the
  other's. One more frame or upset repeats one of these.
- decide: three panes on two hosts and three frames, a quiet time of 2 inside a
  window of 3, days of 2 ticks: both spacings bind, across midnight and a rebuild.
- sessions: one name, two launches and one start of the hub, death or late report.
  Requests are of one name, so a second name only competes for the cap.
- updates: three releases, one whose hub and one whose sidecar fails, two kept, two
  updates and one crash or power cycle: a revert to a release that was itself
  updated to, and pruning at its limit.
- placement: a box and a runner, one session, two people, four events: enough to
  claim, fall silent, lose or change a tier and dial back. Ages are compared with
  1, 2 and 2.
- standby: one kind, two machines, two holders, one wish change or restart, one
  step of waiting: the second machine is the surplus or the replacement.
- signin: two sign-ins of one person, two callers, two tokens each, one cut-off or
  lost answer, three notes kept: a renewal, a second caller and a deposit.
- removals: an admin and a member, two boxes of the admin's, two removals with a
  list of one, one drop, revocation or rebuild: a removal during an ask, a debt of
  one box that keeps or drops what another owes, a list too long. At most one box
  has a sidecar too old to be asked.
- `sessions_restore` has two starts of the hub, as it needs something to restore.

Symmetry is used where a set of values is interchangeable (hosts of the
exchange, sockets of one host, `x1` and `x2` of `parts`) and in no run with a
liveness property. Deadlock is checked in every run but those of ReplayCache and
`parts`, where the bounds stop the deliveries, the events and the clock; in the other modules a
connection, a restart or time can always go on.

### Fairness

- ReplayCache: `Settle`, `FinishRead` and `FinishRun` are weakly fair. The check
  of a signature ends within a bound and every request of the sidecar to the
  session manager has a timeout (`hub-client.js`), so no await is for ever.
- HostSocket: timers run and time passes (weak fairness of the ticks, of each
  timer and of the retry), and a dial ends one way or the other, as its request
  and its upgrade have timeouts. Strong fairness of `DialOpens` says that a
  coordinator that can be reached again and again is reached: without it no
  transport could promise anything. Peers are under no obligation to speak and
  sockets under none to close, which is what finding 3 needs.
- The other modules state safety only and assume no fairness.

## 5. What is proved

For every value of the constants that meets the assumptions named in each
module, with no bound on deliveries, calls, sockets, keys or time other than
the constants themselves:

| Module | Theorems |
|---|---|
| ReplayCacheProofs | TypeOK, ReplyIsOwnRun, NoRerunWhileRemembered, OneRunPerEnvelope, OneEntryPerId |
| IntentExchangeProofs | TypeOK, WaiterPerCall, AnswerFromOwnHost, RetryGetsOriginal, and KeepsPromise (the refinement) |
| HostSocketProofs | TypeOK, OneWayIn, OnlySilenceDrops, NeverDropped |
| HostConnectionsProofs | HostsTypeOK, OpenIsCurrent, RegistryFollowsSocket, RevokedIsOut, KeyHolderOnly, NoLiveRetirement |
| AdmissionProofs | TypeOK, LookupsTakeTurns, FreeGuessesBounded, OneMachinePerCredential, TwoHoldersNoHost, GivesEachOnce (the refinement); and, checked by no run, WithdrawnStaysOut and AwaitedBothHalves |
| SpendingProofs | Standby: StandbyTypeOK, GivenUpStaysAway, SurplusIsStale; DecideBudget: DecideTypeOK, CallsSpaced; ClaudeSignIn: SignInTypeOK, EndToldOnce, SpentOnlyOnceLost |
| FleetProofs | Placement: PlacementTypeOK, ClaimsAreHeard, ReachesItsPerson; Removals: RemovalsTypeOK, OwedUntilPaid; SetupRelays: SetupRelaysTypeOK, StreamsServeAUse; Sessions: SessionsTypeOK, StoppedStaysDown; UpdateTrial: UpdateTypeOK, RevertIsFollowed |
| PartsProofs | PartsTypeOK, RacesAgree, and that a run of the parts is a run of each |

PROJECT.json "theorems" gives each one's name and meaning.

**ReplayCache.** NoRerunWhileRemembered is not inductive, as it says nothing of
a run that is no longer remembered. The strengthening, `Forgotten`, says why each
has gone: it is past its time, or at least `ReplayMax` runs behind the newest
(lemma EvictedIsFarBack). `CheckTimes` bounds how long a check has been out.
OneRunPerEnvelope follows with `ReplayTTL >= 2 MaxSkew + MaxCheck` and
`MaxSkew > 0`, the hypothesis that finding 1 is about: two runs of one envelope
were both fresh, so their times are no further apart than that. OneEntryPerId is
inductive with the types: a run drops the entry of its own id before it adds one,
and lets the front of the Map go after; that the two leave no more than `ReplayMax`
is a lemma about `Evict` (EvictBoundsEntries).

**IntentExchange.** WaiterPerCall and AnswerFromOwnHost are inductive with the
types. The refinement has an equation for each half of the mapping per action:
`CallView` and `RanView` of the next state are what `Open`, `Run`, `Answer` or
`Fail` of IntentCalls makes of the present ones, or do not change. A redeploy
is one `Fail` of all waiting calls. RetryGetsOriginal compares two answers, and what
makes them one is a host's cache: `Remembered` says that the latest run of a
mutating id on a host is the one its cache names, and that every earlier one there
was let go first. An answer is a run of the call's own id and host
(AnswerFromOwnHost), so of two that differ the earlier was forgotten.

**HostSocket.** OneWayIn is inductive. For NeverDropped, `GracePending`: while a
pong is awaited a grace timer is set that ends before the next heartbeat is due
(when the grace is shorter than the interval). For OnlySilenceDrops,
`SilentSinceAsked`: while a pong is awaited, the silence is at least as long as
the time since it was asked for; the theorem takes `MaxQuiet >= Interval`, that
silence is counted far enough to tell.

**HostConnections.** OpenIsCurrent and RegistryFollowsSocket are inductive with
the types, whatever the runtime does. NoLiveRetirement rests on
`OpenIsConnected`: a host with an open socket is connected in the registry, so
neither the timer nor a look finds it away. It too is unconditional. KeyHolderOnly
and RevokedIsOut need that a request in flight sees the record as it is,
`RequestsSeeTheRecord`, and hold under `Orderly`: no other event during
WebCrypto, no closing socket handed back, no revocation in the core alone.
Finding 4 and the remark on `CryptoYields` say what happens without.

**Admission.** The invariant follows a credential from mint to use.
`HeldAreMinted`: what is held in memory or storage was minted. `StoredAreHeld`:
storage has nothing that memory has not, apart from what has expired; so a rebuild
brings nothing back. `UsedAreUnheld`: a credential that admitted a machine, or is
about to (`InHand`), is held nowhere. `OneMachine`: at most one machine per
credential is admitted or in hand. `VmHolder`: the live host of a VM's ticket is
the one machine that presented it. `WithdrawnAreLost`: what was cancelled or
taken from a removed person is held nowhere. For the queue, `TurnsTaken`: the
next turn is after every request that sleeps and its penalty. FreeGuessesBounded
counts the guesses of every window there ever was, and the store only the failures
of the one that ends now: `GuessesCounted` says that each guess still in the window
is among the failures counted, so that one looked up without a wait was looked up
below the budget; the guesses of older windows do not change (GuessAdded).

That Admission implements SingleUse is shown by what a step does to `good`: `Lapses`,
`Issues`, `Redeems` and `Withdraws` say when a change of the stores is that action of
SingleUse, and each action of Admission is put under one of them. Most are `Lapse`, as
most handlers sweep. `Rebuild` is one because of `StoredAreHeld`; the second half of a
handler is `Answer`; and a VM's ticket presented again by its own machine adds nothing
to `given`, because that machine was answered before (`VmHolder`).

AwaitedBothHalves is what is left of "both halves or neither" (finding 6). `CutInTwo`:
a job whose handler is between its writes has its host in memory. `OnRecordKept`: the
record of a ticket's host is never lost from memory while storage has it, nor given to
another ticket, and an awaited VM's is in storage as soon as it is in memory. So what
admitted an awaited machine is in storage with its host (`AwaitedAreKept`), through
revocations, which keep the record, and rebuilds.

**Standby.** GivenUpStaysAway speaks of what was given up on and not of why it can
never join. `Waiting`: a kept machine that has not enrolled has a ticket at least
as old as its place is, so when tally gives a place up its ticket is over
(`GivenUpIsOver`), and `enrolVm` takes no such ticket. SurplusIsStale is an action
property from `OneAsk` and `Room`: while an ask has no ticket yet, what is kept is
short still of the wish that ask was begun under, since only the one ask under
way adds to it (lemma by lemma, every other action keeps the same or less).

**Placement.** ReachesItsPerson needs `Filed`: the rows of a live report are filed
under somebody the box acts for now, kept by `Retiered` filing them again. For
ClaimsAreHeard, `Heard`: an entry's rows are no older than its age says, and a list
kept beside a busy report is no younger than the report it came from. Both are
stated of one entry, and each operation of the registry has a lemma that what it
makes of a good entry is good.

**Sessions.** StoppedStaysDown is of the records alone, and a pane, a launch or a
binned record of that name could each break it a step later. `Down` says none is
there: no pane, no launch under way, the record at rest, and, when there is no
record, the binned one at rest. It is inductive because the request that stops a
session kills its pane and does not count while a launch holds the name.

**DecideBudget.** CallsSpaced is of all calls ever charged, while `admit` compares
with the rows of one memory, pruned by age and lost with the object. `LimitsKept`
relates them, for the memory in use and for the one storage would give back: a call
less than a quiet time old is its pane's row, and one inside the window is among its
host's asks. A call waiting at the rate limit needs nothing, because `Charge`
compares after that await, not before.

**ClaudeSignIn.** Neither property says who holds a token. `Alone`: one request at
work, by the person's lock. `RowKept`: the row's token is the one Anthropic takes,
unless somebody is about to write its successor back or the successor was lost.
`WorkKept`: what a request read is the row still or another sign-in's, its token is
current until it asks, and what it was given is what Anthropic takes next.
`DepositsFresh`: a deposit is of a sign-in nobody holds and nobody was told of. A
deposit may land at any step of a renewal, which is why each is about the sign-in a
row is of and not about the row. The notes depend on the rest and nothing on them,
so their type is a second induction (NotesStep).

**Removals.** When an ask ends, its box owes from the earliest removal it did not
confirm, or that is newer than the ask, and nothing older. `AskKnows` says why nothing
is lost by that: whatever was made up to when the ask began, and the box still holds,
was put to it and has no yes yet. `RemovalsKnown`:
one removal of a person at a time, each at its own moment, and no debt ahead of
them. `LeftByTheRemoved` and `TierIsKnown` relate the history to who is a member and
to the registry. The lemmas on the list say what pruning leaves: the newest, whole,
and a record for each that goes.

**SetupRelays.** `ServesAUse` is StreamsServeAUse with what one relay needs for it; that
a relay is not bound to a job that was over is about the wire. `MadeFirst`: the
answer that names a job comes before every other frame about it, and nobody has
heard of it yet; `NewUnknown`: nothing is known, recorded or sent of a job not
made. Both are about positions on the wire, so each action that reads or cuts it has
a lemma of its own.

**UpdateTrial.** RevertIsFollowed is inductive with the types of what hub, sidecar,
update and watchdog share (`UpdateShape`): a revert marks both services at once,
and a service takes off its own mark only as it starts what it would be launched as.
That the linked release is one on disk is `UpdateDisk`: pruning spares the release
that was linked just before it (SwapKeepsTheLinked), whichever others it takes.

**The parts.** A step of FleetPartsMC is a step of one module and leaves the variables
of the others as they were (EachIsAStep), so a behaviour of it satisfies the
specification of every module (PartsAreTheirSpecs) and with it each theorem. PartsTypeOK
is then the types of all parts, and RacesAgree is OpenIsCurrent and
RegistryFollowsSocket of HostConnections, which assume nothing of the runtime.

The assumptions are those of each module's ASSUME (kinds of the constants; that
the names for nothing are none of the values), and TLC evaluates them in the runs.

## 6. What is only model-checked

- EveryFrameAnswered, BackInFleet: liveness under fairness is outside what the
  prover can do (it has no support for ENABLED, which fairness is defined with).
- The failing properties of section 4, which are refuted.

Every safety property of a passing run is stated by a theorem. What a recursive
definition computes for every input could not be proved; no module has one (the
releases that pruning keeps are a function of their times, not a sequence).

## 7. Abstractions a reader should know

- Cryptography is a match of keys; GitHub's verdict and a signature's are free
  choices.
- A name keeps its last record for ever. The code sweeps revoked records after
  30 days; nothing modelled runs for that long.
- The ceiling on live hosts in Admission is the fleet's; the per-person one is
  left out. Runner tokens, device pins and pins of ephemeral hosts are not
  modelled. A ticket that is minted and then refused because enough machines are
  kept ready (`core.js:7796`) is not modelled.
- `Starting` in Admission stands for tickets with a session waiting and for those
  of machines kept ready: both make the door write everything.
- Of the registry, HostConnections has who is connected and through what, and
  Placement what boxes report. Labels, capacity and containment, which narrow a
  start further, are left open.
- Standby is of one person and leaves out labs, groups and the wording of a failure;
  ClaudeSignIn is of one person and leaves out forgetting a sign-in; console
  tunnels, which have no job, are not in SetupRelays.
- Sessions saves records as they change, as the code does; UpdateTrial treats each
  file as written at once.
- In Removals what a box does with a request after its time is up only takes away,
  and is left out; so are people's credentials, invites and delegations.

## 8. What is not modelled

Left out for good, with the reason: the worker's front door (routing, no
state), intent grammar and signatures (pure validation; the freshness rule is in
ReplayCache), linked and runner repositories (keyed stores over GitHub), hub
client (calls with timeouts), containers and egress (command lines), archive,
files and logs (file handling), runners on a box (processes of an outside
program), command and HTTP adapters (parsing), the MCP server (a client, one
call per tool), push and sealing (outside services, cryptography), the screens
of the phone apps, smaller stores with one writer, the package channel and the
installers.

## 9. Plan

The order is by what goes wrong worst and is tested least.

Written: the fifteen modules of section 2, each checked, and all safety properties
of the passing runs proved.

Next, the model:

1. HostProof: nonces of the upgrade and their spending (`hosts.js`), composed
   with HostConnections' `StartProof`.
2. PhoneOutbox with the exchange: a phone retries for 12 hours
   (`docs/outbox.md`) against a memory of 10 minutes.
3. Box keys and pinned admins: `forgetperson` unpins, and who may sign then.
4. HolderJoins, OAuth codes: approved once, used once.
5. Keepalive and connectors: a crash between the provider and the disk.
6. Vault synchronisation, watcher, hook-socket, xo-watchdog, edge-watch.

Abstract specifications worth stating, beside IntentCalls and SingleUse: a fleet as
a set of named key holders (implemented by HostConnections under `Orderly`); a
session store with a cap (implemented by Sessions).

Runs: each new module is a part of `parts`, with bounds of two actors, two values
and one more event than it takes to reach its hazard.

Theorems: the refinements above; and what would hold of the known gaps of section 4
if each were closed, as KeyHolderOnly holds under `Orderly`.
