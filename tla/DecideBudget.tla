---------------------------- MODULE DecideBudget ----------------------------
(***************************************************************************)
(* What bounds the questions hosts may put to a model about a still pane:  *)
(* DecideLimits (src/src/fleet/coordinator/decide.js) and the handler that *)
(* asks, CoordinatorCore#onHostDecide.  Each session has a quiet time, each*)
(* host a window, and the fleet a day's neurons, charged at an estimate    *)
(* before a call and put right after it.  The handler awaits twice - the   *)
(* platform's rate limit, then the model - and other frames, midnight and  *)
(* a rebuild of the object come between.                                   *)
(***************************************************************************)
EXTENDS Naturals, FiniteSets, FiniteSetsExt

CONSTANTS
    Panes,          \* the sessions, each of one host
    PaneHost,       \* whose each is
    Quiet,          \* DECIDE_SESSION_QUIET_MS
    HostWindow, HostEach,   \* DECIDE_HOST_WINDOW_MS, DECIDE_HOST_EACH
    Estimate,       \* estimateNeurons, of every frame
    Costs,          \* what a call may really cost, an over-estimate being usual
    Budget,
    DayLength,      \* ticks of a day
    MaxAsks,        \* bound: frames that come in
    MaxHours        \* bound: the last tick

ASSUME DecideAssumption ==
    /\ Quiet \in Nat \ {0} /\ HostWindow \in Nat \ {0} /\ HostEach \in Nat \ {0}
    /\ Estimate \in Nat /\ Costs \subseteq Nat /\ Budget \in Nat /\ DayLength \in Nat \ {0}
    /\ Panes # {} /\ MaxAsks \in Nat /\ MaxHours \in Nat

Asks == 1..MaxAsks

VARIABLES
    hour,           \* the clock
    spend,          \* this.spend: its day and its neurons
    decided,        \* this.sessions: when each pane was last asked about
    hostAsks,       \* this.hosts: the asks of a window, by host
    storedLimits,   \* what storage would give back to a rebuilt object
    ask             \* each frame: its pane, how far it has got, when it was
                    \* charged, and what it cost

decideVars == <<hour, spend, decided, hostAsks, storedLimits, ask>>

PaneHosts == {PaneHost[p] : p \in Panes}
Never == [p \in Panes |-> {}]
Nothing == [pane |-> CHOOSE p \in Panes : TRUE, phase |-> "to come", at |-> 0, cost |-> Estimate]
Today == hour \div DayLength

DecideTypeOK ==
    /\ hour \in 0..MaxHours
    /\ spend \in [day : Nat, neurons : Nat]
    /\ decided \in [Panes -> SUBSET (0..hour)]
    /\ \A p \in Panes : Cardinality(decided[p]) <= 1
    /\ hostAsks \in [PaneHosts -> SUBSET Asks]
    /\ \A h \in PaneHosts : Cardinality(hostAsks[h]) <= HostEach
    /\ ask \in [Asks -> [pane : Panes,
                         phase : {"to come", "limiting", "asking", "answered", "refused", "lost"},
                         at : 0..hour, cost : Costs \cup {Estimate}]]

---------------------------------------------------------------------------
(* DecideLimits *)

\* #today: another day starts from nothing.
SpentToday == IF spend.day = Today THEN spend.neurons ELSE 0

RecentAsks(h) == {a \in hostAsks[h] : hour - ask[a].at < HostWindow}

\* blocked, for a pane: its quiet time, its host's window, the day's neurons.
Blocked(p) ==
    \/ \E t \in decided[p] : hour - t < Quiet
    \/ Cardinality(RecentAsks(PaneHost[p])) >= HostEach
    \/ SpentToday + Estimate > Budget

\* Mutant: what was found free before the rate limit was asked is still free.
AdmitUnasked(a, p) ==
    /\ decided' = [decided EXCEPT ![p] = {hour}]
    /\ hostAsks' = [hostAsks EXCEPT ![PaneHost[p]] = RecentAsks(PaneHost[p]) \cup {a}]
    /\ spend' = [day |-> Today, neurons |-> SpentToday + Estimate]

\* admit: asked again, after the rate limit has been waited for, and then
\* the windows are spent and the estimate charged.
Admit(a, p) ==
    /\ ~Blocked(p)
    /\ decided' = [decided EXCEPT ![p] = {hour}]
    /\ hostAsks' = [hostAsks EXCEPT ![PaneHost[p]] = RecentAsks(PaneHost[p]) \cup {a}]
    /\ spend' = [day |-> Today, neurons |-> SpentToday + Estimate]

\* reconcile: the estimate is taken back and the real cost put in its place,
\* on whatever day it is now.
Reconciled(cost) ==
    [day |-> Today, neurons |-> IF SpentToday + cost > Estimate THEN SpentToday + cost - Estimate ELSE 0]

\* serialise: what is still inside its window, and the day's spend.
Serialised(d, h, s) ==
    [decided |-> [p \in Panes |-> {t \in d[p] : hour - t < Quiet}],
     hostAsks |-> h,
     spend |-> s]

---------------------------------------------------------------------------
(* #onHostDecide *)

Arrives(a, p) ==
    /\ ask[a].phase = "to come"
    /\ \A b \in Asks : b < a => ask[b].phase # "to come"
    /\ ask' = [ask EXCEPT ![a].pane = p,
                          ![a].phase = IF Blocked(p) THEN "refused" ELSE "limiting"]
    /\ UNCHANGED <<hour, spend, decided, hostAsks, storedLimits>>

\* The platform's rate limit says no, or cannot be asked.
RateLimited(a) ==
    /\ ask[a].phase = "limiting"
    /\ ask' = [ask EXCEPT ![a].phase = "refused"]
    /\ UNCHANGED <<hour, spend, decided, hostAsks, storedLimits>>

\* Charged and written down before the call.
Charge(a) ==
    /\ ask[a].phase = "limiting"
    /\ Admit(a, ask[a].pane)
    /\ ask' = [ask EXCEPT ![a].phase = "asking", ![a].at = hour]
    /\ storedLimits' = Serialised(decided', hostAsks', spend')
    /\ UNCHANGED hour

\* The windows were spent by another frame while the rate limit was asked.
TooLate(a) ==
    /\ ask[a].phase = "limiting" /\ Blocked(ask[a].pane)
    /\ ask' = [ask EXCEPT ![a].phase = "refused"]
    /\ UNCHANGED <<hour, spend, decided, hostAsks, storedLimits>>

ModelAnswers(a, cost) ==
    /\ ask[a].phase = "asking"
    /\ ask' = [ask EXCEPT ![a].phase = "answered", ![a].cost = cost]
    /\ spend' = Reconciled(cost)
    /\ storedLimits' = Serialised(decided, hostAsks, spend')
    /\ UNCHANGED <<hour, decided, hostAsks>>

\* The timeout, an error, or an answer that says nothing of its usage: the
\* estimate stays.
ModelFails(a) ==
    /\ ask[a].phase = "asking"
    /\ ask' = [ask EXCEPT ![a].phase = "lost"]
    /\ UNCHANGED <<hour, spend, decided, hostAsks, storedLimits>>

\* Mutant: the windows are not read back.
RestoredSpend(s) ==
    /\ decided' = Never
    /\ hostAsks' = [h \in PaneHosts |-> {}]
    /\ spend' = s.spend

\* restore: rows still inside their window, and a spend that is today's.
Restored(s) ==
    /\ decided' = [p \in Panes |-> {t \in s.decided[p] : hour - t < Quiet}]
    /\ hostAsks' = [h \in PaneHosts |-> {a \in s.hostAsks[h] : hour - ask[a].at < HostWindow}]
    /\ spend' = IF s.spend.day = Today THEN s.spend ELSE [day |-> Today, neurons |-> 0]

\* The object is rebuilt: nothing waits for the model any more.
LimitsRebuilt ==
    /\ \E a \in Asks : ask[a].phase \in {"limiting", "asking"}
    /\ Restored(storedLimits)
    /\ ask' = [a \in Asks |-> IF ask[a].phase = "limiting" THEN [ask[a] EXCEPT !.phase = "refused"]
                              ELSE IF ask[a].phase = "asking" THEN [ask[a] EXCEPT !.phase = "lost"]
                              ELSE ask[a]]
    /\ UNCHANGED <<hour, storedLimits>>

AnHourPasses ==
    /\ hour' = IF hour < MaxHours THEN hour + 1 ELSE hour
    /\ UNCHANGED <<spend, decided, hostAsks, storedLimits, ask>>

---------------------------------------------------------------------------
(* Specification *)

DecideInit ==
    /\ hour = 0
    /\ spend = [day |-> 0, neurons |-> 0]
    /\ decided = Never /\ hostAsks = [h \in PaneHosts |-> {}]
    /\ storedLimits = Serialised(decided, hostAsks, spend)
    /\ ask = [a \in Asks |-> Nothing]

DecideNext ==
    \/ \E a \in Asks :
          \/ \E p \in Panes : Arrives(a, p)
          \/ RateLimited(a) \/ Charge(a) \/ TooLate(a)
          \/ \E c \in Costs : ModelAnswers(a, c)
          \/ ModelFails(a)
    \/ LimitsRebuilt
    \/ AnHourPasses

DecideSpec == DecideInit /\ [][DecideNext]_decideVars

---------------------------------------------------------------------------
(* Properties *)

Charged(a) == ask[a].phase \in {"asking", "answered", "lost"}

\* Whatever frames come in together, and across rebuilds of the object: two
\* calls about one session are a quiet time apart, and a host makes no more
\* than its share in any window (decide.js, "the two windows").
CallsSpaced ==
    LET made == {a \in Asks : Charged(a)} IN
    /\ \A a, b \in made : a # b /\ ask[a].pane = ask[b].pane =>
          ask[a].at >= ask[b].at + Quiet \/ ask[b].at >= ask[a].at + Quiet
    /\ \A h \in PaneHosts : \A t \in 0..MaxHours :
          Cardinality({a \in made : PaneHost[ask[a].pane] = h
                                    /\ t <= ask[a].at /\ ask[a].at < t + HostWindow}) <= HostEach

\* "neurons is what the day has cost as far as the coordinator can tell", a
\* call without usage over-charging rather than under (decide.js): what the
\* calls of today cost is never more than the day's spend.  Does not hold: a
\* call charged before midnight is corrected against the day after.
SpendCoversTheDay ==
    LET today == {a \in Asks : Charged(a) /\ ask[a].at \div DayLength = Today} IN
    FoldSet(LAMBDA a, n : n + ask[a].cost, 0, today) <= SpentToday
=============================================================================
