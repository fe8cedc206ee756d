---------------------------- MODULE ClaudeSignIn ----------------------------
(***************************************************************************)
(* One person's Claude sign-in as the minting Worker keeps it: freshClaude *)
(* and checkClaude (src/src/fleet/minter/claude-login.js), called under    *)
(* the person's lock in the vault's object (minter/vault.js), and a        *)
(* deposit (minter/claude.js), which the Worker in front of that object    *)
(* keeps outside the lock (worker/src/minter.js).                          *)
(*                                                                         *)
(* A renewal spends the refresh token it presents, so which one the row    *)
(* holds matters: tokens of a sign-in are numbered as Anthropic gives      *)
(* them.  When a renewal is due, how an access token is tried, a sign-in   *)
(* refused only in its access token, and forgetting one are left out.      *)
(***************************************************************************)
EXTENDS Naturals, Sequences, FiniteSets

CONSTANTS
    SignIns,        \* sign-ins the person makes, each deposited once
    First,          \* the one kept to begin with
    Callers,        \* boxes and runners asking, and the coordinator's check
    NothingTold,
    NotesKept,      \* RENEWALS_KEPT
    MaxTokens, MaxTime, MaxTroubles   \* bounds

ASSUME SignInAssumption ==
    /\ First \in SignIns /\ NotesKept \in Nat \ {0}
    /\ MaxTokens \in Nat \ {0} /\ MaxTime \in Nat /\ MaxTroubles \in Nat

VARIABLES
    row,            \* gh:<id>: the sign-in, when it was made, its refresh token
    notes,          \* the renewals noted
    told,           \* when the sign-in last said to have ended was made
    callers,        \* what each caller's request is doing, under the lock
    deposits,       \* deposits on their way to the store
    takes,          \* Anthropic: the refresh token it will take, by sign-in
    ended,          \* Anthropic: the sign-ins it has ended
    lost,           \* history: sign-ins whose new token this fleet never kept
    tellings,       \* history: sign-ins said to have ended
    clock, troubles

signInVars == <<row, notes, told, callers, deposits, takes, ended, lost, tellings, clock, troubles>>

Row == [of : SignIns, at : 0..MaxTime, token : 0..MaxTokens]
Note == [at : 0..MaxTime, is : {"pending", "good", "dropped", "refused", "unheard"}]
Free == [phase |-> "free"]

SignInTypeOK ==
    /\ row \in Row
    /\ notes \in Seq(Note) /\ Len(notes) <= NotesKept
    /\ told \in 0..MaxTime \cup {NothingTold}
    /\ \A c \in Callers : \/ callers[c] = Free
                          \/ /\ callers[c].check \in BOOLEAN /\ callers[c].row \in Row
                             /\ callers[c].read \in Row /\ callers[c].at \in 0..MaxTime
                             /\ callers[c].given \in 0..MaxTokens
    /\ deposits \subseteq [of : SignIns, at : 0..MaxTime, accepted : BOOLEAN]
    /\ takes \in [SignIns -> 0..MaxTokens]
    /\ ended \subseteq SignIns /\ lost \subseteq SignIns
    /\ tellings \in [SignIns -> 0..2]
    /\ clock \in 0..MaxTime /\ troubles \in 0..MaxTroubles

Trouble == troubles < MaxTroubles /\ troubles' = troubles + 1
Doing(c, phase) == callers[c].phase = phase
Moves(c, phase) == callers' = [callers EXCEPT ![c].phase = phase]

---------------------------------------------------------------------------
(* Notes *)

\* Mutant: without the person's lock.
UnlockedFor(c) == callers[c] = Free

\* withLock: one request at a time.
LockedFor(c) == \A o \in Callers : callers[o] = Free

Newest(s, n) == SubSeq(s, IF Len(s) > n THEN Len(s) - n + 1 ELSE 1, Len(s))

\* noteRenewal, of one begun and of one settled.
Begun(at) == Newest(Append(notes, [at |-> at, is |-> "pending"]), NotesKept)
SettledAs(at, is) ==
    LET open == {i \in DOMAIN notes : notes[i] = [at |-> at, is |-> "pending"]} IN
    IF open = {} THEN Newest(Append(notes, [at |-> at, is |-> is]), NotesKept)
    ELSE [notes EXCEPT ![CHOOSE i \in open : \A j \in open : i <= j].is = is]

\* claudeRenewals: those of the sign-in kept then.
Renewals(keptAt) == SelectSeq(notes, LAMBDA n : n.at >= keptAt)
RefusedLast(keptAt) ==
    LET list == Renewals(keptAt) IN list # <<>> /\ list[Len(list)].is = "refused"

\* renewalVerdict: what came between the last good one and the refusal.
Verdict(keptAt) ==
    LET list == Renewals(keptAt)
        good == {i \in DOMAIN list : list[i].is \in {"good", "dropped"}}
        from == IF good = {} THEN 1 ELSE CHOOSE i \in good : \A j \in good : j <= i
        between == {list[i].is : i \in from..Len(list) - 1}
    IN IF "pending" \in between THEN "cut"
       ELSE IF "dropped" \in between THEN "dropped" ELSE "outside"

---------------------------------------------------------------------------
(* A renewal *)

Renewing(check, read) ==
    [phase |-> "asking", check |-> check, read |-> read, row |-> row, at |-> clock, given |-> 0]

\* A box or a runner asks, and the sign-in is due: noted, then asked for.
AsksFresh(c) ==
    /\ LockedFor(c)
    /\ callers' = [callers EXCEPT ![c] = Renewing(FALSE, row)]
    /\ notes' = Begun(clock)
    /\ UNCHANGED <<row, told, deposits, takes, ended, lost, tellings, clock, troubles>>

\* renewClaudeSignIn: Anthropic takes its current token only, and gives a new
\* one or lets it stand.
Answered(c) ==
    /\ Doing(c, "asking")
    /\ LET r == callers[c].row IN
       /\ r.of \notin ended /\ r.token = takes[r.of]
       /\ \E new \in {r.token, r.token + 1} :
            /\ new <= MaxTokens
            /\ takes' = [takes EXCEPT ![r.of] = new]
            /\ callers' = [callers EXCEPT ![c].phase = "answered", ![c].given = new]
    /\ UNCHANGED <<row, notes, told, deposits, ended, lost, tellings, clock, troubles>>

RefusedByAnthropic(c) ==
    /\ Doing(c, "asking")
    /\ LET r == callers[c].row IN r.of \in ended \/ r.token # takes[r.of]
    /\ Moves(c, "refused")
    /\ UNCHANGED <<row, notes, told, deposits, takes, ended, lost, tellings, clock, troubles>>

\* It cannot be reached, or it took the token and its answer is lost.
Unheard(c) ==
    /\ Trouble
    /\ Doing(c, "asking")
    /\ Moves(c, "unheard")
    /\ LET r == callers[c].row IN
       \/ UNCHANGED <<takes, lost>>
       \/ /\ r.of \notin ended /\ r.token = takes[r.of] /\ r.token < MaxTokens
          /\ takes' = [takes EXCEPT ![r.of] = @ + 1]
          /\ lost' = lost \cup {r.of}
    /\ UNCHANGED <<row, notes, told, deposits, ended, tellings, clock>>

\* Mutant: the row read again is never the object read first.
RereadsByObject(c) ==
    /\ Doing(c, "answered")
    /\ Moves(c, "dropped")
    /\ UNCHANGED <<row, notes, told, deposits, takes, ended, lost, tellings, clock, troubles>>

\* The row is read again: still the one renewed, or a newer sign-in's.
Rereads(c) ==
    /\ Doing(c, "answered")
    /\ Moves(c, IF row = callers[c].row THEN "sealing" ELSE "dropped")
    /\ UNCHANGED <<row, notes, told, deposits, takes, ended, lost, tellings, clock, troubles>>

\* What it was given is sealed, which is waited for, and put.
WritesBack(c) ==
    /\ Doing(c, "sealing")
    /\ row' = [callers[c].row EXCEPT !.token = callers[c].given]
    /\ Moves(c, "good")
    /\ UNCHANGED <<notes, told, deposits, takes, ended, lost, tellings, clock, troubles>>

\* The note is settled; a check goes on.
Settles(c) ==
    /\ \E is \in {"good", "dropped", "refused", "unheard"} :
         Doing(c, is) /\ notes' = SettledAs(callers[c].at, is)
    /\ callers' = [callers EXCEPT ![c] = IF @.check THEN [@ EXCEPT !.phase = "checked"] ELSE Free]
    /\ UNCHANGED <<row, told, deposits, takes, ended, lost, tellings, clock, troubles>>

---------------------------------------------------------------------------
(* checkClaude *)

\* One whose end was said is not asked after.  A renewal already refused is
\* the answer; otherwise one that is due, or refused at the usage address, is
\* renewed.
Checks(c) ==
    /\ LockedFor(c)
    /\ told # row.at
    /\ callers' = [callers EXCEPT ![c] =
                     [Renewing(TRUE, row) EXCEPT !.phase =
                        IF RefusedLast(row.at) THEN "checked" ELSE "checking"]]
    /\ UNCHANGED <<row, notes, told, deposits, takes, ended, lost, tellings, clock, troubles>>

\* freshClaude reads the row itself.
CheckRenews(c) ==
    /\ Doing(c, "checking")
    /\ callers' = [callers EXCEPT ![c] = Renewing(TRUE, callers[c].read)]
    /\ notes' = Begun(clock)
    /\ UNCHANGED <<row, told, deposits, takes, ended, lost, tellings, clock, troubles>>

\* Its person is told, once for the sign-in, when the last renewal was refused.
Tells(c) ==
    /\ Doing(c, "checked")
    /\ callers' = [callers EXCEPT ![c] = Free]
    /\ IF RefusedLast(callers[c].read.at)
       THEN /\ told' = callers[c].read.at
            /\ tellings' = [tellings EXCEPT ![callers[c].read.of] = IF @ < 2 THEN @ + 1 ELSE @]
       ELSE UNCHANGED <<told, tellings>>
    /\ UNCHANGED <<row, notes, deposits, takes, ended, lost, clock, troubles>>

---------------------------------------------------------------------------
(* Deposits, and what happens elsewhere *)

\* The person signs in again on a machine, and its deposit is on its way.
SignsIn(s) ==
    /\ s # First /\ takes[s] = 0 /\ s \notin ended
    /\ \A d \in deposits : d.of # s
    /\ takes' = [takes EXCEPT ![s] = 1]
    /\ deposits' = deposits \cup {[of |-> s, at |-> clock, accepted |-> FALSE]}
    /\ UNCHANGED <<row, notes, told, callers, ended, lost, tellings, clock, troubles>>

\* answerDeposit, outside the lock: refused when the one held was made no
\* earlier, and kept when Claude has been asked of it.
DepositRead(d) ==
    /\ ~d.accepted
    /\ deposits' = (deposits \ {d})
                   \cup (IF row.at >= d.at THEN {} ELSE {[d EXCEPT !.accepted = TRUE]})
    /\ UNCHANGED <<row, notes, told, callers, takes, ended, lost, tellings, clock, troubles>>

DepositKept(d) ==
    /\ d.accepted
    /\ deposits' = deposits \ {d}
    /\ row' = [of |-> d.of, at |-> d.at, token |-> 1]
    /\ UNCHANGED <<notes, told, callers, takes, ended, lost, tellings, clock, troubles>>

\* On claude.ai, or by Anthropic.
EndedOutside(s) ==
    /\ Trouble
    /\ takes[s] > 0 /\ s \notin ended
    /\ ended' = ended \cup {s}
    /\ UNCHANGED <<row, notes, told, callers, deposits, takes, lost, tellings, clock>>

\* The object is restarted: what was under way is gone, and with it a token
\* not written back.
CutOff ==
    /\ Trouble
    /\ \E c \in Callers : callers[c] # Free
    /\ callers' = [c \in Callers |-> Free]
    /\ lost' = lost \cup {callers[c].row.of : c \in {x \in Callers : callers[x] # Free /\
                   callers[x].phase \in {"answered", "sealing"} /\ callers[x].given # callers[x].row.token}}
    /\ UNCHANGED <<row, notes, told, deposits, takes, ended, tellings, clock>>

SignInTick ==
    /\ clock < MaxTime
    /\ clock' = clock + 1
    /\ UNCHANGED <<row, notes, told, callers, deposits, takes, ended, lost, tellings, troubles>>

---------------------------------------------------------------------------
SignInInit ==
    /\ row = [of |-> First, at |-> 0, token |-> 1]
    /\ notes = <<>> /\ told = NothingTold /\ deposits = {} /\ ended = {} /\ lost = {}
    /\ callers = [c \in Callers |-> Free]
    /\ takes = [s \in SignIns |-> IF s = First THEN 1 ELSE 0]
    /\ tellings = [s \in SignIns |-> 0]
    /\ clock = 0 /\ troubles = 0

SignInNext ==
    \/ \E c \in Callers :
         \/ AsksFresh(c) \/ Answered(c) \/ RefusedByAnthropic(c) \/ Unheard(c)
         \/ Rereads(c) \/ WritesBack(c) \/ Settles(c)
         \/ Checks(c) \/ CheckRenews(c) \/ Tells(c)
    \/ \E s \in SignIns : SignsIn(s) \/ EndedOutside(s)
    \/ \E d \in deposits : DepositRead(d) \/ DepositKept(d)
    \/ CutOff \/ SignInTick

SignInSpec == SignInInit /\ [][SignInNext]_signInVars

---------------------------------------------------------------------------
\* A refresh token already spent is presented only for a sign-in whose new
\* one this fleet never got to keep, because a renewal was cut off or its
\* answer lost: not because two callers renewed at once, which the comment of
\* withLock is about, nor because a renewal was taken for one a deposit
\* overtook, as freshClaude's says each was.
SpentOnlyOnceLost ==
    [][\A c \in Callers :
         (callers[c] # Free /\ callers'[c] # Free /\ Doing(c, "asking") /\ callers'[c].phase = "refused")
         => (callers[c].row.of \in ended \cup lost)]_signInVars

\* Its end is said once for a sign-in (answerClaudeCheck), whoever is asking
\* while the check asks.
EndToldOnce == \A s \in SignIns : tellings[s] <= 1

\* What a person is told has ended has: Anthropic takes its token no more.
\* Does not hold: a refusal of the sign-in before, noted after the new one was
\* made and before it was kept, is read as the new one's.
EndedIsTrue ==
    [][\A s \in SignIns : tellings'[s] > tellings[s] => s \in ended \cup lost]_signInVars

\* "Left alone if a newer one arrived meanwhile" (freshClaude): a renewal's
\* write-back never replaces a sign-in made later.  Does not hold: one kept
\* while the renewal is being sealed, after the row was read again, is lost.
DepositSurvives == [][row'.at >= row.at]_signInVars

\* A sign-in said to have been ended outside the fleet (renewalVerdict) was.
\* Does not hold: an answer lost on its way is noted as not got, and nothing
\* tells that from a renewal never taken.
VerdictIsTrue ==
    [][\A s \in SignIns :
         (tellings'[s] > tellings[s] /\ \E c \in Callers : callers[c] # Free /\ callers[c].read.of = s
                                          /\ callers[c].phase = "checked" /\ callers'[c] = Free
                                          /\ Verdict(callers[c].read.at) = "outside")
         => s \in ended]_signInVars
=============================================================================
