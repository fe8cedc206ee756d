------------------------ MODULE IntentExchangeProofs ------------------------
(***************************************************************************)
(* What holds of IntentExchange for every set of hosts, ids and number of  *)
(* calls: its types, that no waiter is lost under another, that an answer  *)
(* is a run of the call's own id on the call's own host, and that the      *)
(* exchange implements IntentCalls.                                        *)
(*                                                                         *)
(* The invariant is inductive as it stands.  It is needed whole: that the  *)
(* reply taken by a call is of the call's own id follows from where its    *)
(* waiter was found (WaiterPerCall), not from anything in the reply.       *)
(* That a retry gets the original outcome needs, beside it, which run a    *)
(* host's cache names (Remembered).                                        *)
(***************************************************************************)
EXTENDS IntentExchange, SequenceTheorems, TLAPS

IInv == TypeOK /\ WaiterPerCall /\ AnswerFromOwnHost

---------------------------------------------------------------------------
(* Lemmas on the calls and the runs *)

LEMMA AppendFacts ==
    ASSUME NEW T, NEW s \in Seq(T), NEW e \in T
    PROVE  /\ Append(s, e) \in Seq(T)
           /\ Len(Append(s, e)) = Len(s) + 1
           /\ Len(s) \in Nat
           /\ DOMAIN Append(s, e) = 1..(Len(s) + 1)
           /\ DOMAIN s = 1..Len(s)
           /\ \A i \in 1..Len(s) : Append(s, e)[i] = s[i]
           /\ Append(s, e)[Len(s) + 1] = e
  OBVIOUS

LEMMA CallFacts ==
    ASSUME TypeOK
    PROVE  /\ Len(calls) \in Nat /\ DOMAIN calls = 1..Len(calls)
           /\ Len(runs) \in Nat /\ DOMAIN runs = 1..Len(runs)
           /\ \A c \in DOMAIN calls :
                 /\ calls[c] \in Call
                 /\ calls[c].id \in Ids /\ calls[c].host \in Hosts
                 /\ calls[c].state \in States
           /\ \A r \in DOMAIN runs :
                 /\ runs[r] \in Run
                 /\ runs[r].id \in Ids /\ runs[r].host \in Hosts
           /\ \A m \in replies : m.call \in DOMAIN calls /\ m.run \in DOMAIN runs
           /\ \A id \in Ids : pending[id] # 0 => pending[id] \in DOMAIN calls
           /\ 0 \notin DOMAIN calls /\ 0 \notin DOMAIN runs
<1>1. calls \in Seq(Call) /\ runs \in Seq(Run)
  BY DEF TypeOK
<1>2. /\ Len(calls) \in Nat /\ DOMAIN calls = 1..Len(calls)
      /\ Len(runs) \in Nat /\ DOMAIN runs = 1..Len(runs)
  BY <1>1
<1>3. ASSUME NEW c \in DOMAIN calls
      PROVE  /\ calls[c] \in Call
             /\ calls[c].id \in Ids /\ calls[c].host \in Hosts
             /\ calls[c].state \in States
  <2>1. calls[c] \in Call
    BY <1>1
  <2> QED
    BY ONLY <2>1 DEF Call
<1>4. ASSUME NEW r \in DOMAIN runs
      PROVE  runs[r] \in Run /\ runs[r].id \in Ids /\ runs[r].host \in Hosts
  <2>1. runs[r] \in Run
    BY <1>1
  <2> QED
    BY ONLY <2>1 DEF Run
<1>5. ASSUME NEW m \in replies PROVE m.call \in DOMAIN calls /\ m.run \in DOMAIN runs
  BY DEF TypeOK
<1>6. ASSUME NEW id \in Ids, pending[id] # 0 PROVE pending[id] \in DOMAIN calls
  <2>1. pending[id] \in 0..Len(calls)
    BY DEF TypeOK
  <2> QED
    BY <1>2, <1>6, <2>1
<1> QED
  BY <1>2, <1>3, <1>4, <1>5, <1>6

\* A call is appended: the calls before it are as they were.
LEMMA NewCallFacts ==
    ASSUME TypeOK, NEW id \in Ids, NEW h \in Hosts, NEW state \in States,
           Len(calls) < MaxCalls, calls' = NewCall(id, h, state)
    PROVE  /\ calls' \in Seq(Call) /\ Len(calls') = Len(calls) + 1
           /\ Len(calls') <= MaxCalls
           /\ DOMAIN calls' = 1..(Len(calls) + 1) /\ DOMAIN calls \subseteq DOMAIN calls'
           /\ DOMAIN calls' = DOMAIN calls \cup {Len(calls) + 1}
           /\ \A c \in DOMAIN calls : calls'[c] = calls[c]
           /\ calls'[Len(calls) + 1] = [id |-> id, host |-> h, state |-> state, answer |-> 0]
<1> DEFINE e == [id |-> id, host |-> h, state |-> state, answer |-> 0]
<1>1. e \in Call
  BY DEF Call
<1>2. calls \in Seq(Call) /\ Len(calls) \in Nat /\ MaxCalls \in Nat
  BY ExchangeAssumption DEF TypeOK
<1>3. calls' = Append(calls, e)
  BY DEF NewCall
<1> HIDE DEF e
<1>4. /\ calls' \in Seq(Call) /\ Len(calls') = Len(calls) + 1
      /\ DOMAIN calls' = 1..(Len(calls) + 1) /\ DOMAIN calls = 1..Len(calls)
      /\ \A c \in 1..Len(calls) : calls'[c] = calls[c]
      /\ calls'[Len(calls) + 1] = e
  BY <1>1, <1>2, <1>3, AppendFacts
<1>5. Len(calls') <= MaxCalls
  BY <1>2, <1>4
<1>6. DOMAIN calls' = DOMAIN calls \cup {Len(calls) + 1}
  BY <1>2, <1>4
<1> QED
  BY <1>4, <1>5, <1>6 DEF e

\* A call is settled: the others, and which calls there are, stay.
LEMMA SettleFacts ==
    ASSUME TypeOK, NEW c \in DOMAIN calls, NEW e \in Call,
           calls' = [calls EXCEPT ![c] = e]
    PROVE  /\ calls' \in Seq(Call) /\ Len(calls') = Len(calls)
           /\ DOMAIN calls' = DOMAIN calls
           /\ calls'[c] = e
           /\ \A d \in DOMAIN calls : d # c => calls'[d] = calls[d]
  BY DEF TypeOK

LEMMA RecordFacts ==
    ASSUME NEW r \in Call, NEW s \in States, NEW a \in Nat
    PROVE  /\ [r EXCEPT !.state = s] \in Call
           /\ [r EXCEPT !.state = s] = [id |-> r.id, host |-> r.host, state |-> s, answer |-> r.answer]
           /\ [r EXCEPT !.answer = a] \in Call
           /\ [r EXCEPT !.answer = a] = [id |-> r.id, host |-> r.host, state |-> r.state, answer |-> a]
  BY DEF Call

---------------------------------------------------------------------------
(* Type correctness *)

LEMMA InitInv == Init => IInv
<1> SUFFICES ASSUME Init PROVE IInv
  OBVIOUS
<1>1. Len(calls) = 0 /\ DOMAIN calls = {} /\ Len(runs) = 0 /\ DOMAIN runs = {}
      /\ calls \in Seq(Call) /\ runs \in Seq(Run)
  BY DEF Init
<1>2. TypeOK
  BY <1>1, ExchangeAssumption DEF Init, TypeOK
<1>3. WaiterPerCall /\ AnswerFromOwnHost
  BY <1>1 DEF Init, WaiterPerCall, AnswerFromOwnHost
<1> QED
  BY <1>2, <1>3 DEF IInv

\* The parts of TypeOK that a step of the coordinator can disturb: which calls
\* there are, and what points at them.
LEMMA CoordTypes ==
    ASSUME TypeOK, UNCHANGED hostVars,
           calls' \in Seq(Call), Len(calls') <= MaxCalls,
           DOMAIN calls \subseteq DOMAIN calls',
           pending' \in [Ids -> 0..Len(calls')],
           up' \subseteq Hosts, wire' \subseteq DOMAIN calls',
           replies' \subseteq replies,
           \A c \in DOMAIN calls' : calls'[c].answer \in 0..Len(runs)
    PROVE  TypeOK'
  BY DEF TypeOK, hostVars

LEMMA PendingGrows ==
    ASSUME TypeOK, Len(calls') = Len(calls) + 1
    PROVE  pending \in [Ids -> 0..Len(calls')]
<1>1. Len(calls) \in Nat /\ pending \in [Ids -> 0..Len(calls)]
  BY CallFacts DEF TypeOK
<1>2. 0..Len(calls) \subseteq 0..(Len(calls) + 1)
  BY <1>1
<1> QED
  BY <1>1, <1>2

\* A call made and settled at once: RefuseUnsigned, RejectInUse, RejectUnsent.
LEMMA TurnedAway ==
    ASSUME IInv, NEW id \in Ids, NEW h \in Hosts, NEW state \in Failed,
           Len(calls) < MaxCalls, calls' = NewCall(id, h, state),
           UNCHANGED <<pending, up, wire, replies, hostVars>>
    PROVE  IInv'
<1>1. TypeOK /\ WaiterPerCall /\ AnswerFromOwnHost /\ state \in States
      /\ state # "waiting" /\ state # "answered"
  BY DEF IInv, Failed
<1> DEFINE n == Len(calls) + 1
<1>2. /\ calls' \in Seq(Call) /\ Len(calls') = n /\ Len(calls') <= MaxCalls
      /\ DOMAIN calls \subseteq DOMAIN calls' /\ DOMAIN calls' = DOMAIN calls \cup {n}
      /\ \A c \in DOMAIN calls : calls'[c] = calls[c]
      /\ calls'[n] = [id |-> id, host |-> h, state |-> state, answer |-> 0]
  BY <1>1, NewCallFacts
<1>3. calls'[n].id = id /\ calls'[n].host = h /\ calls'[n].state = state /\ calls'[n].answer = 0
  BY <1>2
<1> HIDE DEF n
<1>4. TypeOK'
  <2>1. \A c \in DOMAIN calls' : calls'[c].answer \in 0..Len(runs)
    BY <1>1, <1>2, <1>3, CallFacts DEF TypeOK
  <2>2. pending' \in [Ids -> 0..Len(calls')]
    BY <1>1, <1>2, PendingGrows DEF n
  <2>3. up' \subseteq Hosts /\ wire' \subseteq DOMAIN calls' /\ replies' \subseteq replies
    BY <1>1, <1>2 DEF TypeOK
  <2> QED
    BY <1>1, <1>2, <2>1, <2>2, <2>3, CoordTypes
<1>5. WaiterPerCall'
  <2>1. ASSUME NEW c \in DOMAIN calls', calls'[c].state = "waiting"
        PROVE  pending'[calls'[c].id] = c
    BY <1>1, <1>2, <1>3, <2>1 DEF WaiterPerCall
  <2>2. ASSUME NEW i \in Ids, pending'[i] # 0
        PROVE  calls'[pending'[i]].state = "waiting" /\ calls'[pending'[i]].id = i
    <3>1. pending[i] \in DOMAIN calls
      BY <1>1, <2>2, CallFacts
    <3> QED
      BY <1>1, <1>2, <2>2, <3>1 DEF WaiterPerCall
  <2> QED
    BY <2>1, <2>2 DEF WaiterPerCall
<1>6. AnswerFromOwnHost'
  BY <1>1, <1>2, <1>3 DEF AnswerFromOwnHost, hostVars
<1> QED
  BY <1>4, <1>5, <1>6 DEF IInv

LEMMA SendStep ==
    ASSUME IInv, NEW id \in Ids, NEW h \in Hosts, Send(id, h)
    PROVE  IInv'
<1>1. TypeOK /\ WaiterPerCall /\ AnswerFromOwnHost /\ "waiting" \in States
  BY DEF IInv, States
<1> DEFINE n == Len(calls) + 1
<1>2. /\ calls' \in Seq(Call) /\ Len(calls') = n /\ Len(calls') <= MaxCalls
      /\ DOMAIN calls \subseteq DOMAIN calls' /\ DOMAIN calls' = DOMAIN calls \cup {n}
      /\ \A c \in DOMAIN calls : calls'[c] = calls[c]
      /\ calls'[n] = [id |-> id, host |-> h, state |-> "waiting", answer |-> 0]
  BY <1>1, NewCallFacts DEF Send
<1>3. calls'[n].id = id /\ calls'[n].host = h /\ calls'[n].state = "waiting"
      /\ calls'[n].answer = 0
  BY <1>2
<1>4. n \in 0..Len(calls') /\ n # 0 /\ n \notin DOMAIN calls
  BY <1>1, <1>2, CallFacts
<1>5. pending' = [pending EXCEPT ![id] = n] /\ pending[id] = 0 /\ wire' = wire \cup {n}
  BY DEF Send
<1> HIDE DEF n
<1>6. TypeOK'
  <2>1. \A c \in DOMAIN calls' : calls'[c].answer \in 0..Len(runs)
    BY <1>1, <1>2, <1>3, CallFacts DEF TypeOK
  <2>2. pending' \in [Ids -> 0..Len(calls')]
    BY <1>1, <1>2, <1>4, <1>5, PendingGrows DEF n
  <2>3. up' \subseteq Hosts /\ wire' \subseteq DOMAIN calls' /\ replies' \subseteq replies
    BY <1>1, <1>2, <1>5 DEF TypeOK, Send
  <2>4. UNCHANGED hostVars
    BY DEF Send
  <2> QED
    BY <1>1, <1>2, <2>1, <2>2, <2>3, <2>4, CoordTypes
<1>7. pending \in [Ids -> 0..Len(calls)]
  BY <1>1 DEF TypeOK
<1>8. WaiterPerCall'
  <2>1. ASSUME NEW c \in DOMAIN calls', calls'[c].state = "waiting"
        PROVE  pending'[calls'[c].id] = c
    <3>1. CASE c = n
      BY <1>3, <1>5, <1>7, <3>1
    <3>2. CASE c \in DOMAIN calls
      <4>1. calls[c].state = "waiting" /\ calls'[c].id = calls[c].id /\ pending[calls[c].id] = c
        BY <1>1, <1>2, <2>1, <3>2 DEF WaiterPerCall
      <4>2. calls[c].id # id
        BY <1>1, <1>5, <3>2, <4>1, CallFacts
      <4> QED
        BY <1>5, <1>7, <4>1, <4>2
    <3> QED
      BY <1>2, <3>1, <3>2
  <2>2. ASSUME NEW i \in Ids, pending'[i] # 0
        PROVE  calls'[pending'[i]].state = "waiting" /\ calls'[pending'[i]].id = i
    <3>1. CASE i = id
      BY <1>3, <1>5, <1>7, <3>1
    <3>2. CASE i # id
      <4>1. pending'[i] = pending[i] /\ pending[i] \in DOMAIN calls
        BY <1>1, <1>5, <1>7, <2>2, <3>2, CallFacts
      <4> QED
        BY <1>1, <1>2, <2>2, <4>1 DEF WaiterPerCall
    <3> QED
      BY <3>1, <3>2
  <2> QED
    BY <2>1, <2>2 DEF WaiterPerCall
<1>9. AnswerFromOwnHost'
  <2>1. runs' = runs
    BY DEF Send, hostVars
  <2> QED
    BY <1>1, <1>2, <1>3, <2>1 DEF AnswerFromOwnHost
<1> QED
  BY <1>6, <1>8, <1>9 DEF IInv

\* The waiter under an id is settled with a state and an answer, and taken
\* out: TimeOut and TakeReply.
LEMMA SettleStep ==
    ASSUME IInv, NEW id \in Ids, NEW c \in DOMAIN calls, pending[id] = c,
           NEW s \in States, s # "waiting", NEW a \in 0..Len(runs),
           s = "answered" => a # 0 /\ runs[a] = [host |-> calls[c].host, id |-> calls[c].id],
           calls' = [calls EXCEPT ![c] =
               [id |-> calls[c].id, host |-> calls[c].host, state |-> s, answer |-> a]],
           pending' = [pending EXCEPT ![id] = 0],
           replies' \subseteq replies, UNCHANGED <<up, wire, hostVars>>
    PROVE  IInv'
<1> DEFINE e == [id |-> calls[c].id, host |-> calls[c].host, state |-> s, answer |-> a]
<1>1. TypeOK /\ WaiterPerCall /\ AnswerFromOwnHost
  BY DEF IInv
<1>2. calls[c].id \in Ids /\ calls[c].host \in Hosts /\ Len(runs) \in Nat
      /\ 0 \notin DOMAIN calls
  BY <1>1, CallFacts
<1>3. e \in Call /\ e.id = calls[c].id /\ e.host = calls[c].host /\ e.state = s /\ e.answer = a
  BY <1>2 DEF Call
<1> HIDE DEF e
<1>4. calls' = [calls EXCEPT ![c] = e]
  BY DEF e
<1>5. /\ calls' \in Seq(Call) /\ Len(calls') = Len(calls) /\ DOMAIN calls' = DOMAIN calls
      /\ calls'[c] = e
      /\ \A d \in DOMAIN calls : d # c => calls'[d] = calls[d]
  <2>1. e \in Call /\ TypeOK
    BY <1>1, <1>3
  <2> QED
    BY <2>1, <1>4, SettleFacts, Zenon
<1>6. pending \in [Ids -> 0..Len(calls)] /\ calls[c].id = id
  BY <1>1, <1>2 DEF TypeOK, WaiterPerCall
<1>7. TypeOK'
  <2>1. \A d \in DOMAIN calls' : calls'[d].answer \in 0..Len(runs)
    BY <1>1, <1>3, <1>5 DEF TypeOK
  <2>2. pending' \in [Ids -> 0..Len(calls')]
    BY <1>5, <1>6
  <2>3. up' \subseteq Hosts /\ wire' \subseteq DOMAIN calls'
        /\ DOMAIN calls \subseteq DOMAIN calls' /\ Len(calls') <= MaxCalls
    BY <1>1, <1>5 DEF TypeOK
  <2> QED
    BY <1>1, <1>5, <2>1, <2>2, <2>3, CoordTypes
<1>8. WaiterPerCall'
  <2>1. ASSUME NEW d \in DOMAIN calls', calls'[d].state = "waiting"
        PROVE  pending'[calls'[d].id] = d
    <3>1. d # c /\ calls'[d] = calls[d] /\ d \in DOMAIN calls
      BY <1>3, <1>5, <2>1
    <3>2. pending[calls[d].id] = d /\ calls[d].id # id /\ calls[d].id \in Ids
      BY <1>1, <2>1, <3>1, CallFacts DEF WaiterPerCall
    <3> QED
      BY <1>6, <3>1, <3>2
  <2>2. ASSUME NEW i \in Ids, pending'[i] # 0
        PROVE  calls'[pending'[i]].state = "waiting" /\ calls'[pending'[i]].id = i
    <3>1. i # id /\ pending'[i] = pending[i]
      BY <1>6, <2>2
    <3>2. pending[i] \in DOMAIN calls /\ calls[pending[i]].id = i
          /\ calls[pending[i]].state = "waiting"
      BY <1>1, <2>2, <3>1, CallFacts DEF WaiterPerCall
    <3>3. pending[i] # c
      BY <1>6, <3>1, <3>2
    <3> QED
      BY <1>5, <3>1, <3>2, <3>3
  <2> QED
    BY <2>1, <2>2 DEF WaiterPerCall
<1>9. AnswerFromOwnHost'
  <2> SUFFICES ASSUME NEW d \in DOMAIN calls', calls'[d].state = "answered"
               PROVE  calls'[d].answer # 0 /\ runs[calls'[d].answer] =
                         [host |-> calls'[d].host, id |-> calls'[d].id]
    BY DEF AnswerFromOwnHost, hostVars
  <2>1. CASE d = c
    BY <1>3, <1>5, <2>1
  <2>2. CASE d # c
    BY <1>1, <1>5, <2>2 DEF AnswerFromOwnHost
  <2> QED
    BY <2>1, <2>2
<1> QED
  BY <1>7, <1>8, <1>9 DEF IInv

LEMMA TimeOutStep ==
    ASSUME IInv, NEW id \in Ids, TimeOut(id)
    PROVE  IInv'
<1> DEFINE c == pending[id]
<1>1. TypeOK /\ c \in DOMAIN calls /\ calls[c].state = "waiting"
  BY CallFacts DEF IInv, TimeOut, WaiterPerCall
<1>2. calls[c] \in Call /\ calls[c].answer \in 0..Len(runs) /\ calls[c].answer \in Nat
  BY <1>1, CallFacts DEF TypeOK, Call
<1>3. "timedout" \in States /\ "timedout" # "waiting" /\ "timedout" # "answered"
  BY DEF States
<1>4. calls' = [calls EXCEPT ![c] = [calls[c] EXCEPT !.state = "timedout"]]
  BY <1>1 DEF TimeOut, TypeOK
<1>5. [calls[c] EXCEPT !.state = "timedout"] =
        [id |-> calls[c].id, host |-> calls[c].host, state |-> "timedout", answer |-> calls[c].answer]
  BY <1>2, <1>3, RecordFacts
<1>6. calls' = [calls EXCEPT ![c] =
        [id |-> calls[c].id, host |-> calls[c].host, state |-> "timedout", answer |-> calls[c].answer]]
  BY <1>4, <1>5
<1>7. pending' = [pending EXCEPT ![id] = 0] /\ replies' \subseteq replies
      /\ UNCHANGED <<up, wire, hostVars>>
  BY DEF TimeOut
<1> HIDE DEF c
<1>8. pending[id] = c
  BY DEF c
<1> QED
  BY <1>1, <1>2, <1>3, <1>6, <1>7, <1>8, SettleStep

LEMMA TakeReplyStep ==
    ASSUME IInv, NEW m \in replies, TakeReply(m)
    PROVE  IInv'
<1> DEFINE id == runs[m.run].id
           c  == pending[id]
<1>1. TypeOK /\ m.run \in DOMAIN runs /\ id \in Ids /\ runs[m.run] \in Run
  BY CallFacts DEF IInv
<1>2. c \in DOMAIN calls /\ calls[c].id = id /\ calls[c].host = runs[m.run].host
  BY <1>1, CallFacts DEF IInv, TakeReply, WaiterPerCall
<1>3. "answered" \in States /\ m.run \in Nat /\ m.run # 0 /\ m.run \in 0..Len(runs)
  BY <1>1, CallFacts DEF States
<1>4. runs[m.run] = [host |-> calls[c].host, id |-> calls[c].id]
  BY <1>1, <1>2 DEF Run
<1> DEFINE q == [calls[c] EXCEPT !.state = "answered"]
<1>5. calls' = [calls EXCEPT ![c] = [q EXCEPT !.answer = m.run]]
  BY <1>1, <1>2 DEF TakeReply, TypeOK
<1> HIDE DEF c
<1>6. calls' = [calls EXCEPT ![c] =
        [id |-> calls[c].id, host |-> calls[c].host, state |-> "answered", answer |-> m.run]]
  <2>1. /\ q \in Call
        /\ q = [id |-> calls[c].id, host |-> calls[c].host, state |-> "answered",
                answer |-> calls[c].answer]
    BY <1>1, <1>2, <1>3, CallFacts, RecordFacts
  <2>2. q.id = calls[c].id /\ q.host = calls[c].host /\ q.state = "answered"
    BY <2>1
  <2> HIDE DEF q
  <2>3. [q EXCEPT !.answer = m.run] = [id |-> q.id, host |-> q.host, state |-> q.state, answer |-> m.run]
    BY <1>3, <2>1, RecordFacts
  <2>4. [q EXCEPT !.answer = m.run] =
          [id |-> calls[c].id, host |-> calls[c].host, state |-> "answered", answer |-> m.run]
    BY ONLY <2>2, <2>3
  <2> QED
    BY ONLY <1>5, <2>4
<1>7. pending' = [pending EXCEPT ![id] = 0] /\ replies' \subseteq replies
      /\ UNCHANGED <<up, wire, hostVars>> /\ pending[id] = c
  BY DEF TakeReply, c
<1> HIDE DEF id
<1> QED
  BY <1>1, <1>2, <1>3, <1>4, <1>6, <1>7, SettleStep

LEMMA RedeployStep == ASSUME IInv, Redeploy PROVE IInv'
<1>1. TypeOK /\ WaiterPerCall /\ AnswerFromOwnHost
  BY DEF IInv
<1>2. /\ calls \in Seq(Call) /\ Len(calls) \in Nat /\ DOMAIN calls = 1..Len(calls)
      /\ Len(calls) <= MaxCalls
  BY <1>1, CallFacts DEF TypeOK
<1> DEFINE Cut(c) == IF calls[c].state = "waiting" THEN [calls[c] EXCEPT !.state = "cut"]
                     ELSE calls[c]
<1>3. calls' = [c \in DOMAIN calls |-> Cut(c)]
  BY DEF Redeploy
<1>4. ASSUME NEW c \in DOMAIN calls
      PROVE  /\ Cut(c) \in Call /\ Cut(c).answer = calls[c].answer
             /\ Cut(c).state # "waiting"
             /\ Cut(c).state = "answered" => Cut(c) = calls[c]
  <2>1. calls[c] \in Call /\ "cut" \in States
    BY <1>1, CallFacts DEF States
  <2> HIDE DEF Cut
  <2>2. CASE calls[c].state = "waiting"
    <3>1. Cut(c) = [calls[c] EXCEPT !.state = "cut"]
      BY <2>2 DEF Cut
    <3>2. [calls[c] EXCEPT !.state = "cut"] \in Call
          /\ [calls[c] EXCEPT !.state = "cut"].state = "cut"
          /\ [calls[c] EXCEPT !.state = "cut"].answer = calls[c].answer
      BY ONLY <2>1 DEF Call
    <3> QED
      BY <3>1, <3>2
  <2>3. CASE calls[c].state # "waiting"
    BY <2>1, <2>3 DEF Cut
  <2> QED
    BY <2>2, <2>3
<1> HIDE DEF Cut
<1>5. calls' \in Seq(Call) /\ Len(calls') = Len(calls) /\ DOMAIN calls' = DOMAIN calls
      /\ \A c \in DOMAIN calls : calls'[c] = Cut(c)
  BY <1>2, <1>3, <1>4
<1>6. pending' = [id \in Ids |-> 0] /\ up' = {} /\ wire' = {} /\ UNCHANGED <<replies, hostVars>>
  BY DEF Redeploy
<1>7. TypeOK'
  <2>1. \A c \in DOMAIN calls' : calls'[c].answer \in 0..Len(runs)
    BY <1>1, <1>4, <1>5 DEF TypeOK
  <2>2. pending' \in [Ids -> 0..Len(calls')]
    BY <1>2, <1>5, <1>6
  <2> QED
    BY <1>1, <1>2, <1>5, <1>6, <2>1, <2>2, CoordTypes
<1>8. WaiterPerCall'
  BY <1>4, <1>5, <1>6 DEF WaiterPerCall
<1>9. AnswerFromOwnHost'
  BY <1>1, <1>4, <1>5, <1>6 DEF AnswerFromOwnHost, hostVars
<1> QED
  BY <1>7, <1>8, <1>9 DEF IInv

\* Steps that leave the calls and the runs alone.
LEMMA QuietStep ==
    ASSUME IInv, UNCHANGED <<calls, pending, runs>>,
           up' \subseteq Hosts, wire' \subseteq wire,
           replies' \subseteq [call : DOMAIN calls, run : DOMAIN runs],
           cache' \in [Hosts -> [MutatingIds -> 0..Len(runs)]],
           forgotten' \subseteq DOMAIN runs
    PROVE  IInv'
  BY DEF IInv, TypeOK, WaiterPerCall, AnswerFromOwnHost

\* A run a cache holds is one.
LEMMA CacheFacts ==
    ASSUME TypeOK, NEW h \in Hosts, NEW id \in MutatingIds
    PROVE  /\ cache[h] \in [MutatingIds -> 0..Len(runs)]
           /\ cache[h][id] \in 0..Len(runs)
           /\ cache[h][id] # 0 => cache[h][id] \in DOMAIN runs
<1>1. cache[h] \in [MutatingIds -> 0..Len(runs)]
  BY DEF TypeOK
<1>2. cache[h][id] \in 0..Len(runs)
  BY <1>1
<1> QED
  BY <1>1, <1>2, CallFacts

LEMMA ForgetStep ==
    ASSUME IInv, NEW h \in Hosts, NEW id \in MutatingIds, Forget(h, id)
    PROVE  IInv'
<1>1. TypeOK
  BY DEF IInv
<1>2. cache[h][id] \in DOMAIN runs /\ cache[h] \in [MutatingIds -> 0..Len(runs)]
      /\ 0 \in 0..Len(runs)
  BY <1>1, CacheFacts, CallFacts DEF Forget
<1>3. cache' \in [Hosts -> [MutatingIds -> 0..Len(runs)]]
  <2> DEFINE row == [cache[h] EXCEPT ![id] = 0]
  <2>1. row \in [MutatingIds -> 0..Len(runs)]
    BY <1>2
  <2>2. cache' = [cache EXCEPT ![h] = row]
    BY <1>1 DEF Forget, TypeOK
  <2> HIDE DEF row
  <2> QED
    BY <1>1, <2>1, <2>2 DEF TypeOK
<1>4. forgotten' \subseteq DOMAIN runs
  BY <1>1, <1>2 DEF Forget, TypeOK
<1> QED
  BY <1>1, <1>3, <1>4, QuietStep DEF Forget, TypeOK, coordVars

LEMMA RestartStep ==
    ASSUME IInv, NEW h \in Hosts, RestartSidecar(h)
    PROVE  IInv'
<1>1. TypeOK
  BY DEF IInv
<1>2. cache' \in [Hosts -> [MutatingIds -> 0..Len(runs)]]
  <2> DEFINE row == [i \in MutatingIds |-> 0]
  <2>1. row \in [MutatingIds -> 0..Len(runs)]
    BY <1>1, CallFacts
  <2>2. cache' = [cache EXCEPT ![h] = row]
    BY DEF RestartSidecar
  <2> HIDE DEF row
  <2> QED
    BY <1>1, <2>1, <2>2 DEF TypeOK
<1>3. forgotten' \subseteq DOMAIN runs
  <2>1. \A i \in MutatingIds : cache[h][i] # 0 => cache[h][i] \in DOMAIN runs
    BY <1>1, CacheFacts
  <2> QED
    BY <1>1, <2>1 DEF RestartSidecar, TypeOK
<1> QED
  BY <1>1, <1>2, <1>3, QuietStep DEF RestartSidecar, TypeOK, coordVars

LEMMA HandleReplayStep ==
    ASSUME IInv, NEW c \in wire, HandleReplay(c)
    PROVE  IInv'
<1> DEFINE r == cache[calls[c].host][calls[c].id]
<1>1. TypeOK /\ c \in DOMAIN calls
  BY DEF IInv, TypeOK
<1>2. r \in DOMAIN runs
  BY <1>1, CallFacts, CacheFacts DEF HandleReplay
<1>3. replies' = replies \cup {[call |-> c, run |-> r]}
  BY DEF HandleReplay
<1> HIDE DEF r
<1>4. replies' \subseteq [call : DOMAIN calls, run : DOMAIN runs]
  BY <1>1, <1>2, <1>3 DEF TypeOK
<1> QED
  BY <1>1, <1>4, QuietStep DEF HandleReplay, TypeOK, coordVars, hostVars

LEMMA HandleRunStep ==
    ASSUME IInv, NEW c \in wire, HandleRun(c)
    PROVE  IInv'
<1> DEFINE id == calls[c].id
           h  == calls[c].host
           n  == Len(runs) + 1
           e  == [host |-> h, id |-> id]
<1>1. TypeOK /\ WaiterPerCall /\ AnswerFromOwnHost /\ c \in DOMAIN calls
      /\ runs \in Seq(Run)
  BY DEF IInv, TypeOK
<1>2. id \in Ids /\ h \in Hosts /\ e \in Run
  BY <1>1, CallFacts DEF Run
<1>3. runs' = Append(runs, e)
  BY DEF HandleRun
<1>4. replies' = replies \cup {[call |-> c, run |-> n]} /\ wire' = wire \ {c}
      /\ cache' = IF id \in MutatingIds THEN [cache EXCEPT ![h][id] = n] ELSE cache
  BY DEF HandleRun
<1>u. UNCHANGED <<calls, pending, up, forgotten>>
  BY DEF HandleRun, coordVars
<1> HIDE DEF e, id, h
<1>5. /\ runs' \in Seq(Run) /\ Len(runs') = n /\ DOMAIN runs' = 1..n
      /\ Len(runs) \in Nat /\ DOMAIN runs = 1..Len(runs)
      /\ \A r \in DOMAIN runs : runs'[r] = runs[r]
  BY <1>1, <1>2, <1>3, AppendFacts
<1>6. /\ 0..Len(runs) \subseteq 0..Len(runs') /\ DOMAIN runs \subseteq DOMAIN runs'
      /\ n \in DOMAIN runs' /\ n \in 0..Len(runs')
  BY <1>5
<1>7. cache' \in [Hosts -> [MutatingIds -> 0..Len(runs')]]
  <2>1. cache \in [Hosts -> [MutatingIds -> 0..Len(runs')]]
    <3>1. cache \in [Hosts -> [MutatingIds -> 0..Len(runs)]]
      BY <1>1 DEF TypeOK
    <3> QED
      BY <1>6, <3>1
  <2>2. CASE id \notin MutatingIds
    BY <1>4, <2>1, <2>2
  <2>3. CASE id \in MutatingIds
    <3> DEFINE row == [cache[h] EXCEPT ![id] = n]
    <3>1. row \in [MutatingIds -> 0..Len(runs')]
      BY <1>2, <1>6, <2>1, <2>3
    <3>2. cache' = [cache EXCEPT ![h] = row]
      BY <1>2, <1>4, <2>1, <2>3
    <3> HIDE DEF row
    <3> QED
      BY <1>2, <2>1, <3>1, <3>2
  <2> QED
    BY <2>2, <2>3
<1>8. replies' \subseteq [call : DOMAIN calls, run : DOMAIN runs']
  <2>1. replies \subseteq [call : DOMAIN calls, run : DOMAIN runs]
    BY <1>1 DEF TypeOK
  <2> HIDE DEF n
  <2> QED
    BY <1>1, <1>4, <1>6, <2>1
<1>9. TypeOK'
  <2>1. \A d \in DOMAIN calls' : calls'[d].answer \in 0..Len(runs')
    BY <1>1, <1>4, <1>u, <1>6 DEF TypeOK
  <2>2. /\ calls' \in Seq(Call) /\ Len(calls') <= MaxCalls
        /\ pending' \in [Ids -> 0..Len(calls')] /\ up' \subseteq Hosts
        /\ wire' \subseteq DOMAIN calls' /\ forgotten' \subseteq DOMAIN runs'
    BY <1>1, <1>4, <1>u, <1>6 DEF TypeOK
  <2> QED
    BY <1>u, <1>5, <1>7, <1>8, <2>1, <2>2 DEF TypeOK
<1>10. WaiterPerCall'
  BY <1>1, <1>u DEF WaiterPerCall
<1>11. AnswerFromOwnHost'
  <2>1. \A d \in DOMAIN calls : calls[d].answer # 0 => calls[d].answer \in DOMAIN runs
    BY <1>1, <1>5 DEF TypeOK
  <2> QED
    BY <1>1, <1>u, <1>5, <2>1 DEF AnswerFromOwnHost
<1> QED
  BY <1>9, <1>10, <1>11 DEF IInv

LEMMA NextInv == IInv /\ [Next]_vars => IInv'
<1> SUFFICES ASSUME IInv, [Next]_vars PROVE IInv'
  OBVIOUS
<1>0. TypeOK /\ {"refused", "inuse", "unsent"} \subseteq Failed
  BY DEF IInv, Failed, States
<1>1. ASSUME NEW id \in Ids, NEW h \in Hosts,
             RefuseUnsigned(id, h) \/ RejectInUse(id, h) \/ RejectUnsent(id, h)
      PROVE  IInv'
  BY <1>0, <1>1, TurnedAway DEF RefuseUnsigned, RejectInUse, RejectUnsent
<1>2. ASSUME NEW m \in replies, DropLateReply(m) \/ IgnoreOtherHost(m) PROVE IInv'
  BY <1>0, <1>2, QuietStep DEF DropLateReply, IgnoreOtherHost, coordVars, hostVars, TypeOK
<1>3. ASSUME NEW h \in Hosts, Connect(h) \/ Disconnect(h) PROVE IInv'
  BY <1>0, <1>3, QuietStep DEF Connect, Disconnect, coordVars, hostVars, TypeOK
<1>4. CASE UNCHANGED vars
  BY <1>0, <1>4, QuietStep DEF vars, TypeOK
<1> QED
  BY <1>1, <1>2, <1>3, <1>4, SendStep, TimeOutStep, TakeReplyStep, RedeployStep,
     HandleReplayStep, HandleRunStep, ForgetStep, RestartStep DEF Next

LEMMA Invariance == Spec => []IInv
  BY InitInv, NextInv, PTL DEF Spec

\* The variables of the exchange keep to their types.
THEOREM TypeCorrect == Spec => []TypeOK
  BY Invariance, PTL DEF IInv

\* No waiter is lost under another, and no entry is left without its waiter.
THEOREM NoWaiterClobbered == Spec => []WaiterPerCall
  BY Invariance, PTL DEF IInv

\* An answered call holds a run of its own id on the host it was sent to.
THEOREM AnsweredByOwnHost == Spec => []AnswerFromOwnHost
  BY Invariance, PTL DEF IInv

---------------------------------------------------------------------------
(* A retry gets the original outcome *)

\* The latest run of a mutating id on a host is the one its cache names, and
\* whatever ran before it there was let go first.
Remembered ==
    /\ \A r \in DOMAIN runs : runs[r].id \in MutatingIds =>
          cache[runs[r].host][runs[r].id] = r \/ r \in forgotten
    /\ \A r, s \in DOMAIN runs :
          (r < s /\ runs[r] = runs[s] /\ runs[r].id \in MutatingIds) => r \in forgotten

\* A new run of a mutating id is remembered, and the cache held none before it.
LEMMA RunRemembered ==
    ASSUME TypeOK, Remembered, NEW c \in wire, HandleRun(c)
    PROVE  Remembered'
<1> DEFINE id == calls[c].id
           h  == calls[c].host
           n  == Len(runs) + 1
           e  == [host |-> h, id |-> id]
<1>1. id \in Ids /\ h \in Hosts /\ runs \in Seq(Run)
  BY CallFacts DEF TypeOK
<1>2. e \in Run /\ e.host = h /\ e.id = id
  BY <1>1 DEF Run
<1>3. /\ id \in MutatingIds => cache[h][id] = 0
      /\ runs' = Append(runs, e) /\ forgotten' = forgotten
      /\ cache' = IF id \in MutatingIds THEN [cache EXCEPT ![h][id] = n] ELSE cache
  BY DEF HandleRun
<1> HIDE DEF e, id, h
<1>4. /\ DOMAIN runs = 1..Len(runs) /\ DOMAIN runs' = 1..n /\ Len(runs) \in Nat
      /\ \A r \in DOMAIN runs : runs'[r] = runs[r]
      /\ runs'[n] = e
  BY <1>1, <1>2, <1>3, AppendFacts
<1>5. \A r \in DOMAIN runs : runs[r].host \in Hosts /\ r # 0
  BY CallFacts
<1>6. /\ id \in MutatingIds => cache'[h][id] = n
      /\ \A g \in Hosts, i \in MutatingIds : (g # h \/ i # id) => cache'[g][i] = cache[g][i]
  <2>1. cache \in [Hosts -> [MutatingIds -> 0..Len(runs)]]
    BY DEF TypeOK
  <2>2. CASE id \notin MutatingIds
    BY <1>3, <2>2
  <2>3. CASE id \in MutatingIds
    <3>1. cache' = [cache EXCEPT ![h][id] = n]
      BY <1>3, <2>3
    <3> QED
      BY <1>1, <2>1, <2>3, <3>1
  <2> QED
    BY <2>2, <2>3
<1>7. \A r \in DOMAIN runs : (runs[r] = e /\ id \in MutatingIds) => r \in forgotten
  BY <1>2, <1>3, <1>5 DEF Remembered
<1>8. ASSUME NEW r \in DOMAIN runs', runs'[r].id \in MutatingIds
      PROVE  cache'[runs'[r].host][runs'[r].id] = r \/ r \in forgotten'
  <2>1. CASE r = n
    BY <1>2, <1>4, <1>6, <1>8, <2>1
  <2>2. CASE r # n
    <3>1. r \in DOMAIN runs /\ runs'[r] = runs[r]
      BY <1>4, <2>2
    <3>2. CASE runs[r].host = h /\ runs[r].id = id
      <4>1. id \in MutatingIds
        BY <1>8, <3>1, <3>2
      <4> QED
        BY <1>3, <1>5, <3>1, <3>2, <4>1 DEF Remembered
    <3>3. CASE runs[r].host # h \/ runs[r].id # id
      BY <1>3, <1>5, <1>6, <1>8, <3>1, <3>3 DEF Remembered
    <3> QED
      BY <3>2, <3>3
  <2> QED
    BY <2>1, <2>2
<1>9. ASSUME NEW r \in DOMAIN runs', NEW s \in DOMAIN runs',
             r < s, runs'[r] = runs'[s], runs'[r].id \in MutatingIds
      PROVE  r \in forgotten'
  <2>1. r \in DOMAIN runs /\ runs'[r] = runs[r]
    BY <1>4, <1>9
  <2>2. CASE s = n
    BY <1>2, <1>3, <1>4, <1>7, <1>9, <2>1, <2>2
  <2>3. CASE s # n
    <3>1. s \in DOMAIN runs /\ runs'[s] = runs[s]
      BY <1>4, <2>3
    <3> QED
      BY <1>3, <1>9, <2>1, <3>1 DEF Remembered
  <2> QED
    BY <2>2, <2>3
<1> QED
  BY <1>8, <1>9 DEF Remembered

\* What a cache lets go it is known to have let go.
LEMMA LetGoRemembered ==
    ASSUME TypeOK, Remembered,
           (\E h \in Hosts, id \in MutatingIds : Forget(h, id))
              \/ (\E h \in Hosts : RestartSidecar(h))
    PROVE  Remembered'
<1>1. /\ \A r \in DOMAIN runs : runs[r].host \in Hosts /\ r # 0
      /\ cache \in [Hosts -> [MutatingIds -> 0..Len(runs)]]
  BY CallFacts DEF TypeOK
<1>2. runs' = runs /\ forgotten \subseteq forgotten'
  BY DEF Forget, RestartSidecar
<1>3. ASSUME NEW g \in Hosts, NEW i \in MutatingIds, cache'[g][i] # cache[g][i]
      PROVE  cache[g][i] = 0 \/ cache[g][i] \in forgotten'
  <2>1. ASSUME NEW h \in Hosts, NEW id \in MutatingIds, Forget(h, id)
        PROVE  cache[g][i] \in forgotten'
    <3>1. cache' = [cache EXCEPT ![h][id] = 0] /\ cache[h][id] \in forgotten'
      BY <2>1 DEF Forget
    <3>2. g = h /\ i = id
      BY <1>1, <1>3, <3>1
    <3> QED
      BY <3>1, <3>2
  <2>2. ASSUME NEW h \in Hosts, RestartSidecar(h)
        PROVE  cache[g][i] = 0 \/ cache[g][i] \in forgotten'
    <3>1. /\ cache' = [cache EXCEPT ![h] = [id \in MutatingIds |-> 0]]
          /\ \A id \in MutatingIds : cache[h][id] # 0 => cache[h][id] \in forgotten'
      BY <2>2 DEF RestartSidecar
    <3>2. g = h
      BY <1>1, <1>3, <3>1
    <3> QED
      BY <3>1, <3>2
  <2> QED
    BY <2>1, <2>2
<1> QED
  BY <1>1, <1>2, <1>3 DEF Remembered

LEMMA RememberedInvariant == Spec => []Remembered
<1>1. Init => Remembered
  BY DEF Init, Remembered
<1>2. IInv /\ Remembered /\ [Next]_vars => Remembered'
  <2> SUFFICES ASSUME TypeOK, Remembered, [Next]_vars PROVE Remembered'
    BY DEF IInv
  <2>1. CASE UNCHANGED hostVars
    BY <2>1 DEF hostVars, Remembered
  <2>2. CASE \E c \in wire : HandleRun(c)
    BY <2>2, RunRemembered
  <2>3. CASE \/ \E h \in Hosts, id \in MutatingIds : Forget(h, id)
             \/ \E h \in Hosts : RestartSidecar(h)
    BY <2>3, LetGoRemembered
  <2> QED
    BY <2>1, <2>2, <2>3 DEF Next, vars, hostVars, RefuseUnsigned, RejectInUse,
       RejectUnsent, Send, TimeOut, DropLateReply, IgnoreOtherHost, TakeReply,
       Connect, Disconnect, Redeploy, HandleReplay
<1> QED
  BY <1>1, <1>2, Invariance, PTL DEF Spec

\* Two answers of one host under one mutating id are the same run, unless its
\* cache let the earlier go: from which run an answer is (AnswerFromOwnHost)
\* and what a host still remembers of its runs (Remembered).
THEOREM RetryIsAnsweredFromMemory == Spec => []RetryGetsOriginal
<1>1. IInv /\ Remembered => RetryGetsOriginal
  <2> SUFFICES ASSUME IInv, Remembered,
                      NEW c \in DOMAIN calls, NEW d \in DOMAIN calls,
                      calls[c].state = "answered", calls[d].state = "answered",
                      calls[c].id = calls[d].id, calls[c].host = calls[d].host,
                      calls[c].id \in MutatingIds,
                      calls[c].answer < calls[d].answer
               PROVE  calls[c].answer \in forgotten
    BY DEF RetryGetsOriginal
  <2>1. /\ calls[c].answer # 0 /\ calls[d].answer # 0
        /\ calls[c].answer \in 0..Len(runs) /\ calls[d].answer \in 0..Len(runs)
        /\ runs[calls[c].answer] = [host |-> calls[c].host, id |-> calls[c].id]
        /\ runs[calls[d].answer] = [host |-> calls[c].host, id |-> calls[c].id]
    BY DEF IInv, TypeOK, AnswerFromOwnHost
  <2>2. calls[c].answer \in DOMAIN runs /\ calls[d].answer \in DOMAIN runs
    BY <2>1, CallFacts DEF IInv
  <2>3. runs[calls[c].answer].id \in MutatingIds
    BY <2>1
  <2> QED
    BY <2>1, <2>2, <2>3 DEF Remembered
<1> QED
  BY <1>1, Invariance, RememberedInvariant, PTL

---------------------------------------------------------------------------
(* The exchange implements IntentCalls *)

LEMMA ViewFacts ==
    ASSUME TypeOK
    PROVE  /\ CallView \in Seq(Promise!Call) /\ Len(CallView) = Len(calls)
           /\ DOMAIN CallView = DOMAIN calls
           /\ \A c \in DOMAIN calls :
                 /\ CallView[c] = [id |-> calls[c].id, host |-> calls[c].host,
                                   state |-> Outcome(calls[c].state)]
                 /\ CallView[c] \in Promise!Call
<1>1. Len(calls) \in Nat /\ DOMAIN calls = 1..Len(calls)
  BY CallFacts
<1>2. ASSUME NEW c \in DOMAIN calls
      PROVE  [id |-> calls[c].id, host |-> calls[c].host, state |-> Outcome(calls[c].state)]
                \in Promise!Call
  <2>1. calls[c].id \in Ids /\ calls[c].host \in Hosts /\ calls[c].state \in States
    BY CallFacts
  <2>2. Outcome(calls[c].state) \in {"waiting", "answered", "failed"}
    BY <2>1 DEF Outcome, Failed
  <2> QED
    BY <2>1, <2>2 DEF Promise!Call
<1> QED
  BY <1>1, <1>2 DEF CallView

\* A new call of the exchange is a new call of the promise.
LEMMA ViewOpens ==
    ASSUME TypeOK, TypeOK', NEW id \in Ids, NEW h \in Hosts, NEW state \in States,
           Len(calls) < MaxCalls, calls' = NewCall(id, h, state), UNCHANGED runs,
           Outcome(state) \in {"waiting", "failed"}
    PROVE  Promise!Next
<1> DEFINE e == [id |-> id, host |-> h, state |-> Outcome(state)]
           n == Len(calls) + 1
<1>1. /\ Len(calls') = n /\ DOMAIN calls' = 1..n
      /\ \A c \in DOMAIN calls : calls'[c] = calls[c]
      /\ calls'[n] = [id |-> id, host |-> h, state |-> state, answer |-> 0]
  BY NewCallFacts
<1>2. /\ CallView \in Seq(Promise!Call) /\ Len(CallView) = Len(calls)
      /\ DOMAIN CallView = 1..Len(calls) /\ DOMAIN calls = 1..Len(calls) /\ Len(calls) \in Nat
      /\ e \in Promise!Call
  BY ViewFacts, CallFacts DEF Promise!Call
<1>3. \A c \in 1..n : CallView'[c] = Append(CallView, e)[c]
  <2>1. CallView'[n] = e
    BY <1>1, <1>2 DEF CallView
  <2>2. ASSUME NEW c \in 1..Len(calls) PROVE CallView'[c] = CallView[c]
    BY <1>1, <1>2 DEF CallView
  <2> HIDE DEF e
  <2>3. Append(CallView, e)[n] = e
        /\ \A c \in 1..Len(calls) : Append(CallView, e)[c] = CallView[c]
    BY <1>2, AppendFacts
  <2> QED
    BY <1>2, <2>1, <2>2, <2>3
<1>4. CallView' = Append(CallView, e)
  <2>1. DOMAIN CallView' = 1..n /\ CallView' = [c \in 1..n |-> CallView'[c]]
    BY <1>1 DEF CallView
  <2> HIDE DEF e
  <2>2. DOMAIN Append(CallView, e) = 1..n /\ Append(CallView, e) \in Seq(Promise!Call)
    BY <1>2, AppendFacts
  <2>3. Append(CallView, e) = [c \in 1..n |-> Append(CallView, e)[c]]
    <3>1. Append(CallView, e) \in [1..Len(Append(CallView, e)) -> Promise!Call]
      BY <2>2, LenProperties
    <3> QED
      BY <2>2, <3>1
  <2> QED
    BY <1>3, <2>1, <2>3
<1>5. RanView' = RanView
  BY DEF RanView
<1> QED
  BY <1>4, <1>5 DEF Promise!Next, Promise!Open

\* Calls that fail together fail together.
LEMMA ViewFails ==
    ASSUME TypeOK, NEW C \in SUBSET DOMAIN calls, UNCHANGED runs,
           DOMAIN calls' = DOMAIN calls,
           \A c \in C : /\ calls[c].state = "waiting"
                        /\ calls'[c].id = calls[c].id /\ calls'[c].host = calls[c].host
                        /\ Outcome(calls'[c].state) = "failed",
           \A c \in DOMAIN calls \ C : calls'[c] = calls[c]
    PROVE  Promise!Next
<1>1. DOMAIN CallView = DOMAIN calls /\ DOMAIN CallView' = DOMAIN calls
  BY DEF CallView
<1>2. ASSUME NEW c \in C
      PROVE  /\ CallView[c].state = "waiting"
             /\ CallView'[c] = [CallView[c] EXCEPT !.state = "failed"]
  <2>1. CallView[c] = [id |-> calls[c].id, host |-> calls[c].host, state |-> "waiting"]
    BY ViewFacts DEF Outcome, Failed
  <2>2. CallView'[c] = [id |-> calls[c].id, host |-> calls[c].host, state |-> "failed"]
    BY DEF CallView
  <2> QED
    BY <2>1, <2>2
<1>3. \A c \in DOMAIN calls \ C : CallView'[c] = CallView[c]
  BY DEF CallView
<1>4. CallView' = [c \in DOMAIN CallView |->
          IF c \in C THEN [CallView[c] EXCEPT !.state = "failed"] ELSE CallView[c]]
  <2>1. CallView' = [c \in DOMAIN calls |-> CallView'[c]]
    BY <1>1 DEF CallView
  <2>2. \A c \in DOMAIN calls : CallView'[c] =
          (IF c \in C THEN [CallView[c] EXCEPT !.state = "failed"] ELSE CallView[c])
    BY <1>2, <1>3
  <2> QED
    BY <1>1, <2>1, <2>2
<1>5. RanView' = RanView
  BY DEF RanView
<1>6. Promise!Fail(C)
  BY <1>2, <1>4, <1>5 DEF Promise!Fail
<1> QED
  BY <1>1, <1>6 DEF Promise!Next

LEMMA ViewStutters ==
    ASSUME UNCHANGED <<calls, runs>>
    PROVE  UNCHANGED Promise!vars
  BY DEF Promise!vars, CallView, RanView

LEMMA ViewAnswers ==
    ASSUME IInv, NEW m \in replies, TakeReply(m)
    PROVE  Promise!Next
<1> DEFINE id == runs[m.run].id
           c  == pending[id]
<1>1. TypeOK /\ m.run \in DOMAIN runs /\ id \in Ids /\ runs[m.run] \in Run
  BY CallFacts DEF IInv
<1>2. c \in DOMAIN calls /\ calls[c].id = id /\ calls[c].host = runs[m.run].host
      /\ calls[c].state = "waiting"
  BY <1>1, CallFacts DEF IInv, TakeReply, WaiterPerCall
<1>3. UNCHANGED runs /\ calls' = [calls EXCEPT ![c].state = "answered", ![c].answer = m.run]
  BY DEF TakeReply, hostVars
<1> HIDE DEF c
<1>4. <<calls[c].host, calls[c].id>> \in RanView
  BY <1>1, <1>2 DEF RanView
<1>5. DOMAIN CallView = DOMAIN calls
      /\ CallView[c] = [id |-> calls[c].id, host |-> calls[c].host, state |-> "waiting"]
      /\ CallView \in Seq(Promise!Call)
  BY <1>1, <1>2, ViewFacts DEF Outcome, Failed
<1>6. /\ DOMAIN calls' = DOMAIN calls
      /\ \A d \in DOMAIN calls : d # c => calls'[d] = calls[d]
      /\ calls'[c].id = calls[c].id /\ calls'[c].host = calls[c].host
      /\ calls'[c].state = "answered"
  <2>1. calls \in Seq(Call) /\ calls[c] \in Call
    BY <1>1, <1>2, CallFacts DEF TypeOK
  <2> DEFINE q == [calls[c] EXCEPT !.state = "answered"]
             r == [q EXCEPT !.answer = m.run]
  <2>2. calls' = [calls EXCEPT ![c] = r]
    BY <1>2, <1>3, <2>1
  <2>3. q \in Call /\ q.id = calls[c].id /\ q.host = calls[c].host /\ q.state = "answered"
    BY <2>1 DEF Call, States
  <2> HIDE DEF q
  <2>4. r.id = q.id /\ r.host = q.host /\ r.state = q.state
    BY <2>3 DEF Call
  <2> HIDE DEF r
  <2> QED
    BY <1>2, <2>1, <2>2, <2>3, <2>4
<1>7. CallView' = [CallView EXCEPT ![c].state = "answered"]
  <2>1. CallView'[c] = [id |-> calls[c].id, host |-> calls[c].host, state |-> "answered"]
    BY <1>2, <1>6 DEF CallView, Outcome, Failed
  <2>2. \A d \in DOMAIN calls : d # c => CallView'[d] = CallView[d]
    BY <1>6 DEF CallView
  <2>3. CallView' = [d \in DOMAIN calls |-> CallView'[d]]
    BY <1>6 DEF CallView
  <2>4. CallView'[c] = [CallView[c] EXCEPT !.state = "answered"]
    BY <1>5, <2>1
  <2> QED
    BY <1>2, <1>5, <2>2, <2>3, <2>4
<1>8. RanView' = RanView
  BY <1>3 DEF RanView
<1>9. Promise!Answer(c)
  BY <1>4, <1>5, <1>7, <1>8 DEF Promise!Answer
<1> QED
  BY <1>2, <1>5, <1>9 DEF Promise!Next

LEMMA ViewRuns ==
    ASSUME IInv, NEW c \in wire, HandleRun(c)
    PROVE  Promise!Next
<1> DEFINE e == [host |-> calls[c].host, id |-> calls[c].id]
<1>1. TypeOK /\ c \in DOMAIN calls /\ runs \in Seq(Run)
  BY DEF IInv, TypeOK
<1>2. calls[c].id \in Ids /\ calls[c].host \in Hosts /\ e \in Run
      /\ e.host = calls[c].host /\ e.id = calls[c].id
  BY <1>1, CallFacts DEF Run
<1>3. runs' = Append(runs, e) /\ UNCHANGED calls
  BY DEF HandleRun, coordVars
<1> HIDE DEF e
<1>4. /\ DOMAIN runs' = DOMAIN runs \cup {Len(runs) + 1}
      /\ \A r \in DOMAIN runs : runs'[r] = runs[r]
      /\ runs'[Len(runs) + 1] = e
  BY <1>1, <1>2, <1>3, AppendFacts
<1>5. RanView' = RanView \cup {<<calls[c].host, calls[c].id>>}
  BY <1>2, <1>4 DEF RanView
<1>6. CallView' = CallView
  BY <1>3 DEF CallView
<1> QED
  BY <1>2, <1>5, <1>6 DEF Promise!Next, Promise!Run

\* Every step of the exchange is a step of the promise, or changes nothing in it.
LEMMA StepSimulation == IInv /\ IInv' /\ [Next]_vars => [Promise!Next]_(Promise!vars)
<1> SUFFICES ASSUME IInv, IInv', [Next]_vars
             PROVE  Promise!Next \/ UNCHANGED Promise!vars
  OBVIOUS
<1>0. TypeOK /\ TypeOK' /\ {"refused", "inuse", "unsent", "waiting"} \subseteq States
      /\ Outcome("refused") = "failed" /\ Outcome("inuse") = "failed"
      /\ Outcome("unsent") = "failed" /\ Outcome("timedout") = "failed"
      /\ Outcome("cut") = "failed" /\ Outcome("waiting") = "waiting"
  BY DEF IInv, Failed, States, Outcome
<1>1. ASSUME NEW id \in Ids, NEW h \in Hosts,
             RefuseUnsigned(id, h) \/ RejectInUse(id, h) \/ RejectUnsent(id, h) \/ Send(id, h)
      PROVE  Promise!Next
  <2>1. Len(calls) < MaxCalls /\ UNCHANGED runs
    BY <1>1 DEF RefuseUnsigned, RejectInUse, RejectUnsent, Send, hostVars
  <2>2. PICK s \in {"refused", "inuse", "unsent", "waiting"} : calls' = NewCall(id, h, s)
    BY <1>1 DEF RefuseUnsigned, RejectInUse, RejectUnsent, Send
  <2> QED
    BY <1>0, <2>1, <2>2, ViewOpens
<1>2. ASSUME NEW id \in Ids, TimeOut(id) PROVE Promise!Next
  <2> DEFINE c == pending[id]
  <2>1. c \in DOMAIN calls /\ calls[c].state = "waiting" /\ calls[c] \in Call
    BY <1>0, <1>2, CallFacts DEF IInv, TimeOut, WaiterPerCall
  <2>2. calls' = [calls EXCEPT ![c] = [calls[c] EXCEPT !.state = "timedout"]] /\ UNCHANGED runs
    BY <1>0, <1>2, <2>1 DEF TimeOut, TypeOK, hostVars
  <2> HIDE DEF c
  <2> DEFINE e == [calls[c] EXCEPT !.state = "timedout"]
  <2>3. e.id = calls[c].id /\ e.host = calls[c].host /\ e.state = "timedout"
    BY <2>1 DEF Call
  <2> HIDE DEF e
  <2>4. calls \in Seq(Call) /\ calls' = [calls EXCEPT ![c] = e]
    BY <1>0, <2>2 DEF TypeOK, e
  <2>5. DOMAIN calls' = DOMAIN calls /\ calls'[c] = e
        /\ \A d \in DOMAIN calls \ {c} : calls'[d] = calls[d]
    BY <2>1, <2>4
  <2>6. /\ {c} \in SUBSET DOMAIN calls
        /\ \A d \in {c} : /\ calls[d].state = "waiting"
                         /\ calls'[d].id = calls[d].id /\ calls'[d].host = calls[d].host
                         /\ Outcome(calls'[d].state) = "failed"
    BY <1>0, <2>1, <2>3, <2>5
  <2> QED
    BY <1>0, <2>2, <2>5, <2>6, ViewFails
<1>3. CASE Redeploy
  <2> DEFINE C == {c \in DOMAIN calls : calls[c].state = "waiting"}
  <2>1. UNCHANGED runs /\ DOMAIN calls' = DOMAIN calls
        /\ \A c \in DOMAIN calls : calls'[c] =
              IF c \in C THEN [calls[c] EXCEPT !.state = "cut"] ELSE calls[c]
    BY <1>3 DEF Redeploy, hostVars
  <2>2. ASSUME NEW c \in C
        PROVE  /\ calls[c].state = "waiting"
               /\ calls'[c].id = calls[c].id /\ calls'[c].host = calls[c].host
               /\ Outcome(calls'[c].state) = "failed"
    <3>1. calls[c] \in Call /\ calls'[c] = [calls[c] EXCEPT !.state = "cut"]
      BY <1>0, <2>1, CallFacts
    <3>2. [calls[c] EXCEPT !.state = "cut"].id = calls[c].id
          /\ [calls[c] EXCEPT !.state = "cut"].host = calls[c].host
          /\ [calls[c] EXCEPT !.state = "cut"].state = "cut"
      BY <3>1 DEF Call
    <3> QED
      BY <1>0, <3>1, <3>2
  <2>3. C \in SUBSET DOMAIN calls /\ \A c \in DOMAIN calls \ C : calls'[c] = calls[c]
    BY <2>1
  <2> HIDE DEF C
  <2> QED
    BY <1>0, <2>1, <2>2, <2>3, ViewFails
<1>4. ASSUME NEW m \in replies, DropLateReply(m) \/ IgnoreOtherHost(m)
      PROVE  UNCHANGED Promise!vars
  BY <1>4, ViewStutters DEF DropLateReply, IgnoreOtherHost, coordVars, hostVars
<1>5. ASSUME NEW h \in Hosts, Connect(h) \/ Disconnect(h) \/ RestartSidecar(h)
      PROVE  UNCHANGED Promise!vars
  BY <1>5, ViewStutters DEF Connect, Disconnect, RestartSidecar, coordVars, hostVars
<1>6. ASSUME NEW c \in wire, HandleReplay(c) PROVE UNCHANGED Promise!vars
  BY <1>6, ViewStutters DEF HandleReplay, coordVars, hostVars
<1>7. ASSUME NEW h \in Hosts, NEW id \in MutatingIds, Forget(h, id)
      PROVE  UNCHANGED Promise!vars
  BY <1>7, ViewStutters DEF Forget, coordVars
<1>8. CASE UNCHANGED vars
  BY <1>8, ViewStutters DEF vars
<1> QED
  BY <1>1, <1>2, <1>3, <1>4, <1>5, <1>6, <1>7, <1>8, ViewAnswers, ViewRuns DEF Next

LEMMA InitSimulation == Init => Promise!Init
  BY DEF Init, Promise!Init, CallView, RanView

\* The exchange of intents, with its sockets, timers, retries and restarts,
\* keeps the promise of IntentCalls: whoever sends an intent is answered at
\* most once, and only with what the host it was sent to did under its id.
THEOREM ExchangeKeepsPromise == Spec => KeepsPromise
  BY Invariance, StepSimulation, InitSimulation, PTL DEF Spec, KeepsPromise, Promise!Spec
=============================================================================
