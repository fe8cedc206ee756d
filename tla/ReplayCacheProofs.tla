------------------------- MODULE ReplayCacheProofs -------------------------
(***************************************************************************)
(* What the sidecar's memory of mutating intents guarantees, for every set *)
(* of ids, every bound and every length of behaviour.                      *)
(*                                                                         *)
(* The inductive invariant says why a run that is no longer in the cache   *)
(* cannot matter: Forgotten.  It left either because it was past its time, *)
(* and time only grows, or because #remember evicted it, and then at least *)
(* ReplayMax newer runs were in the cache, which is a counting argument    *)
(* about a set of run numbers (EvictedIsFarBack).                          *)
(*                                                                         *)
(* That the cache has one entry per id and no more than ReplayMax is kept  *)
(* by the two together that a run does: it drops the expired entry of its  *)
(* own id first, and lets the oldest of those left go.                     *)
(***************************************************************************)
EXTENDS ReplayCache, FiniteSetTheorems, TLAPS

(* The parts of the inductive invariant *)

\* A run started no later than now, and no earlier than its envelope allowed.
RunTimes ==
    \A r \in DOMAIN runs :
        /\ runs[r].at <= now
        /\ MaxSkew > 0 => runs[r].stamp - MaxSkew <= runs[r].at

\* A delivery whose check is still out was fresh when it came in, and the
\* check has not been out for longer than MaxCheck.
CheckTimes ==
    \A f \in DOMAIN frames :
        frames[f].phase = "checking" =>
            /\ frames[f].run = 0
            /\ Fresh(frames[f].stamp, frames[f].at)
            /\ frames[f].at <= now
            /\ now <= frames[f].at + MaxCheck

\* Why a run is not in the cache.
Forgotten ==
    \A r \in DOMAIN runs \ replay :
        now - runs[r].at > ReplayTTL \/ Len(runs) - r >= ReplayMax

\* What a delivery that was given a run's promise can be doing.
OnRun ==
    \A f \in DOMAIN frames :
        frames[f].run # 0 => frames[f].phase \in {"running", "waiting", "answered"}

IInv ==
    /\ TypeOK
    /\ RunTimes
    /\ CheckTimes
    /\ Forgotten
    /\ OnRun
    /\ ReplyIsOwnRun
    /\ NoRerunWhileRemembered

---------------------------------------------------------------------------
(* Lemmas *)

\* An entry #remember evicts is at least ReplayMax runs behind the newest:
\* every entry that stays is a newer run, and more than ReplayMax were there.
LEMMA EvictedIsFarBack ==
    ASSUME NEW n \in Nat, NEW S, S \subseteq 1..n,
           NEW r \in S, r \notin Evict(S)
    PROVE  n - r >= ReplayMax
<1>1. IsFiniteSet(S) /\ Cardinality(S) \in Nat
  <2>1. IsFiniteSet(1..n)
    BY FS_Interval
  <2>2. IsFiniteSet(S)
    BY <2>1, FS_Subset
  <2>3. QED
    BY <2>2, FS_CardinalityType
<1>2. Cardinality(S) > ReplayMax /\ \A s \in S : ~(s < r)
  BY DEF Evict
<1>3. S \subseteq r..n
  BY <1>2
<1>4. Cardinality(r..n) = n - r + 1 /\ IsFiniteSet(r..n)
  BY FS_Interval
<1>5. Cardinality(S) <= n - r + 1
  <2>1. Cardinality(S) <= Cardinality(r..n)
    BY <1>3, <1>4, FS_Subset, Zenon
  <2> QED
    BY <2>1, <1>4
<1>6. QED
  BY <1>1, <1>2, <1>5, WindowAssumption

LEMMA EvictKeepsEntries == \A S : Evict(S) \subseteq S
  BY DEF Evict

\* A set of run numbers that is not empty has a first one: the least element
\* of a set of naturals, without induction of our own.
LEMMA FirstRun ==
    ASSUME NEW S, S \subseteq Nat, S # {}
    PROVE  \E r \in S : \A s \in S : ~(s < r)
<1>1. PICK r \in S : \A s \in S : ~(<<s, r>> \in OpToRel(<, Nat))
  BY NatLessThanWellFounded, WFMin
<1>2. \A s \in S : <<s, r>> \in Nat \X Nat
  OBVIOUS
<1>3. QED
  BY <1>1, <1>2 DEF OpToRel

\* #remember leaves no more than ReplayMax entries of a Map that held at most
\* one more: past the limit the oldest entry goes.
LEMMA EvictBoundsEntries ==
    ASSUME NEW n \in Nat, NEW S, S \subseteq 1..n,
           Cardinality(S) <= ReplayMax + 1
    PROVE  Cardinality(Evict(S)) <= ReplayMax
<1>1. IsFiniteSet(S) /\ Cardinality(S) \in Nat
  <2>1. IsFiniteSet(1..n)
    BY FS_Interval
  <2>2. IsFiniteSet(S)
    BY <2>1, FS_Subset
  <2>3. QED
    BY <2>2, FS_CardinalityType
<1>2. CASE Cardinality(S) <= ReplayMax
  BY <1>1, <1>2, WindowAssumption DEF Evict
<1>3. CASE Cardinality(S) > ReplayMax
  <2>1. S # {} /\ S \subseteq Nat
    BY <1>3, FS_EmptySet, WindowAssumption
  <2>2. PICK r \in S : \A s \in S : ~(s < r)
    BY <2>1, FirstRun
  <2>3. Evict(S) \subseteq S \ {r}
    BY <1>3, <2>2 DEF Evict
  <2>4. IsFiniteSet(S \ {r}) /\ Cardinality(S \ {r}) = Cardinality(S) - 1
    BY <1>1, FS_RemoveElement
  <2>5. IsFiniteSet(Evict(S)) /\ Cardinality(Evict(S)) <= Cardinality(S \ {r})
    BY <2>3, <2>4, FS_Subset
  <2>6. Cardinality(Evict(S)) \in Nat
    BY <2>5, FS_CardinalityType
  <2>7. QED
    BY <1>1, <2>4, <2>5, <2>6, WindowAssumption
<1>4. QED
  BY <1>1, <1>2, <1>3, WindowAssumption

\* Appending keeps what was there, and puts the new element last.
LEMMA AppendFacts ==
    ASSUME NEW T, NEW s \in Seq(T), NEW e \in T
    PROVE  /\ Append(s, e) \in Seq(T)
           /\ Len(Append(s, e)) = Len(s) + 1
           /\ DOMAIN Append(s, e) = 1..(Len(s) + 1)
           /\ DOMAIN s = 1..Len(s)
           /\ \A i \in 1..Len(s) : Append(s, e)[i] = s[i]
           /\ Append(s, e)[Len(s) + 1] = e
  OBVIOUS

\* Replacing one element keeps a sequence's type and length.
LEMMA ReplaceFacts ==
    ASSUME NEW T, NEW s \in Seq(T), NEW i \in DOMAIN s, NEW e \in T
    PROVE  [s EXCEPT ![i] = e] \in Seq(T) /\ Len([s EXCEPT ![i] = e]) = Len(s)
  OBVIOUS

\* The types a step needs, element by element.
LEMMA ElementTypes ==
    ASSUME TypeOK
    PROVE  /\ \A f \in DOMAIN frames :
                 /\ frames[f] \in Frame
                 /\ frames[f].stamp \in Stamps /\ frames[f].stamp \in Int
                 /\ frames[f].at \in 0..MaxClock /\ frames[f].at \in Nat
           /\ \A r \in DOMAIN runs :
                 /\ runs[r] \in Run
                 /\ runs[r].at \in 0..MaxClock /\ runs[r].at \in Nat
<1>1. ASSUME NEW f \in DOMAIN frames
      PROVE  /\ frames[f] \in Frame
             /\ frames[f].stamp \in Stamps /\ frames[f].stamp \in Int
             /\ frames[f].at \in 0..MaxClock /\ frames[f].at \in Nat
  <2>1. frames[f] \in Frame
    BY DEF TypeOK
  <2>2. frames[f].stamp \in Stamps /\ frames[f].at \in 0..MaxClock
    BY <2>1 DEF Frame
  <2>3. frames[f].stamp \in Int
    BY <2>2, StampsAssumption
  <2>4. frames[f].at \in Nat
    BY <2>2, WindowAssumption
  <2>5. QED
    BY <2>1, <2>2, <2>3, <2>4
<1>2. ASSUME NEW r \in DOMAIN runs
      PROVE  /\ runs[r] \in Run
             /\ runs[r].at \in 0..MaxClock /\ runs[r].at \in Nat
  <2>1. runs[r] \in Run
    BY DEF TypeOK
  <2>2. QED
    BY <2>1, WindowAssumption DEF Run
<1>3. QED
  BY <1>1, <1>2

---------------------------------------------------------------------------
LEMMA InitInv == Init => IInv
<1> SUFFICES ASSUME Init PROVE IInv
  OBVIOUS
<1>1. TypeOK
  BY WindowAssumption DEF Init, TypeOK
<1>2. DOMAIN frames = {} /\ DOMAIN runs = {}
  BY DEF Init
<1>3. QED
  BY <1>1, <1>2 DEF Init, IInv, RunTimes, CheckTimes, Forgotten, OnRun,
     ReplyIsOwnRun, NoRerunWhileRemembered

---------------------------------------------------------------------------
(* One lemma per action: the inductive invariant survives it *)

\* A delivery changes only `frames`, by a frame that has no run yet.
LEMMA ReceiveInv ==
    ASSUME IInv, NEW id \in Ids, NEW stamp \in Stamps, Receive(id, stamp)
    PROVE  IInv'
<1> USE WindowAssumption
<1> DEFINE e == [id |-> id, stamp |-> stamp, at |-> now, run |-> 0,
                 phase |-> IF Fresh(stamp, now) THEN "checking" ELSE "refused"]
<1>1. e \in Frame
  BY DEF IInv, TypeOK, Frame, Phases
<1>2. /\ frames' \in Seq(Frame)
      /\ Len(frames') = Len(frames) + 1
      /\ DOMAIN frames' = 1..(Len(frames) + 1)
      /\ DOMAIN frames = 1..Len(frames)
      /\ \A f \in DOMAIN frames : frames'[f] = frames[f]
      /\ frames'[Len(frames) + 1] = e
  BY <1>1, AppendFacts DEF IInv, TypeOK, Receive
<1>3. UNCHANGED <<now, runs, replay>> /\ Len(frames) < MaxFrames /\ Len(frames) \in Nat
  BY DEF Receive, IInv, TypeOK
<1>4. TypeOK'
  <2>1. frames' \in Seq(Frame) /\ Len(frames') <= MaxFrames
    BY <1>2, <1>3
  <2>2. TypeOK /\ Len(runs) \in Nat
    BY DEF IInv, TypeOK
  <2>3. \A f \in DOMAIN frames' : frames'[f].run \in 0..Len(runs)
    <3>1. e.run = 0
      OBVIOUS
    <3> HIDE DEF e
    <3> QED
      BY <1>2, <2>2, <3>1 DEF TypeOK
  <2> HIDE DEF e
  <2> QED
    BY <1>3, <2>1, <2>2, <2>3 DEF TypeOK
<1>5. CheckTimes'
  <2> SUFFICES ASSUME NEW f \in DOMAIN frames', frames'[f].phase = "checking"
               PROVE  /\ frames'[f].run = 0
                      /\ Fresh(frames'[f].stamp, frames'[f].at)
                      /\ frames'[f].at <= now
                      /\ now <= frames'[f].at + MaxCheck
    BY <1>3 DEF CheckTimes, Fresh
  <2>1. CASE f \in DOMAIN frames
    BY <2>1, <1>2 DEF IInv, CheckTimes
  <2>2. CASE f = Len(frames) + 1
    BY <2>2, <1>2 DEF IInv, TypeOK
  <2>3. QED
    BY <2>1, <2>2, <1>2
<1>6. OnRun' /\ ReplyIsOwnRun'
  <2> SUFFICES ASSUME NEW f \in DOMAIN frames', frames'[f].run # 0
               PROVE  f \in DOMAIN frames /\ frames'[f] = frames[f]
    BY <1>2, <1>3 DEF IInv, OnRun, ReplyIsOwnRun
  <2>1. f # Len(frames) + 1
    BY <1>2
  <2>2. QED
    BY <2>1, <1>2
<1>7. QED
  BY <1>3, <1>4, <1>5, <1>6 DEF IInv, RunTimes, Forgotten, NoRerunWhileRemembered

\* A step that only moves one delivery on, to phase p with run r: the run is
\* of its own id, and the delivery is no longer checking.
LEMMA MoveFrameInv ==
    ASSUME IInv, NEW f \in DOMAIN frames,
           NEW p \in Phases \ {"checking"}, NEW r \in 0..Len(runs),
           UNCHANGED <<now, runs, replay>>,
           frames' = [frames EXCEPT ![f].phase = p, ![f].run = r],
           r # 0 => /\ runs[r].id = frames[f].id
                    /\ runs[r].done <=> p = "answered"
                    /\ p \in {"running", "waiting", "answered"}
    PROVE  IInv'
<1>1. /\ frames \in Seq(Frame) /\ frames[f] \in Frame
      /\ r \in Nat /\ Len(runs) \in Nat
  BY DEF IInv, TypeOK
<1>2. [frames[f] EXCEPT !.phase = p, !.run = r] \in Frame
  BY <1>1 DEF Frame
<1>3. /\ DOMAIN frames' = DOMAIN frames
      /\ \A g \in DOMAIN frames : g # f => frames'[g] = frames[g]
      /\ frames'[f] = [frames[f] EXCEPT !.phase = p, !.run = r]
  BY <1>1
<1>4. frames'[f].phase = p /\ frames'[f].run = r /\ frames'[f].id = frames[f].id
  BY <1>1, <1>3 DEF Frame
<1>5. frames' \in Seq(Frame) /\ Len(frames') = Len(frames)
  <2>1. frames' = [frames EXCEPT ![f] = [frames[f] EXCEPT !.phase = p, !.run = r]]
    BY <1>1
  <2> DEFINE e == [frames[f] EXCEPT !.phase = p, !.run = r]
  <2> HIDE DEF e
  <2>2. frames' = [frames EXCEPT ![f] = e] /\ e \in Frame
    BY <2>1, <1>2 DEF e
  <2>3. frames \in Seq(Frame) /\ f \in DOMAIN frames /\ e \in Frame
    BY <2>2, <1>1
  <2>4. /\ [frames EXCEPT ![f] = e] \in Seq(Frame)
        /\ Len([frames EXCEPT ![f] = e]) = Len(frames)
    BY ONLY <2>3, ReplaceFacts
  <2>5. QED
    BY <2>2, <2>4
<1>6. TypeOK'
  BY <1>3, <1>4, <1>5 DEF IInv, TypeOK
<1>7. CheckTimes'
  BY <1>3, <1>4 DEF IInv, CheckTimes, Fresh
<1>8. OnRun' /\ ReplyIsOwnRun'
  BY <1>3, <1>4 DEF IInv, OnRun, ReplyIsOwnRun
<1>9. QED
  BY <1>6, <1>7, <1>8 DEF IInv, RunTimes, Forgotten, NoRerunWhileRemembered

LEMMA OneFrameInv ==
    ASSUME IInv, NEW f \in DOMAIN frames,
           Refuse(f) \/ RunRead(f) \/ Replay(f) \/ FinishRead(f)
    PROVE  IInv'
<1>1. /\ Len(runs) \in Nat /\ DOMAIN runs = 1..Len(runs)
      /\ frames \in Seq(Frame) /\ frames[f] \in Frame
      /\ 0 \in 0..Len(runs)
  BY DEF IInv, TypeOK
<1>2. frames[f].run = 0 => frames = [frames EXCEPT ![f].run = 0]
  BY <1>1 DEF Frame
<1>3. frames[f].phase = "checking" => frames[f].run = 0
  BY DEF IInv, CheckTimes
<1>4. {"running", "waiting", "answered", "refused"} \subseteq Phases \ {"checking"}
  BY DEF Phases
<1>5. CASE Refuse(f)
  <2>1. frames' = [frames EXCEPT ![f].phase = "refused", ![f].run = 0]
    BY <1>1, <1>2, <1>3, <1>5 DEF Refuse, Frame
  <2>2. QED
    BY <2>1, <1>1, <1>4, <1>5, MoveFrameInv DEF Refuse
<1>6. CASE RunRead(f)
  <2>1. frames' = [frames EXCEPT ![f].phase = "running", ![f].run = 0]
    BY <1>1, <1>2, <1>3, <1>6 DEF RunRead, Frame
  <2>2. QED
    BY <2>1, <1>1, <1>4, <1>6, MoveFrameInv DEF RunRead
<1>7. CASE Replay(f)
  <2>1. PICK r \in Hits(frames[f].id) :
           frames' = [frames EXCEPT
              ![f].phase = IF runs[r].done THEN "answered" ELSE "waiting",
              ![f].run = r]
    BY <1>7 DEF Replay
  <2>2. r \in DOMAIN runs /\ runs[r].id = frames[f].id
    BY DEF Hits, IInv, TypeOK
  <2>3. r \in 0..Len(runs)
    BY <1>1, <2>2
  <2>4. UNCHANGED <<now, runs, replay>>
    BY <1>7 DEF Replay
  <2>5. CASE runs[r].done
    <3>1. frames' = [frames EXCEPT ![f].phase = "answered", ![f].run = r]
      BY <2>1, <2>5
    <3>2. QED
      BY <2>2, <2>3, <2>4, <2>5, <3>1, <1>4, MoveFrameInv
  <2>6. CASE ~runs[r].done
    <3>1. frames' = [frames EXCEPT ![f].phase = "waiting", ![f].run = r]
      BY <2>1, <2>6
    <3>2. QED
      BY <2>2, <2>3, <2>4, <2>6, <3>1, <1>4, MoveFrameInv
  <2>7. QED
    BY <2>5, <2>6
<1>8. CASE FinishRead(f)
  <2>1. frames' = [frames EXCEPT ![f].phase = "answered", ![f].run = 0]
    BY <1>1, <1>2, <1>8 DEF FinishRead, Frame
  <2>2. QED
    BY <2>1, <1>1, <1>4, <1>8, MoveFrameInv DEF FinishRead
<1>9. QED
  BY <1>5, <1>6, <1>7, <1>8

\* Time passing only makes a remembered run older.
LEMMA TickInv ==
    ASSUME IInv, Tick
    PROVE  IInv'
<1> USE WindowAssumption
<1>1. /\ now' = now + 1 /\ now' \in 0..MaxClock /\ now \in 0..MaxClock
      /\ UNCHANGED <<frames, runs, replay>>
      /\ \A f \in DOMAIN frames :
            frames[f].phase = "checking" => now < frames[f].at + MaxCheck
  BY DEF Tick, IInv, TypeOK
<1>2. /\ \A r \in DOMAIN runs : runs[r].at \in Nat
      /\ \A f \in DOMAIN frames : frames[f].at \in Nat
  BY ElementTypes DEF IInv
<1>3. TypeOK'
  BY <1>1 DEF IInv, TypeOK
<1>4. RunTimes'
  BY <1>1, <1>2 DEF IInv, RunTimes
<1>5. CheckTimes'
  BY <1>1, <1>2 DEF IInv, CheckTimes, Fresh
<1>6. Forgotten'
  BY <1>1, <1>2 DEF IInv, Forgotten
<1>7. QED
  BY <1>1, <1>3, <1>4, <1>5, <1>6
     DEF IInv, OnRun, ReplyIsOwnRun, NoRerunWhileRemembered

\* A run that ends answers everybody it was started or kept for.
LEMMA FinishRunInv ==
    ASSUME IInv, NEW r \in DOMAIN runs, FinishRun(r)
    PROVE  IInv'
<1>1. /\ runs \in Seq(Run) /\ runs[r] \in Run
      /\ frames \in Seq(Frame) /\ DOMAIN frames = 1..Len(frames)
      /\ Len(runs) \in Nat /\ DOMAIN runs = 1..Len(runs) /\ r # 0
  BY DEF IInv, TypeOK
<1>2. UNCHANGED <<now, replay>> /\ ~runs[r].done
  BY DEF FinishRun
<1>3. /\ runs' = [runs EXCEPT ![r].done = TRUE]
      /\ DOMAIN runs' = DOMAIN runs
      /\ runs' \in Seq(Run) /\ Len(runs') = Len(runs)
  <2>1. [runs[r] EXCEPT !.done = TRUE] \in Run
    BY <1>1 DEF Run
  <2>2. runs' = [runs EXCEPT ![r].done = TRUE]
    BY DEF FinishRun
  <2>3. QED
    BY <1>1, <2>1, <2>2
<1>4. \A i \in DOMAIN runs : /\ runs'[i].id = runs[i].id
                             /\ runs'[i].stamp = runs[i].stamp
                             /\ runs'[i].at = runs[i].at
                             /\ i # r => runs'[i].done = runs[i].done
  BY <1>1, <1>3 DEF Run
<1>5. runs'[r].done
  BY <1>1, <1>3 DEF Run
<1>6. /\ DOMAIN frames' = DOMAIN frames
      /\ \A f \in DOMAIN frames :
            frames'[f] =
              IF frames[f].run = r /\ frames[f].phase \in {"running", "waiting"}
              THEN [frames[f] EXCEPT !.phase = "answered"] ELSE frames[f]
  BY DEF FinishRun
<1>7. \A f \in DOMAIN frames :
         /\ frames'[f] \in Frame
         /\ frames'[f].run = frames[f].run
         /\ frames'[f].id = frames[f].id
         /\ frames'[f].stamp = frames[f].stamp
         /\ frames'[f].at = frames[f].at
         /\ frames'[f].phase \in {frames[f].phase, "answered"}
         /\ frames[f].run = r => frames'[f].phase = "answered"
         /\ frames[f].run # r => frames'[f].phase = frames[f].phase
  <2> TAKE f \in DOMAIN frames
  <2>1. frames[f] \in Frame
    BY <1>1
  <2>2. frames[f].run = r => frames[f].phase \in {"running", "waiting", "answered"}
    BY <1>1 DEF IInv, OnRun
  <2>3. QED
    BY <1>6, <2>1, <2>2 DEF Frame, Phases
<1>8. frames' \in Seq(Frame) /\ Len(frames') = Len(frames)
  <2>1. frames' = [f \in 1..Len(frames) |-> frames'[f]]
    BY <1>1 DEF FinishRun
  <2>2. Len(frames) \in Nat
    BY <1>1
  <2>3. \A f \in 1..Len(frames) : frames'[f] \in Frame
    BY <1>1, <1>7
  <2>4. QED
    BY <2>1, <2>2, <2>3
<1>9. TypeOK'
  BY <1>2, <1>3, <1>6, <1>7, <1>8 DEF IInv, TypeOK
<1>10. RunTimes' /\ Forgotten' /\ NoRerunWhileRemembered'
  BY <1>2, <1>3, <1>4 DEF IInv, RunTimes, Forgotten, NoRerunWhileRemembered
<1>11. CheckTimes'
  BY <1>2, <1>6, <1>7 DEF IInv, CheckTimes, Fresh
<1>12. OnRun' /\ ReplyIsOwnRun'
  <2> SUFFICES ASSUME NEW f \in DOMAIN frames, frames[f].run # 0
               PROVE  /\ frames'[f].phase \in {"running", "waiting", "answered"}
                      /\ runs'[frames'[f].run].id = frames'[f].id
                      /\ runs'[frames'[f].run].done <=> frames'[f].phase = "answered"
    BY <1>6, <1>7 DEF OnRun, ReplyIsOwnRun
  <2>1. frames[f].run \in DOMAIN runs
    BY <1>1 DEF IInv, TypeOK
  <2>2. /\ frames[f].phase \in {"running", "waiting", "answered"}
        /\ runs[frames[f].run].id = frames[f].id
        /\ runs[frames[f].run].done <=> frames[f].phase = "answered"
    BY DEF IInv, OnRun, ReplyIsOwnRun
  <2>3. CASE frames[f].run = r
    BY <2>1, <2>2, <2>3, <1>4, <1>5, <1>7
  <2>4. CASE frames[f].run # r
    BY <2>1, <2>2, <2>4, <1>4, <1>7
  <2>5. QED
    BY <2>3, <2>4
<1>13. QED
  BY <1>9, <1>10, <1>11, <1>12 DEF IInv

\* Starting a run: nothing the cache still answers for has its id, and what
\* #recall deletes and #remember evicts is forgotten for a reason.
LEMMA RunMutatingInv ==
    ASSUME IInv, NEW f \in DOMAIN frames, RunMutating(f)
    PROVE  IInv'
<1> USE WindowAssumption
<1> DEFINE id == frames[f].id
           n  == Len(runs) + 1
           e  == [id |-> id, stamp |-> frames[f].stamp, at |-> now, done |-> FALSE]
<1>1. /\ frames[f] \in Frame /\ frames \in Seq(Frame) /\ runs \in Seq(Run)
      /\ frames[f].phase = "checking" /\ frames[f].run = 0
      /\ id \in MutatingIds
      /\ now \in 0..MaxClock /\ now' = now
      /\ replay \subseteq DOMAIN runs
  BY DEF IInv, TypeOK, CheckTimes, RunMutating
<1>2. e \in Run
  BY <1>1 DEF Run, Frame
<1>3. /\ runs' = Append(runs, e) /\ runs' \in Seq(Run)
      /\ Len(runs) \in Nat /\ Len(runs') = n
      /\ DOMAIN runs' = 1..n /\ DOMAIN runs = 1..Len(runs)
      /\ \A i \in 1..Len(runs) : runs'[i] = runs[i]
      /\ runs'[n] = e
  <2>1. runs' = Append(runs, e)
    BY DEF RunMutating
  <2>2. QED
    BY <2>1, <1>1, <1>2, AppendFacts
<1>4. /\ DOMAIN frames' = DOMAIN frames
      /\ frames' \in Seq(Frame) /\ Len(frames') = Len(frames)
      /\ \A g \in DOMAIN frames : g # f => frames'[g] = frames[g]
      /\ frames'[f].phase = "running" /\ frames'[f].run = n
      /\ frames'[f].id = id
  <2>1. frames' = [frames EXCEPT ![f].phase = "running", ![f].run = n]
    BY DEF RunMutating
  <2>2. [frames[f] EXCEPT !.phase = "running", !.run = n] \in Frame
    <3>1. n \in Nat /\ "running" \in Phases
      BY <1>3 DEF Phases
    <3>2. frames[f] \in Frame
      BY <1>1
    <3> HIDE DEF n
    <3>3. QED
      BY <3>1, <3>2 DEF Frame
  <2>3. frames'[f] = [frames[f] EXCEPT !.phase = "running", !.run = n]
    BY <1>1, <2>1
  <2>4. frames'[f].phase = "running" /\ frames'[f].run = n /\ frames'[f].id = id
    BY <1>1, <2>3 DEF Frame
  <2>5. /\ DOMAIN frames' = DOMAIN frames
        /\ \A g \in DOMAIN frames : g # f => frames'[g] = frames[g]
    BY <1>1, <2>1
  <2>6. frames' \in Seq(Frame) /\ Len(frames') = Len(frames)
    <3>1. frames' = [frames EXCEPT ![f] = [frames[f] EXCEPT !.phase = "running", !.run = n]]
      BY <1>1, <2>1
    <3>2. QED
      BY <3>1, <1>1, <2>2, ReplaceFacts
  <2>7. QED
    BY <2>4, <2>5, <2>6
<1>5. /\ replay' = Evict((replay \ Hits(id)) \cup {n})
      /\ (replay \ Hits(id)) \cup {n} \subseteq 1..n
      /\ replay' \subseteq 1..n
  BY <1>1, <1>3, EvictKeepsEntries DEF RunMutating
<1>6. TypeOK'
  <2>1. \A g \in DOMAIN frames : frames[g].run \in 0..Len(runs)
    BY DEF IInv, TypeOK
  <2>2. \A g \in DOMAIN frames' : frames'[g].run \in 0..Len(runs')
    BY <2>1, <1>3, <1>4
  <2>3. QED
    BY <1>1, <1>3, <1>4, <1>5, <2>2 DEF IInv, TypeOK
<1>7. \A i \in 1..Len(runs) :
         runs[i].id = id => now - runs[i].at > ReplayTTL \/ Len(runs) - i >= ReplayMax
  <2> SUFFICES ASSUME NEW i \in 1..Len(runs), runs[i].id = id
               PROVE  now - runs[i].at > ReplayTTL \/ Len(runs) - i >= ReplayMax
    OBVIOUS
  <2>1. CASE i \in replay
    BY <2>1 DEF RunMutating, Hits, Expired
  <2>2. CASE i \notin replay
    BY <2>2, <1>3 DEF IInv, Forgotten
  <2>3. QED
    BY <2>1, <2>2
<1>8. Forgotten'
  <2> SUFFICES ASSUME NEW i \in (1..n) \ replay'
               PROVE  now - runs'[i].at > ReplayTTL \/ n - i >= ReplayMax
    BY <1>1, <1>3 DEF Forgotten
  <2>1. CASE i \in (replay \ Hits(id)) \cup {n}
    BY <2>1, <1>3, <1>5, EvictedIsFarBack
  <2>2. CASE i \in Hits(id)
    BY <2>2, <1>1, <1>3 DEF RunMutating, Hits, Expired
  <2>3. CASE i \in 1..Len(runs) /\ i \notin replay
    BY <2>3, <1>3 DEF IInv, Forgotten
  <2>4. QED
    BY <2>1, <2>2, <2>3, <1>3
<1>9. RunTimes'
  <2>1. MaxSkew > 0 => frames[f].stamp - MaxSkew <= now
    <3>1. frames[f].stamp \in Int /\ frames[f].at \in Nat
      BY ElementTypes DEF IInv
    <3>2. Fresh(frames[f].stamp, frames[f].at) /\ frames[f].at <= now
      BY <1>1 DEF IInv, CheckTimes
    <3>3. QED
      BY <1>1, <3>1, <3>2 DEF Fresh
  <2>2. \A i \in 1..Len(runs) : /\ runs[i].at <= now
                                /\ MaxSkew > 0 => runs[i].stamp - MaxSkew <= runs[i].at
    BY <1>3 DEF IInv, RunTimes
  <2>3. \A i \in 1..n : i \in 1..Len(runs) \/ i = n
    BY <1>3
  <2>4. e.at = now /\ e.stamp = frames[f].stamp
    OBVIOUS
  <2>5. now <= now
    BY <1>1
  <2> HIDE DEF e
  <2>6. QED
    BY <1>1, <1>3, <2>1, <2>2, <2>3, <2>4, <2>5 DEF RunTimes
<1>10. CheckTimes'
  BY <1>1, <1>4 DEF IInv, CheckTimes, Fresh
<1>11. OnRun' /\ ReplyIsOwnRun'
  <2> SUFFICES ASSUME NEW g \in DOMAIN frames, frames'[g].run # 0
               PROVE  /\ frames'[g].phase \in {"running", "waiting", "answered"}
                      /\ runs'[frames'[g].run].id = frames'[g].id
                      /\ runs'[frames'[g].run].done <=> frames'[g].phase = "answered"
    BY <1>4 DEF OnRun, ReplyIsOwnRun
  <2>1. CASE g = f
    BY <2>1, <1>3, <1>4
  <2>2. CASE g # f
    <3>1. frames[g].run \in 1..Len(runs)
      BY <2>2, <1>3, <1>4 DEF IInv, TypeOK
    <3>2. QED
      BY <2>2, <3>1, <1>3, <1>4 DEF IInv, OnRun, ReplyIsOwnRun
  <2>3. QED
    BY <2>1, <2>2
<1>12. NoRerunWhileRemembered'
  <2> SUFFICES ASSUME NEW i \in 1..n, NEW j \in 1..n,
                      i < j, runs'[i].id = runs'[j].id
               PROVE  runs'[j].at - runs'[i].at > ReplayTTL \/ j - i > ReplayMax
    BY <1>3 DEF NoRerunWhileRemembered
  <2>1. i \in 1..Len(runs) /\ runs'[i] = runs[i]
    BY <1>3
  <2>2. CASE j = n
    <3>1. runs'[j].at = now /\ runs'[j].id = id
      BY <2>2, <1>3
    <3>2. QED
      BY <2>1, <2>2, <3>1, <1>3, <1>7
  <2>3. CASE j # n
    <3>1. j \in 1..Len(runs) /\ runs'[j] = runs[j]
      BY <2>3, <1>3
    <3>2. QED
      BY <2>1, <3>1, <1>3 DEF IInv, NoRerunWhileRemembered
  <2>4. QED
    BY <2>2, <2>3
<1>13. QED
  BY <1>6, <1>8, <1>9, <1>10, <1>11, <1>12 DEF IInv

---------------------------------------------------------------------------
LEMMA NextInv == IInv /\ [Next]_vars => IInv'
<1> SUFFICES ASSUME IInv, [Next]_vars PROVE IInv'
  OBVIOUS
<1>1. ASSUME NEW id \in Ids, NEW stamp \in Stamps, Receive(id, stamp) PROVE IInv'
  BY <1>1, ReceiveInv
<1>2. ASSUME NEW f \in DOMAIN frames,
             Refuse(f) \/ RunRead(f) \/ Replay(f) \/ FinishRead(f)
      PROVE  IInv'
  BY <1>2, OneFrameInv
<1>3. ASSUME NEW f \in DOMAIN frames, RunMutating(f) PROVE IInv'
  BY <1>3, RunMutatingInv
<1>4. ASSUME NEW r \in DOMAIN runs, FinishRun(r) PROVE IInv'
  BY <1>4, FinishRunInv
<1>5. CASE Tick
  BY <1>5, TickInv
<1>6. CASE UNCHANGED vars
  BY <1>6 DEF vars, IInv, TypeOK, RunTimes, CheckTimes, Fresh, Forgotten, OnRun,
     ReplyIsOwnRun, NoRerunWhileRemembered
<1>7. QED
  BY <1>1, <1>2, <1>3, <1>4, <1>5, <1>6 DEF Next

\* The inductive invariant holds of every behaviour of a box's replay cache: what
\* the theorems below are read off from.
THEOREM Invariance == Spec => []IInv
<1>1. Init => IInv
  BY InitInv
<1>2. IInv /\ [Next]_vars => IInv'
  BY NextInv
<1>3. QED
  BY <1>1, <1>2, PTL DEF Spec

\* handle() keeps its bookkeeping well formed: every remembered run exists,
\* and every delivery names a run that was started.
THEOREM TypeCorrect == Spec => []TypeOK
<1>1. IInv => TypeOK
  BY DEF IInv
<1>2. QED
  BY <1>1, Invariance, PTL

\* Within REPLAY_TTL_MS an id is not run a second time, short of ReplayMax
\* other runs in between: for all ids, any clock and any interleaving of
\* signature checks.
THEOREM RememberedIsNotRerun == Spec => []NoRerunWhileRemembered
<1>1. IInv => NoRerunWhileRemembered
  BY DEF IInv
<1>2. QED
  BY <1>1, Invariance, PTL

\* A delivery is answered with a run of its own id, and by nothing else.
THEOREM AnsweredByOwnRun == Spec => []ReplyIsOwnRun
<1>1. IInv => ReplyIsOwnRun
  BY DEF IInv
<1>2. QED
  BY <1>1, Invariance, PTL

\* The two-sided freshness window and the check, added up.
LEMMA WindowArithmetic ==
    ASSUME 2 * MaxSkew + MaxCheck <= ReplayTTL,
           NEW stamp \in Int, NEW at1 \in Nat, NEW at2 \in Nat, NEW t \in Nat,
           stamp - MaxSkew <= at1, at2 - stamp <= MaxSkew, t <= at2 + MaxCheck
    PROVE  ~(t - at1 > ReplayTTL)
  BY WindowAssumption

\* One envelope does its work once, PROVIDED the cache remembers for as long
\* as the envelope can go on being fresh.  The freshness test is two-sided,
\* so that is twice the skew and the longest signature check, not the skew
\* alone that the sidecar's constructor compares with the TTL.
THEOREM OneRunPerEnvelopeHolds ==
    ASSUME MaxSkew > 0, 2 * MaxSkew + MaxCheck <= ReplayTTL
    PROVE  Spec => []OneRunPerEnvelope
<1> USE WindowAssumption
<1>1. IInv /\ OneRunPerEnvelope /\ [Next]_vars => OneRunPerEnvelope'
  <2> SUFFICES ASSUME IInv, OneRunPerEnvelope, [Next]_vars
               PROVE  OneRunPerEnvelope'
    OBVIOUS
  <2>1. ASSUME NEW f \in DOMAIN frames, RunMutating(f) PROVE OneRunPerEnvelope'
    <3> DEFINE n == Len(runs) + 1
               e == [id |-> frames[f].id, stamp |-> frames[f].stamp,
                     at |-> now, done |-> FALSE]
    <3>1. /\ frames[f].phase = "checking" /\ frames[f].id \in MutatingIds
          /\ \A r \in Hits(frames[f].id) : Expired(r)
          /\ runs' = Append(runs, e)
      BY <2>1 DEF RunMutating
    <3>2. e \in Run /\ runs \in Seq(Run)
      BY <3>1, ElementTypes DEF IInv, TypeOK, Run
    <3>3. /\ Len(runs) \in Nat
          /\ DOMAIN runs' = 1..n /\ DOMAIN runs = 1..Len(runs)
          /\ \A i \in 1..Len(runs) : runs'[i] = runs[i]
          /\ runs'[n] = e
      BY <3>1, <3>2, AppendFacts
    <3>4. /\ frames[f].stamp \in Int /\ frames[f].at \in Nat /\ now \in Nat
          /\ frames[f].stamp - frames[f].at <= MaxSkew
          /\ frames[f].at - frames[f].stamp <= MaxSkew
          /\ now <= frames[f].at + MaxCheck
      BY <3>1, ElementTypes DEF IInv, TypeOK, CheckTimes, Fresh
    <3>5. ASSUME NEW i \in 1..Len(runs),
                 runs[i].id = frames[f].id, runs[i].stamp = frames[f].stamp
          PROVE  Len(runs) - i >= ReplayMax
      <4>1. runs[i].at \in Nat /\ runs[i].stamp - MaxSkew <= runs[i].at
        BY <3>3, ElementTypes DEF IInv, RunTimes
      <4>2. ~(now - runs[i].at > ReplayTTL)
        BY <3>4, <3>5, <4>1, WindowArithmetic
      <4>3. i \notin replay
        BY <3>1, <3>5, <4>2 DEF Hits, Expired
      <4>4. QED
        BY <3>3, <4>2, <4>3 DEF IInv, Forgotten
    <3>6. SUFFICES ASSUME NEW i \in 1..n, NEW j \in 1..n, i < j,
                          runs'[i].id = runs'[j].id, runs'[i].stamp = runs'[j].stamp
                   PROVE  j - i > ReplayMax
      BY <3>3 DEF OneRunPerEnvelope
    <3>7. i \in 1..Len(runs) /\ runs'[i] = runs[i]
      BY <3>3, <3>6
    <3>8. CASE j = n
      <4>1. runs'[j].id = frames[f].id /\ runs'[j].stamp = frames[f].stamp
        BY <3>3, <3>8
      <4>2. QED
        BY <3>3, <3>5, <3>6, <3>7, <3>8, <4>1
    <3>9. CASE j # n
      <4>1. j \in 1..Len(runs) /\ runs'[j] = runs[j]
        BY <3>3, <3>9
      <4>2. QED
        BY <3>3, <3>6, <3>7, <4>1 DEF OneRunPerEnvelope
    <3>10. QED
      BY <3>8, <3>9
  <2>2. ASSUME NEW r \in DOMAIN runs, FinishRun(r) PROVE OneRunPerEnvelope'
    <3>1. runs \in Seq(Run)
      BY DEF IInv, TypeOK
    <3>2. runs' = [runs EXCEPT ![r].done = TRUE]
      BY <2>2 DEF FinishRun
    <3>3. /\ DOMAIN runs' = DOMAIN runs
          /\ \A i \in DOMAIN runs : /\ runs'[i].id = runs[i].id
                                     /\ runs'[i].stamp = runs[i].stamp
      <4>1. \A i \in DOMAIN runs : runs[i] \in Run
        BY <3>1
      <4> QED
        BY <3>1, <3>2, <4>1 DEF Run
    <3>4. QED
      BY <3>3 DEF OneRunPerEnvelope
  <2>3. CASE UNCHANGED runs
    BY <2>3 DEF OneRunPerEnvelope
  <2>4. QED
    BY <2>1, <2>2, <2>3 DEF Next, vars, Receive, Refuse, RunRead, Replay,
       FinishRead, Tick
<1>2. Init => OneRunPerEnvelope
  BY DEF Init, OneRunPerEnvelope
<1>3. QED
  BY <1>1, <1>2, Invariance, PTL DEF Spec

\* The Map holds one entry per id, so a retry has one promise to wait on, and
\* never more than REPLAY_MAX of them: #recall deletes what it will not answer
\* with before #remember writes, and #remember lets the oldest go.
THEOREM CacheIsBounded == Spec => []OneEntryPerId
<1>1. IInv /\ OneEntryPerId /\ [Next]_vars => OneEntryPerId'
  <2> SUFFICES ASSUME IInv, OneEntryPerId, [Next]_vars
               PROVE  OneEntryPerId'
    OBVIOUS
  <2>1. ASSUME NEW f \in DOMAIN frames, RunMutating(f) PROVE OneEntryPerId'
    <3> DEFINE id   == frames[f].id
               n    == Len(runs) + 1
               e    == [id |-> id, stamp |-> frames[f].stamp,
                        at |-> now, done |-> FALSE]
               kept == replay \ Hits(id)
    <3>1. /\ id \in MutatingIds
          /\ runs' = Append(runs, e)
          /\ replay' = Evict(kept \cup {n})
      BY <2>1 DEF RunMutating
    <3>2. e \in Run /\ runs \in Seq(Run) /\ replay \subseteq DOMAIN runs
      BY <3>1, ElementTypes DEF IInv, TypeOK, Run
    <3>3. /\ Len(runs) \in Nat /\ DOMAIN runs = 1..Len(runs)
          /\ \A i \in 1..Len(runs) : runs'[i] = runs[i]
          /\ runs'[n].id = id
      BY <3>1, <3>2, AppendFacts
    <3>4. replay' \subseteq kept \cup {n} /\ kept \cup {n} \subseteq 1..n
      BY <3>1, <3>2, <3>3, EvictKeepsEntries
    <3>5. \A r \in kept : runs'[r] = runs[r] /\ runs'[r].id # id
      BY <3>2, <3>3 DEF Hits
    <3>6. ASSUME NEW r \in replay', NEW s \in replay', runs'[r].id = runs'[s].id
          PROVE  r = s
      <4>1. CASE r = n \/ s = n
        BY <3>3, <3>4, <3>5, <3>6, <4>1
      <4>2. CASE r \in kept /\ s \in kept
        BY <3>5, <3>6, <4>2 DEF OneEntryPerId
      <4>3. QED
        BY <3>4, <4>1, <4>2
    <3>7. Cardinality(kept \cup {n}) <= ReplayMax + 1
      <4>1. IsFiniteSet(replay)
        <5>1. IsFiniteSet(1..Len(runs))
          BY <3>3, FS_Interval
        <5>2. QED
          BY <3>2, <3>3, <5>1, FS_Subset
      <4>2. IsFiniteSet(kept) /\ Cardinality(kept) <= Cardinality(replay)
        BY <4>1, FS_Subset
      <4>3. Cardinality(kept) \in Nat /\ Cardinality(replay) \in Nat
        BY <4>1, <4>2, FS_CardinalityType
      <4>4. Cardinality(kept \cup {n}) =
               IF n \in kept THEN Cardinality(kept) ELSE Cardinality(kept) + 1
        <5> HIDE DEF kept, n
        <5>1. QED
          BY <4>2, FS_AddElement
      <4> HIDE DEF kept, n
      <4>5. QED
        BY <4>2, <4>3, <4>4, WindowAssumption DEF OneEntryPerId
    <3>8. Cardinality(replay') <= ReplayMax
      BY <3>1, <3>3, <3>4, <3>7, EvictBoundsEntries
    <3>9. QED
      BY <3>6, <3>8 DEF OneEntryPerId
  <2>2. ASSUME NEW r \in DOMAIN runs, FinishRun(r) PROVE OneEntryPerId'
    <3>1. runs \in Seq(Run) /\ replay \subseteq DOMAIN runs
      BY DEF IInv, TypeOK
    <3>2. runs' = [runs EXCEPT ![r].done = TRUE] /\ replay' = replay
      BY <2>2 DEF FinishRun
    <3>3. \A i \in DOMAIN runs : runs'[i].id = runs[i].id
      BY <3>1, <3>2 DEF Run
    <3>4. QED
      BY <3>1, <3>2, <3>3 DEF OneEntryPerId
  <2>3. CASE UNCHANGED <<runs, replay>>
    BY <2>3 DEF OneEntryPerId
  <2>4. QED
    BY <2>1, <2>2, <2>3 DEF Next, vars, Receive, Refuse, RunRead, Replay,
       FinishRead, Tick
<1>2. Init => OneEntryPerId
  BY FS_EmptySet, WindowAssumption DEF Init, OneEntryPerId
<1>3. QED
  BY <1>1, <1>2, Invariance, PTL DEF Spec
=============================================================================
