----------------------------- MODULE HttpProofs -----------------------------
(***************************************************************************)
(* Proofs about core.openwop.http: fetch, for any number of attempts and    *)
(* runs; the breaker, for any number of callers and calls, any threshold    *)
(* and cooldown; and the other nodes of the pack, for any limits, streams   *)
(* and lists.                                                               *)
(*   Fetch: FetchInv says what each place a run waits at knows of the       *)
(*   variables, that a key has one effect, and that what the node takes for *)
(*   a success has one.                                                     *)
(*   Breaker: every request let through on an object is charged to a        *)
(*   failure it has counted or to a call that still holds it (Charged).     *)
(*   Loops: PollInv says when a loop has ended and that it waited; PageInv  *)
(*   counts what the pages held; StreamInv says that the events so far and  *)
(*   the buffer are the cut of what was read.                               *)
(***************************************************************************)
EXTENDS HttpFetch, HttpNodes, ListsProofs

-----------------------------------------------------------------------------
(* The inductive invariant of fetchNode. *)

\* What each place the run waits at says of the variables.
Waiting ==
  /\ stage = "start" => attempts = 0
  /\ stage = "backoff" => AttemptsLeft /\ ~cancelled
  /\ stage = "body" => /\ statuses[attempts] # "none"
                       /\ statuses[attempts] = "serverError" => attempts = MaxAttempts
  /\ stage = "lastBody" => lastResponse /\ attempts = MaxAttempts
  /\ result # "none" => stage = "ended"

\* Attempts to come are not answered; what is kept was.
Answered ==
  /\ \A a \in Attempts :
       a > attempts \/ (a = attempts /\ stage \in {"lookup", "fetch"}) => statuses[a] = "none"
  /\ lastResponse => \E a \in Attempts : statuses[a] = "serverError"

\* A key has one effect at most.
OncePerKey == \A e, f \in effects : plan[e.call] = plan[f.call] => e = f

\* What the remote has taken on, or the node takes for a success, took effect.
Delivered ==
  /\ stage = "fetch" /\ Request \notin inFlight => TookEffect(call)
  /\ stage = "body" /\ statuses[attempts] = "success" => TookEffect(call)
  /\ result = "success" => TookEffect(call)

FetchInv == TypeOK /\ NothingLeft /\ Waiting /\ Answered /\ OncePerKey /\ Delivered /\ GivesUpExhausted

LEMMA FetchInitInv == FetchInit => FetchInv
<1> SUFFICES ASSUME FetchInit PROVE FetchInv
  OBVIOUS
<1>1. TypeOK
  <2>1. /\ cancelled \in BOOLEAN /\ aborted \in BOOLEAN /\ lastResponse \in BOOLEAN
    BY DEF FetchInit
  <2>2. /\ runs \in 0..MaxRuns /\ attempts \in 0..MaxAttempts /\ call \in Calls
        /\ stage # "start" => attempts # 0 /\ runs # 0
    BY BoundsAssumption DEF FetchInit, Calls
  <2> QED
    BY <2>1, <2>2 DEF FetchInit, TypeOK, NoAnswers
<1>2. NothingLeft /\ Waiting /\ OncePerKey /\ Delivered /\ GivesUpExhausted
  BY DEF FetchInit, NothingLeft, Waiting, OncePerKey, Delivered, GivesUpExhausted
<1>3. Answered
  BY DEF FetchInit, Answered, NoAnswers
<1> QED
  BY <1>1, <1>2, <1>3 DEF FetchInv

LEMMA Exhausted ==
  ASSUME TypeOK, ~AttemptsLeft
  PROVE  attempts = MaxAttempts
BY BoundsAssumption DEF TypeOK, AttemptsLeft

\* A step that leaves the effects alone, and neither waits for an answer of
\* another request nor reports another success, keeps what is said of effects.
LEMMA EffectsKept ==
  ASSUME OncePerKey, Delivered, UNCHANGED <<plan, effects>>,
         stage' = "fetch" => stage = "fetch" /\ UNCHANGED <<call, runs, attempts, inFlight>>,
         stage' = "body" => stage = "body" /\ UNCHANGED <<call, statuses, attempts>>,
         result' = "success" => result = "success" /\ UNCHANGED call
  PROVE  OncePerKey' /\ Delivered'
<1>1. OncePerKey'
  BY DEF OncePerKey
<1>2. UNCHANGED call => (TookEffect(call)' <=> TookEffect(call))
  BY DEF TookEffect
<1>3. Delivered'
  BY <1>2 DEF Delivered, Request
<1> QED
  BY <1>1, <1>3

\* The catch block, whichever promise rejected.
LEMMA CaughtInv ==
  ASSUME FetchInv, Caught, stage \in {"lookup", "fetch", "body"}, UNCHANGED <<plan, cancelled, remoteVars>>
  PROVE  FetchInv'
<1> USE DEF FetchInv, Caught, Disarm, Return, Sleep, ArmSleep, remoteVars
<1>1. /\ stage' \in {"backoff", "lastBody", "ended"}
      /\ stage' = "backoff" => AttemptsLeft'
      /\ stage' = "lastBody" => lastResponse' /\ attempts' = MaxAttempts
      /\ result' \in {"none", "thrown", "zero"}
      /\ result' = "zero" => attempts' = MaxAttempts
  BY Exhausted DEF Waiting, AttemptsLeft
<1>2. TypeOK'
  BY DEF TypeOK
<1>3. NothingLeft'
  BY DEF NothingLeft
<1>4. Waiting'
  BY <1>1 DEF Waiting
<1>5. Answered'
  BY DEF Answered
<1>6. OncePerKey' /\ Delivered'
  BY <1>1, EffectsKept
<1>7. GivesUpExhausted'
  BY <1>1 DEF GivesUpExhausted
<1> QED
  BY <1>2, <1>3, <1>4, <1>5, <1>6, <1>7

\* Each attempt, the first included.
LEMMA StartInv ==
  ASSUME FetchInv, StartAttempt, stage \in {"start", "backoff"}, runs' \in 1..MaxRuns,
         UNCHANGED <<plan, cancelled, call, lastResponse, statuses, result, remoteVars>>
  PROVE  FetchInv'
<1> USE DEF FetchInv, StartAttempt, remoteVars
<1>1. attempts < MaxAttempts
  BY BoundsAssumption DEF Waiting, AttemptsLeft
<1>2. result = "none"
  BY DEF Waiting
<1>3. TypeOK'
  <2>1. /\ runs' \in 0..MaxRuns /\ attempts' \in 0..MaxAttempts
        /\ stage' # "start" => attempts' # 0 /\ runs' # 0
    BY BoundsAssumption, <1>1 DEF TypeOK
  <2> QED
    BY <2>1 DEF TypeOK
<1>4. NothingLeft' /\ Waiting'
  BY <1>2 DEF NothingLeft, Waiting
<1>5. Answered'
  <2>1. \A a \in Attempts : a > attempts' \/ a = attempts' => statuses'[a] = "none"
    BY <1>1 DEF Answered, TypeOK, Attempts
  <2> QED
    BY <2>1 DEF Answered
<1>6. OncePerKey' /\ Delivered'
  BY <1>2, EffectsKept
<1>7. GivesUpExhausted'
  BY <1>2 DEF GivesUpExhausted
<1> QED
  BY <1>3, <1>4, <1>5, <1>6, <1>7

LEMMA AnswerInv ==
  ASSUME FetchInv, NEW s \in StatusClasses, Answer(s)
  PROVE  FetchInv'
<1> USE DEF FetchInv, Answer, Disarm, Return, Sleep, ArmSleep
<1>1. attempts \in Attempts
  BY DEF TypeOK, Attempts
<1>2. /\ statuses' \in [Attempts -> StatusClasses \cup {"none"}]
      /\ statuses'[attempts] = s
      /\ \A a \in Attempts : a # attempts => statuses'[a] = statuses[a]
  BY <1>1 DEF TypeOK
<1>3. result = "none"
  BY DEF Waiting
<1>4. /\ stage' \in {"backoff", "body", "ended"}
      /\ stage' = "backoff" => AttemptsLeft' /\ ~cancelled'
      /\ stage' = "body" /\ s = "serverError" => attempts' = MaxAttempts
      /\ result' \in {"none", "thrown"}
      /\ result' # "none" => stage' = "ended"
      /\ lastResponse' => lastResponse \/ s = "serverError"
  BY <1>3, Exhausted DEF AttemptsLeft
<1>5. TypeOK'
  BY <1>1, <1>2, <1>4 DEF TypeOK
<1>6. NothingLeft'
  BY DEF NothingLeft
<1>7. Waiting'
  BY <1>2, <1>4 DEF Waiting, StatusClasses
<1>8. Answered'
  <2>1. \A a \in Attempts : a > attempts' => statuses'[a] = "none"
    BY <1>1, <1>2 DEF Answered, TypeOK, Attempts
  <2>2. lastResponse' => \E a \in Attempts : statuses'[a] = "serverError"
    <3>1. CASE s = "serverError"
      BY <1>1, <1>2, <3>1
    <3>2. CASE s # "serverError"
      <4>1. statuses[attempts] = "none"
        BY <1>1 DEF Answered
      <4> QED
        BY <1>2, <1>4, <3>2, <4>1 DEF Answered
    <3> QED
      BY <3>1, <3>2
  <2> QED
    BY <2>1, <2>2, <1>4 DEF Answered
<1>9. GivesUpExhausted'
  BY <1>4 DEF GivesUpExhausted
<1>10. OncePerKey'
  BY DEF OncePerKey
<1>11. Delivered'
  <2>1. s = "success" => TookEffect(call)
    BY DEF Delivered
  <2>2. TookEffect(call)' <=> TookEffect(call)
    BY DEF TookEffect
  <2> QED
    BY <1>2, <1>4, <2>1, <2>2 DEF Delivered
<1> QED
  BY <1>5, <1>6, <1>7, <1>8, <1>9, <1>10, <1>11

\* The remote processes one request: its key has an effect now, and one only.
LEMMA ProcessInv ==
  ASSUME FetchInv, NEW q \in inFlight, Process(q)
  PROVE  FetchInv'
<1> USE DEF FetchInv, Process, node
<1>1. q \in Requests /\ effects \subseteq effects' /\ effects' \subseteq effects \cup {q}
  BY DEF TypeOK
<1>2. TypeOK'
  BY <1>1 DEF TypeOK
<1>3. NothingLeft' /\ Waiting' /\ GivesUpExhausted'
  BY DEF NothingLeft, Waiting, GivesUpExhausted, AttemptsLeft
<1>4. Answered'
  BY DEF Answered
<1>5. OncePerKey'
  BY DEF OncePerKey, IdempotencyKey
<1>6. Delivered'
  <2>1. TookEffect(call) => TookEffect(call)'
    BY <1>1 DEF TookEffect
  <2>2. q = Request => TookEffect(call)'
    <3> SUFFICES ASSUME q = Request PROVE TookEffect(call)'
      OBVIOUS
    <3>1. q.call = call
      BY DEF Request
    <3>2. CASE \E e \in effects : IdempotencyKey(e) = IdempotencyKey(q)
      BY <3>1, <3>2 DEF TookEffect, IdempotencyKey
    <3>3. CASE ~\E e \in effects : IdempotencyKey(e) = IdempotencyKey(q)
      BY <3>1, <3>3 DEF TookEffect
    <3> QED
      BY <3>2, <3>3
  <2>3. Request' = Request
    BY DEF Request
  <2> QED
    BY <2>1, <2>2, <2>3 DEF Delivered
<1> QED
  BY <1>2, <1>3, <1>4, <1>5, <1>6

LEMMA FetchStepInv == FetchInv /\ [FetchNext]_fetchVars => FetchInv'
<1> SUFFICES ASSUME FetchInv, [FetchNext]_fetchVars PROVE FetchInv'
  OBVIOUS
<1> USE DEF FetchInv
<1>1. CASE Begin
  <2>1. runs' \in 1..MaxRuns
    BY <1>1, BoundsAssumption DEF Begin, TypeOK
  <2> QED
    BY <1>1, <2>1, StartInv DEF Begin
<1>2. CASE LookedUp
  <2>1. CASE aborted
    BY <1>2, <2>1, CaughtInv DEF LookedUp
  <2>2. CASE ~aborted
    <3>1. TypeOK'
      <4>1. Request \in Requests
        BY <1>2, BoundsAssumption DEF LookedUp, TypeOK, Request, Requests, Runs, Attempts
      <4> QED
        BY <1>2, <2>2, <4>1 DEF LookedUp, TypeOK
    <3>2. NothingLeft' /\ Waiting' /\ OncePerKey' /\ GivesUpExhausted'
      BY <1>2, <2>2 DEF LookedUp, NothingLeft, Waiting, OncePerKey, GivesUpExhausted
    <3>3. Answered'
      BY <1>2, <2>2 DEF LookedUp, Answered
    <3>4. Delivered'
      <4>1. stage' = "fetch" /\ Request' \in inFlight' /\ result' = "none"
        BY <1>2, <2>2 DEF LookedUp, Request, Waiting
      <4> QED
        BY <4>1 DEF Delivered
    <3> QED
      BY <3>1, <3>2, <3>3, <3>4
  <2> QED
    BY <2>1, <2>2
<1>3. CASE Refused
  <2> USE <1>3 DEF Refused, Disarm, Return, remoteVars
  <2>1. TypeOK'
    BY DEF TypeOK
  <2>2. NothingLeft' /\ Waiting' /\ GivesUpExhausted'
    BY DEF NothingLeft, Waiting, GivesUpExhausted
  <2>3. Answered'
    BY DEF Answered
  <2>4. OncePerKey' /\ Delivered'
    BY EffectsKept
  <2> QED
    BY <2>1, <2>2, <2>3, <2>4
<1>4. CASE \E s \in StatusClasses : Answer(s)
  BY <1>4, AnswerInv
<1>5. CASE FetchRejects
  BY <1>5, CaughtInv DEF FetchRejects
<1>6. CASE BodyRead
  <2> USE <1>6 DEF BodyRead, Return, remoteVars
  <2>1. attempts \in Attempts
    BY DEF TypeOK, Attempts
  <2>2. statuses[attempts] \in StatusClasses
    BY <2>1 DEF TypeOK, Waiting
  <2>3. TypeOK'
    BY <2>2 DEF TypeOK
  <2>4. NothingLeft' /\ Waiting' /\ OncePerKey'
    BY DEF NothingLeft, Waiting, OncePerKey
  <2>5. Answered'
    BY DEF Answered
  <2>6. GivesUpExhausted'
    BY <2>1, <2>2 DEF GivesUpExhausted, Waiting, StatusClasses
  <2>7. Delivered'
    <3>1. TookEffect(call)' <=> TookEffect(call)
      BY DEF TookEffect
    <3> QED
      BY <3>1 DEF Delivered
  <2> QED
    BY <2>3, <2>4, <2>5, <2>6, <2>7
<1>7. CASE BodyRejects
  BY <1>7, CaughtInv DEF BodyRejects
<1>8. CASE BackoffEnds
  <2>1. runs' \in 1..MaxRuns
    BY <1>8, BoundsAssumption DEF BackoffEnds, TypeOK
  <2> QED
    BY <1>8, <2>1, StartInv DEF BackoffEnds
<1>9. CASE LastBodySettles
  <2> USE <1>9 DEF LastBodySettles, Return, remoteVars
  <2>1. TypeOK'
    BY DEF TypeOK, StatusClasses
  <2>2. NothingLeft' /\ Waiting'
    BY DEF NothingLeft, Waiting
  <2>3. Answered'
    BY DEF Answered
  <2>4. GivesUpExhausted'
    BY DEF GivesUpExhausted, Waiting, Answered
  <2>5. OncePerKey' /\ Delivered'
    BY EffectsKept
  <2> QED
    BY <2>1, <2>2, <2>3, <2>4, <2>5
<1>10. CASE TimerFires
  <2> USE <1>10 DEF TimerFires, remoteVars
  <2>1. TypeOK'
    BY DEF TypeOK
  <2>2. NothingLeft' /\ Waiting' /\ GivesUpExhausted'
    BY DEF NothingLeft, Waiting, GivesUpExhausted, AttemptsLeft
  <2>3. Answered'
    BY DEF Answered
  <2>4. OncePerKey' /\ Delivered'
    BY EffectsKept
  <2> QED
    BY <2>1, <2>2, <2>3, <2>4
<1>11. CASE CallerAborts
  <2> USE <1>11 DEF CallerAborts, Return, remoteVars
  <2>1. TypeOK'
    <3>1. /\ stage' \in {"lookup", "fetch", "body", "backoff", "lastBody", "ended"} \/ stage' = stage
          /\ result' \in {result, "thrown"}
      OBVIOUS
    <3>2. stage' # "start" => attempts' # 0 /\ runs' # 0
      BY DEF TypeOK, NothingLeft
    <3>3. /\ timers' \subseteq {"attempt", "sleep"} /\ listeners' \subseteq {"attempt", "sleep"}
          /\ cancelled' \in BOOLEAN /\ aborted' \in BOOLEAN
      BY DEF TypeOK
    <3> QED
      BY <3>1, <3>2, <3>3 DEF TypeOK
  <2>2. "sleep" \in listeners <=> stage = "backoff"
    BY DEF NothingLeft, TypeOK
  <2>3. NothingLeft'
    BY <2>2 DEF NothingLeft, TypeOK
  <2>4. Waiting' /\ GivesUpExhausted'
    BY <2>2 DEF Waiting, GivesUpExhausted
  <2>5. Answered'
    BY <2>2 DEF Answered
  <2>6. OncePerKey' /\ Delivered'
    BY <2>2, EffectsKept
  <2> QED
    BY <2>1, <2>3, <2>4, <2>5, <2>6
<1>12. CASE Crash \/ NextCall
  <2> USE <1>12 DEF Crash, NextCall, Forget, remoteVars
  <2>1. TypeOK'
    <3>1. call' \in Calls
      <4>1. call \in Calls /\ (call' = call \/ (call < LastCall /\ call' = call + 1))
        BY DEF TypeOK
      <4> QED
        BY <4>1, BoundsAssumption DEF Calls
    <3>2. cancelled' \in BOOLEAN
      BY DEF TypeOK
    <3>3. /\ runs' \in 0..MaxRuns /\ attempts' \in 0..MaxAttempts
          /\ stage' # "start" => attempts' # 0 /\ runs' # 0
      BY BoundsAssumption DEF TypeOK
    <3> QED
      BY <3>1, <3>2, <3>3 DEF TypeOK, NoAnswers
  <2>2. NothingLeft' /\ Waiting' /\ GivesUpExhausted'
    BY DEF NothingLeft, Waiting, GivesUpExhausted
  <2>3. Answered'
    BY DEF Answered, NoAnswers
  <2>4. OncePerKey' /\ Delivered'
    BY EffectsKept
  <2> QED
    BY <2>1, <2>2, <2>3, <2>4
<1>13. CASE \E q \in inFlight : Process(q)
  BY <1>13, ProcessInv
<1>14. CASE UNCHANGED fetchVars
  <2> USE <1>14 DEF fetchVars, node, remoteVars
  <2>1. TypeOK'
    BY DEF TypeOK
  <2>2. NothingLeft' /\ Waiting' /\ GivesUpExhausted'
    BY DEF NothingLeft, Waiting, GivesUpExhausted, AttemptsLeft
  <2>3. Answered'
    BY DEF Answered
  <2>4. OncePerKey' /\ Delivered'
    BY EffectsKept
  <2> QED
    BY <2>1, <2>2, <2>3, <2>4
<1> QED
  BY <1>1, <1>2, <1>3, <1>4, <1>5, <1>6, <1>7, <1>8, <1>9, <1>10, <1>11, <1>12, <1>13, <1>14 DEF FetchNext, Node

LEMMA FetchSpecInv == FetchSpec => []FetchInv
  BY FetchInitInv, FetchStepInv, PTL DEF FetchSpec

-----------------------------------------------------------------------------
(* The theorems about fetchNode. *)

\* The type invariant.
THEOREM FetchTypeCorrect == FetchSpec => []TypeOK
<1>1. FetchInv => TypeOK
  BY DEF FetchInv
<1> QED
  BY <1>1, FetchSpecInv, PTL

\* No timer and no listener outlives the attempt or the wait it was armed for
\* (fetchNode, the clearTimeout and removeEventListener calls; sleep).
THEOREM FetchNothingLeft == FetchSpec => []NothingLeft
<1>1. FetchInv => NothingLeft
  BY DEF FetchInv
<1> QED
  BY <1>1, FetchSpecInv, PTL

\* However many attempts, runs and calls, and however late the remote processes
\* them, the calls of one workflow run with one body take effect at most once, and
\* a success that is reported took effect (deriveIdempotencyKey).
THEOREM FetchSideEffectOnce == FetchSpec => []SideEffectOnce
<1>1. FetchInv => SideEffectOnce
  BY DEF FetchInv, OncePerKey, Delivered, SideEffectOnce
<1> QED
  BY <1>1, FetchSpecInv, PTL

\* An error is reported only when all attempts were made (fetchNode, the loop and
\* what follows it).
THEOREM FetchGivesUpExhausted == FetchSpec => []GivesUpExhausted
<1>1. FetchInv => GivesUpExhausted
  BY DEF FetchInv
<1> QED
  BY <1>1, FetchSpecInv, PTL

\* After an abort no attempt begins: sleep and the catch block both look at the
\* signal of the caller.
THEOREM FetchNoRetryAfterAbort == FetchSpec => NoRetryAfterAbort
<1>1. FetchInv /\ [FetchNext]_fetchVars => [cancelled /\ attempts # 0 => attempts' <= attempts]_fetchVars
  <2> SUFFICES ASSUME FetchInv, FetchNext, cancelled, attempts # 0 PROVE attempts' <= attempts
    OBVIOUS
  <2>1. stage # "start" /\ stage # "backoff"
    BY DEF FetchInv, Waiting
  <2>2. attempts' = attempts \/ attempts' = 0
    BY <2>1 DEF FetchNext, Node, Begin, LookedUp, Caught, Refused, Answer, FetchRejects, BodyRead, BodyRejects,
                BackoffEnds, LastBodySettles, TimerFires, CallerAborts, Crash, NextCall, Forget, Process, node
  <2>3. attempts \in Nat
    BY BoundsAssumption DEF FetchInv, TypeOK
  <2> QED
    BY <2>2, <2>3
<1> QED
  BY <1>1, FetchSpecInv, PTL DEF FetchSpec, NoRetryAfterAbort

-----------------------------------------------------------------------------
(* The breaker. *)

\* The callers whose call holds an object.
HoldersOf(o) == {c \in Callers : held[c] = o}

\* A request let through on an object is one of its failures or still in flight.
Charged == \A o \in Callers : admitted[o] <= failures[o] + Cardinality(HoldersOf(o))

\* The counter never rests at the threshold.
BelowThreshold == \A o \in Callers : failures[o] <= Threshold - 1

BreakerInv == BreakerTypeOK /\ Charged /\ BelowThreshold

\* The number of holders is a number, and there are no more than callers.
LEMMA HoldersBounded ==
  ASSUME NEW o
  PROVE  /\ IsFiniteSet(HoldersOf(o)) /\ Cardinality(HoldersOf(o)) \in Nat
         /\ Cardinality(HoldersOf(o)) <= Cardinality(Callers)
         /\ Cardinality(Callers) \in Nat
<1>1. HoldersOf(o) \in SUBSET Callers
  BY DEF HoldersOf
<1>2. IsFiniteSet(HoldersOf(o)) /\ Cardinality(HoldersOf(o)) <= Cardinality(Callers)
  BY <1>1, FS_Subset, CallersAssumption
<1> QED
  BY <1>2, FS_CardinalityType, CallersAssumption

\* What a call works on is an object.
LEMMA ObjectIsCaller ==
  ASSUME BreakerTypeOK, NEW c \in Callers
  PROVE  ObjectFor(c) \in Callers
BY DEF BreakerTypeOK, ObjectFor

\* A call that ends leaves the object it held with one holder less.
LEMMA HolderLeaves ==
  ASSUME BreakerTypeOK, NEW c \in Callers, NEW o \in Callers, held[c] = o,
         held' = [held EXCEPT ![c] = NoObject]
  PROVE  /\ Cardinality(HoldersOf(o)') = Cardinality(HoldersOf(o)) - 1
         /\ Cardinality(HoldersOf(o)) >= 1
         /\ \A p \in Callers : p # o => HoldersOf(p)' = HoldersOf(p)
<1>1. HoldersOf(o)' = HoldersOf(o) \ {c}
  BY CallersAssumption DEF HoldersOf, BreakerTypeOK
<1>2. c \in HoldersOf(o)
  BY DEF HoldersOf
<1>3. Cardinality(HoldersOf(o)') = Cardinality(HoldersOf(o)) - 1
  BY <1>1, <1>2, FS_RemoveElement, HoldersBounded
<1>4. Cardinality(HoldersOf(o)) # 0
  BY <1>2, FS_EmptySet, HoldersBounded
<1>5. \A p \in Callers : p # o => HoldersOf(p)' = HoldersOf(p)
  BY CallersAssumption DEF HoldersOf, BreakerTypeOK
<1> QED
  BY <1>3, <1>4, <1>5, HoldersBounded

\* A call that begins adds a holder to its object.
LEMMA HolderJoins ==
  ASSUME BreakerTypeOK, NEW c \in Callers, NEW o \in Callers, held[c] = NoObject,
         held' = [held EXCEPT ![c] = o]
  PROVE  /\ Cardinality(HoldersOf(o)') = Cardinality(HoldersOf(o)) + 1
         /\ \A p \in Callers : p # o => HoldersOf(p)' = HoldersOf(p)
<1>1. HoldersOf(o)' = HoldersOf(o) \cup {c}
  BY CallersAssumption DEF HoldersOf, BreakerTypeOK
<1>2. c \notin HoldersOf(o)
  BY CallersAssumption DEF HoldersOf
<1>3. Cardinality(HoldersOf(o)') = Cardinality(HoldersOf(o)) + 1
  BY <1>1, <1>2, FS_AddElement, HoldersBounded
<1>4. \A p \in Callers : p # o => HoldersOf(p)' = HoldersOf(p)
  BY CallersAssumption DEF HoldersOf, BreakerTypeOK
<1> QED
  BY <1>3, <1>4

-----------------------------------------------------------------------------
(* Steps.                                                                   *)

\* A call that is let through is charged to its object.
LEMMA AdmitKeeps ==
  ASSUME BreakerInv, NEW c \in Callers, Admit(c)
  PROVE  BreakerInv'
<1>1. PICK o \in Callers : o = ObjectFor(c)
  BY ObjectIsCaller DEF BreakerInv
<1>2. held' = [held EXCEPT ![c] = o] /\ held[c] = NoObject
      /\ admitted' = [admitted EXCEPT ![o] = @ + 1]
  BY <1>1 DEF Admit, CanCall, InFlight
<1>3. BreakerTypeOK'
  BY <1>2 DEF BreakerInv, BreakerTypeOK, Admit
<1>4. ASSUME NEW p \in Callers
      PROVE  admitted'[p] <= failures'[p] + Cardinality(HoldersOf(p)')
  <2>1. Cardinality(HoldersOf(o)') = Cardinality(HoldersOf(o)) + 1
        /\ (p # o => HoldersOf(p)' = HoldersOf(p))
    BY <1>2, HolderJoins DEF BreakerInv
  <2>2. Cardinality(HoldersOf(p)) \in Nat
    BY HoldersBounded
  <2>3. failures' = failures /\ admitted[p] <= failures[p] + Cardinality(HoldersOf(p))
        /\ failures[p] \in Nat /\ admitted[p] \in Nat
    BY DEF BreakerInv, Charged, Admit, BreakerTypeOK
  <2>4. CASE p = o
    BY <1>2, <2>1, <2>2, <2>3, <2>4 DEF BreakerInv, BreakerTypeOK
  <2>5. CASE p # o
    BY <1>2, <2>1, <2>2, <2>3, <2>5 DEF BreakerInv, BreakerTypeOK
  <2> QED
    BY <2>4, <2>5
<1>5. BelowThreshold'
  BY DEF BreakerInv, BelowThreshold, Admit
<1> QED
  BY <1>3, <1>4, <1>5 DEF BreakerInv, Charged

\* A call that ends moves its charge to the failures, or clears the account.
LEMMA SettleKeeps ==
  ASSUME BreakerInv, NEW c \in Callers, InFlight(c), NEW how \in {"answered", "threw"}, Settle(c, how),
         ForgetFailures(held[c]) \/ CountFailure(held[c], began[c])
  PROVE  BreakerInv'
<1>1. PICK o \in Callers : o = held[c]
  BY DEF BreakerInv, BreakerTypeOK, InFlight
<1>2. PICK now \in Nat : now = began[c]
  BY DEF BreakerInv, BreakerTypeOK
<1>3. held' = [held EXCEPT ![c] = NoObject]
  BY DEF Settle
<1>4. Cardinality(HoldersOf(o)') = Cardinality(HoldersOf(o)) - 1
      /\ Cardinality(HoldersOf(o)) >= 1
      /\ \A p \in Callers : p # o => HoldersOf(p)' = HoldersOf(p)
  BY <1>1, <1>3, HolderLeaves DEF BreakerInv
<1>5. CASE \/ ForgetFailures(o)
           \/ CountFailure(o, now) /\ failures[o] + 1 >= Threshold
  <2>1. failures' = [failures EXCEPT ![o] = 0] /\ admitted' = [admitted EXCEPT ![o] = 0]
        /\ openUntil' \in [Callers -> Nat]
    BY <1>5, ThresholdAssumption DEF ForgetFailures, CountFailure, BreakerInv, BreakerTypeOK
  <2>2. BreakerTypeOK'
    BY <1>1, <1>3, <2>1 DEF BreakerInv, BreakerTypeOK, Settle
  <2>3. ASSUME NEW p \in Callers
        PROVE  admitted'[p] <= failures'[p] + Cardinality(HoldersOf(p)')
    <3>1. CASE p = o
      BY <1>4, <2>1, <3>1, HoldersBounded DEF BreakerInv, BreakerTypeOK
    <3>2. CASE p # o
      BY <1>4, <2>1, <3>2 DEF BreakerInv, BreakerTypeOK, Charged
    <3> QED
      BY <3>1, <3>2
  <2>4. BelowThreshold'
    BY <2>1, ThresholdAssumption DEF BreakerInv, BreakerTypeOK, BelowThreshold
  <2> QED
    BY <2>2, <2>3, <2>4 DEF BreakerInv, Charged
<1>6. CASE CountFailure(o, now) /\ ~(failures[o] + 1 >= Threshold)
  <2>1. failures' = [failures EXCEPT ![o] = @ + 1] /\ admitted' = admitted
        /\ openUntil' = openUntil
    BY <1>6 DEF CountFailure
  <2>2. BreakerTypeOK'
    BY <1>1, <1>3, <2>1 DEF BreakerInv, BreakerTypeOK, Settle
  <2>3. ASSUME NEW p \in Callers
        PROVE  admitted'[p] <= failures'[p] + Cardinality(HoldersOf(p)')
    <3>1. admitted[p] <= failures[p] + Cardinality(HoldersOf(p))
          /\ failures[p] \in Nat /\ admitted[p] \in Nat /\ Cardinality(HoldersOf(p)) \in Nat
      BY HoldersBounded DEF BreakerInv, BreakerTypeOK, Charged
    <3>2. CASE p = o
      BY <1>4, <2>1, <3>1, <3>2 DEF BreakerInv, BreakerTypeOK
    <3>3. CASE p # o
      BY <1>4, <2>1, <3>1, <3>3 DEF BreakerInv, BreakerTypeOK
    <3> QED
      BY <3>2, <3>3
  <2>4. BelowThreshold'
    BY <1>6, <2>1, ThresholdAssumption DEF BreakerInv, BreakerTypeOK, BelowThreshold
  <2> QED
    BY <2>2, <2>3, <2>4 DEF BreakerInv, Charged
<1> QED
  BY <1>1, <1>2, <1>5, <1>6

\* Every step keeps the invariant.
LEMMA BreakerInvIsKept == BreakerInv /\ [BreakerNext]_breakerVars => BreakerInv'
<1> SUFFICES ASSUME BreakerInv, [BreakerNext]_breakerVars
             PROVE  BreakerInv'
  OBVIOUS
<1>1. CASE BreakerTick
  <2>1. BreakerTypeOK'
    BY <1>1 DEF BreakerTick, BreakerInv, BreakerTypeOK
  <2>2. \A o : HoldersOf(o)' = HoldersOf(o)
    BY <1>1 DEF BreakerTick, HoldersOf
  <2> QED
    BY <1>1, <2>1, <2>2 DEF BreakerTick, BreakerInv, Charged, BelowThreshold
<1>2. ASSUME NEW c \in Callers, Admit(c)
      PROVE  BreakerInv'
  BY <1>2, AdmitKeeps
<1>3. ASSUME NEW c \in Callers, Refuse(c)
      PROVE  BreakerInv'
  <2>1. BreakerTypeOK'
    BY <1>3 DEF Refuse, BreakerInv, BreakerTypeOK
  <2>2. \A o : HoldersOf(o)' = HoldersOf(o)
    BY <1>3 DEF Refuse, HoldersOf
  <2> QED
    BY <1>3, <2>1, <2>2 DEF Refuse, BreakerInv, Charged, BelowThreshold
<1>4. ASSUME NEW c \in Callers, AnswerBelow500(c) \/ Answer500(c) \/ CallRejects(c)
      PROVE  BreakerInv'
  BY <1>4, SettleKeeps DEF AnswerBelow500, Answer500, CallRejects
<1>5. CASE UNCHANGED breakerVars
  <2>1. BreakerTypeOK'
    BY <1>5 DEF breakerVars, BreakerInv, BreakerTypeOK
  <2>2. \A o : HoldersOf(o)' = HoldersOf(o)
    BY <1>5 DEF breakerVars, HoldersOf
  <2> QED
    BY <1>5, <2>1, <2>2 DEF breakerVars, BreakerInv, Charged, BelowThreshold
<1> QED
  BY <1>1, <1>2, <1>3, <1>4, <1>5 DEF BreakerNext

\* The invariant holds at first.
LEMMA BreakerInvAtFirst == BreakerInit => BreakerInv
<1> SUFFICES ASSUME BreakerInit
             PROVE  BreakerInv
  OBVIOUS
<1>1. BreakerTypeOK
  BY DEF BreakerInit, BreakerTypeOK
<1>2. ASSUME NEW o \in Callers
      PROVE  admitted[o] <= failures[o] + Cardinality(HoldersOf(o)) /\ failures[o] <= Threshold - 1
  <2>1. Cardinality(HoldersOf(o)) \in Nat
    BY HoldersBounded
  <2>2. admitted[o] = 0 /\ failures[o] = 0
    BY DEF BreakerInit
  <2> QED
    BY <2>1, <2>2, ThresholdAssumption
<1> QED
  BY <1>1, <1>2 DEF BreakerInv, Charged, BelowThreshold

\* The invariant bounds what a failing remote gets.
LEMMA BreakerInvShields == BreakerInv => BreakerShieldsRemote
<1> SUFFICES ASSUME BreakerInv, NEW o \in Callers
             PROVE  admitted[o] <= Threshold - 1 + Cardinality(Callers)
  BY DEF BreakerShieldsRemote
<1>1. admitted[o] \in Nat /\ failures[o] \in Nat
      /\ admitted[o] <= failures[o] + Cardinality(HoldersOf(o)) /\ failures[o] <= Threshold - 1
  BY DEF BreakerInv, BreakerTypeOK, Charged, BelowThreshold
<1> QED
  BY <1>1, HoldersBounded, ThresholdAssumption

-----------------------------------------------------------------------------
(* Theorems.                                                                *)

\* A remote that only fails gets at most Threshold - 1 requests more than there are
\* callers between two openings of a state object, for any number of overlapping calls.
THEOREM BreakerShields == BreakerSpec => []BreakerShieldsRemote
<1>1. BreakerInv /\ UNCHANGED breakerVars => BreakerInv'
  BY BreakerInvIsKept
<1> QED
  BY <1>1, BreakerInvAtFirst, BreakerInvIsKept, BreakerInvShields, PTL DEF BreakerSpec

\* An open circuit that all calls share keeps its object and its end, which only a
\* call let through before can set, to a cooldown after its own beginning.
THEOREM BreakerHolds == BreakerSpec => OpenCircuitStaysOpen
<1> DEFINE KeepsEnd == \/ openUntil'[CB_STATE] = openUntil[CB_STATE]
                       \/ \E c \in Callers : InFlight(c) /\ openUntil'[CB_STATE] = began[c] + Cooldown
<1>1. BreakerInv /\ [BreakerNext]_breakerVars
        => [OneObject /\ IsOpen(CB_STATE) => CB_STATE' = CB_STATE /\ KeepsEnd]_breakerVars
  <2> SUFFICES ASSUME BreakerInv, BreakerNext, OneObject, IsOpen(CB_STATE)
               PROVE  CB_STATE' = CB_STATE /\ KeepsEnd
    OBVIOUS
  <2>1. PICK s \in Callers : s = CB_STATE
    BY DEF BreakerInv, BreakerTypeOK, OneObject
  <2>2. CASE BreakerTick
    BY <2>2 DEF BreakerTick
  <2>3. ASSUME NEW c \in Callers, Admit(c) \/ Refuse(c)
        PROVE  CB_STATE' = CB_STATE /\ KeepsEnd
    BY <2>3 DEF Admit, Refuse
  <2>4. ASSUME NEW c \in Callers, AnswerBelow500(c) \/ Answer500(c) \/ CallRejects(c)
        PROVE  CB_STATE' = CB_STATE /\ KeepsEnd
    <3>1. InFlight(c) /\ CB_STATE' = held[c]
          /\ (ForgetFailures(held[c]) \/ CountFailure(held[c], began[c]))
      BY <2>4 DEF AnswerBelow500, Answer500, CallRejects, Settle
    <3>2. held[c] = s
      BY <2>1, <3>1 DEF OneObject
    <3>3. openUntil' = openUntil \/ openUntil' = [openUntil EXCEPT ![s] = began[c] + Cooldown]
      BY <3>1, <3>2 DEF ForgetFailures, CountFailure
    <3>4. openUntil'[s] = openUntil[s] \/ openUntil'[s] = began[c] + Cooldown
      BY <2>1, <3>3 DEF BreakerInv, BreakerTypeOK
    <3> QED
      BY <2>1, <3>1, <3>2, <3>4
  <2> QED
    BY <2>2, <2>3, <2>4 DEF BreakerNext
<1> QED
  BY <1>1, BreakerInvAtFirst, BreakerInvIsKept, PTL DEF BreakerSpec, OpenCircuitStaysOpen

-----------------------------------------------------------------------------
(* The breaker's theorems carry over to the pack's nodes. *)

\* The breaker's part of a behaviour of the nodes is a behaviour of the breaker.
THEOREM NodesRunBreaker == Spec => BreakerSpec
<1>1. Init => BreakerInit
  BY DEF Init
<1>2. [Next]_vars => [BreakerNext]_breakerVars
  BY DEF Next, vars
<1> QED
  BY <1>1, <1>2, PTL DEF Spec, BreakerSpec

\* However the nodes run, a remote behind a breaker is shielded.
THEOREM NodesShieldRemote == Spec => []BreakerShieldsRemote
BY NodesRunBreaker, BreakerShields

\* However the nodes run, only a late call moves the end of an open circuit.
THEOREM NodesKeepCircuitOpen == Spec => OpenCircuitStaysOpen
BY NodesRunBreaker, BreakerHolds

-----------------------------------------------------------------------------
(* Which steps a node takes.                                                *)

\* Each step is of one kind of node.
LEMMA ActionKinds ==
  /\ Poll => kind \in PollKinds
  /\ FetchPage => kind \in PageKinds
  /\ ReadEvents \/ StreamEnds => kind = "sse-consume"
  /\ ReadBytes \/ DownloadEnds => kind = "download-stream"
  /\ openapiCall \/ graphqlQuery \/ SendOnce => kind \in OnceKinds
  /\ HostMissing \/ HostPushes \/ HostSettles => kind \in HostKinds
  /\ idempotencyKey => kind = "idempotency-key"
<1>1. Poll => kind \in PollKinds
  BY DEF Poll, Running
<1>2. FetchPage => kind \in PageKinds
  BY DEF FetchPage, Running
<1>3. ReadEvents \/ StreamEnds => kind = "sse-consume"
  BY DEF ReadEvents, StreamEnds, Running
<1>4. ReadBytes \/ DownloadEnds => kind = "download-stream"
  BY DEF ReadBytes, DownloadEnds, Running
<1>5. openapiCall \/ graphqlQuery \/ SendOnce => kind \in OnceKinds
  BY DEF openapiCall, graphqlQuery, SendOnce, Running, OnceKinds
<1>6. HostMissing \/ HostPushes \/ HostSettles => kind \in HostKinds
  BY DEF HostMissing, HostPushes, HostSettles, Running, Pushing
<1>7. idempotencyKey => kind = "idempotency-key"
  BY DEF idempotencyKey, Running
<1> QED BY <1>1, <1>2, <1>3, <1>4, <1>5, <1>6, <1>7

\* A node keeps to its kind, and takes only the steps of that kind.
LEMMA NodeSteps ==
  ASSUME [Next]_vars
  PROVE  /\ kind' = kind /\ remote' = remote
         /\ kind \in PollKinds => Poll \/ RequestRejects \/ UNCHANGED nodeVars
         /\ kind \in PageKinds => FetchPage \/ RequestRejects \/ UNCHANGED nodeVars
         /\ kind = "sse-consume" =>
              ReadEvents \/ StreamEnds \/ RequestRejects \/ UNCHANGED nodeVars
         /\ kind = "download-stream" =>
              ReadBytes \/ DownloadEnds \/ RequestRejects \/ UNCHANGED nodeVars
<1>1. NodeNext \/ UNCHANGED nodeVars
  BY DEF Next, vars
<1>2. CASE UNCHANGED nodeVars
  BY <1>2 DEF nodeVars
<1>3. CASE NodeNext
  <2>1. kind' = kind /\ remote' = remote
    BY <1>3 DEF NodeNext, Poll, FetchPage, ReadEvents, StreamEnds, ReadBytes, DownloadEnds,
         openapiCall, graphqlQuery, SendOnce, RequestRejects, HostMissing, HostPushes,
         HostSettles, idempotencyKey
  <2>2. \/ Poll \/ FetchPage \/ RequestRejects
        \/ ReadEvents \/ StreamEnds \/ ReadBytes \/ DownloadEnds
        \/ kind \in OnceKinds \cup HostKinds \cup {"idempotency-key"}
    BY <1>3, ActionKinds DEF NodeNext
  <2>3. /\ kind \in PollKinds => kind \notin PageKinds \cup StreamKinds
        /\ kind \in PageKinds => kind \notin PollKinds \cup StreamKinds
        /\ kind \in StreamKinds => kind \notin PageKinds \cup PollKinds
        /\ kind \in PollKinds \cup PageKinds \cup StreamKinds =>
             kind \notin OnceKinds \cup HostKinds \cup {"idempotency-key"}
    BY DEF PollKinds, PageKinds, StreamKinds, OnceKinds, HostKinds
  <2>4. StreamKinds = {"sse-consume", "download-stream"}
    BY DEF StreamKinds
  <2> QED BY <2>1, <2>2, <2>3, <2>4, ActionKinds
<1> QED BY <1>1, <1>2, <1>3

-----------------------------------------------------------------------------
(* The polling and retrying nodes.                                           *)

Replies == {bareFetch(s, t, p, a) : s \in Statuses, t \in ContentTypes, p \in Payloads, a \in RetryAfters}

\* Each wait is as long as the answer it follows asked for.
Patient == \A i \in DOMAIN waits : waits[i] >= WaitAsked(answers[i])

\* The node ran out of tries, or its last answer is the first good one.
PollEnded ==
  \/ output = NoAnswer /\ Len(answers) = MaxTries /\ Good = {}
  \/ /\ output = Last(answers) /\ Len(waits) = Len(answers) - 1
     /\ output.status \notin {"limited", "server"}
     /\ kind = "long-poll" => output.status = "ok" /\ output.body \notin {"null", "[]"}
     /\ Good = {Len(answers)}

\* A running loop has waited on every answer, none of them good, and has a try left.
PollInv ==
  /\ answers \in Seq(Replies) /\ waits \in Seq(Int) /\ Len(waits) <= Len(answers)
  /\ Patient
  /\ phase = "running" => Len(answers) < MaxTries /\ Len(waits) = Len(answers) /\ Good = {}
  /\ phase = "done" => PollEnded

\* What a timer holds of a delay.
LEMMA TimerHolds ==
  ASSUME NEW delay
  PROVE  /\ Timer(delay) \in Nat
         /\ delay \in Int /\ delay <= LongestTimer => Timer(delay) >= delay
BY LimitsAssumption DEF Timer

\* The wait on a reply of a loop is as long as the reply asks for.
LEMMA WaitsEnough ==
  ASSUME kind \in PollKinds, NEW answer \in PollReplies, NEW n \in Nat \ {0},
         NEW w \in WaitsAfter(answer, n)
  PROVE  w \in Int /\ w >= WaitAsked(answer)
<1>1. PICK s \in Statuses, t \in ContentTypes, p \in Payloads, a \in RetryAfters :
        answer = bareFetch(s, t, p, a)
  BY DEF PollReplies, ContentTypes, Payloads, RetryAfters, Absent, Statuses
<1>2. answer.after = a
  BY <1>1 DEF bareFetch
<1>3. a.value \in Int /\ (a.form \notin {"seconds", "date"} => a.value = 0)
  BY LimitsAssumption DEF RetryAfters, Absent
<1>4. CASE kind = "long-poll"
  BY <1>4 DEF WaitsAfter, WaitAsked
<1> DEFINE v == a.value
           backoff == 2 ^ (n - 1)
<1>5. CASE kind # "long-poll" /\ a.form = "seconds"
  <2>1. w = Timer(v)
    BY <1>2, <1>5 DEF WaitsAfter
  <2>2. WaitAsked(answer) = IF v > LongestTimer THEN 0 ELSE v
    BY <1>2, <1>5 DEF WaitAsked
  <2> HIDE DEF v
  <2>3. v \in Int
    BY <1>3 DEF v
  <2> QED
    BY <2>1, <2>2, <2>3, TimerHolds, LimitsAssumption
<1>6. CASE kind # "long-poll" /\ a.form = "date"
  <2>1. w = Timer(Max2(0, v))
    BY <1>2, <1>6 DEF WaitsAfter
  <2>2. WaitAsked(answer) = IF v > LongestTimer THEN 0 ELSE v
    BY <1>2, <1>6 DEF WaitAsked
  <2> HIDE DEF v
  <2>3. v \in Int
    BY <1>3 DEF v
  <2>4. Max2(0, v) \in Int /\ Max2(0, v) >= v /\ (v <= LongestTimer => Max2(0, v) <= LongestTimer)
    BY <2>3, LimitsAssumption DEF Max2
  <2> QED
    BY <2>1, <2>2, <2>3, <2>4, TimerHolds, LimitsAssumption
<1>7. CASE kind # "long-poll" /\ a.form \notin {"seconds", "date"}
  <2>1. WaitAsked(answer) = 0
    BY <1>2, <1>3, <1>7, LimitsAssumption DEF WaitAsked
  <2>2. w = 0 \/ w = Timer(backoff) \/ w = Timer(backoff + 1)
    BY <1>2, <1>7 DEF WaitsAfter
  <2> HIDE DEF backoff
  <2>3. w \in Nat
    BY <2>2, TimerHolds
  <2> QED
    BY <2>1, <2>3
<1> QED BY <1>4, <1>5, <1>6, <1>7

\* What a remote answers a loop with is a reply.
LEMMA ReplyTyped ==
  ASSUME NEW answer \in PollReplies
  PROVE  answer \in Replies
BY DEF PollReplies, Replies, RetryAfters, ContentTypes, Payloads

\* A reply that ends a loop is not one it would try again on.
LEMMA AcceptedIsGood ==
  ASSUME kind \in PollKinds, NEW answer, Accepts(answer)
  PROVE  /\ answer.status \notin {"limited", "server"}
         /\ kind = "long-poll" => answer.status = "ok" /\ answer.body \notin {"null", "[]"}
BY DEF Accepts, IsNews, IsFinal, PollKinds

\* One turn of a loop keeps PollInv.
LEMMA PollStep ==
  ASSUME kind \in PollKinds, PollInv, Poll
  PROVE  PollInv'
<1>1. PICK answer \in PollReplies :
        /\ answers' = Append(answers, answer)
        /\ \/ Accepts(answer) /\ Finish(answer) /\ UNCHANGED waits
           \/ /\ ~Accepts(answer)
              /\ \E w \in WaitsAfter(answer, Len(answers) + 1) : waits' = Append(waits, w)
              /\ IF Len(answers) + 1 < MaxTries THEN GoOn ELSE Finish(NoAnswer)
  BY DEF Poll
<1>2. phase = "running" /\ kind' = kind
  BY DEF Poll, Running
<1>3. answer \in Replies
  BY ReplyTyped
<1> DEFINE n == Len(answers)
<1>4. /\ answers \in Seq(Replies) /\ waits \in Seq(Int) /\ n \in Nat /\ Len(waits) = n
      /\ n < MaxTries /\ Patient /\ Good = {}
  BY <1>2 DEF PollInv
<1>5. /\ answers' \in Seq(Replies) /\ Len(answers') = n + 1 /\ DOMAIN answers' = 1..(n + 1)
      /\ answers'[n + 1] = answer /\ \A i \in 1..n : answers'[i] = answers[i]
      /\ DOMAIN answers = 1..n /\ DOMAIN waits = 1..n
  BY <1>1, <1>3, <1>4
<1>6. Good' = {i \in 1..(n + 1) : Accepts(answers'[i])}
  <2>1. \A a : Accepts(a)' <=> Accepts(a)
    BY <1>2 DEF Accepts, IsNews, IsFinal
  <2> QED BY <1>5, <2>1 DEF Good, Accepts, IsNews, IsFinal
<1>7. \A i \in 1..n : ~Accepts(answers'[i])
  BY <1>4, <1>5 DEF Good
<1>8. CASE Accepts(answer) /\ Finish(answer) /\ UNCHANGED waits
  <2>1. phase' = "done" /\ output' = answer /\ waits' = waits
    BY <1>8 DEF Finish
  <2>2. Good' = {n + 1}
    <3>1. Accepts(answers'[n + 1])
      BY <1>5, <1>8
    <3>2. n + 1 \in 1..(n + 1) /\ \A i \in 1..(n + 1) : i \in 1..n \/ i = n + 1
      BY <1>4
    <3> HIDE DEF n
    <3> QED BY <1>6, <1>7, <3>1, <3>2
  <2>3. PollEnded'
    BY <1>1, <1>2, <1>4, <1>5, <1>8, <2>1, <2>2, AcceptedIsGood DEF PollEnded, Last
  <2>4. Patient'
    BY <1>2, <1>4, <1>5, <2>1 DEF Patient, WaitAsked
  <2> QED BY <1>4, <1>5, <2>1, <2>3, <2>4 DEF PollInv
<1>9. CASE /\ ~Accepts(answer)
           /\ \E w \in WaitsAfter(answer, n + 1) : waits' = Append(waits, w)
           /\ IF n + 1 < MaxTries THEN GoOn ELSE Finish(NoAnswer)
  <2>1. PICK w \in WaitsAfter(answer, n + 1) : waits' = Append(waits, w)
    BY <1>9
  <2>2. w \in Int /\ w >= WaitAsked(answer)
    BY <1>4, <2>1, WaitsEnough
  <2>3. /\ waits' \in Seq(Int) /\ Len(waits') = n + 1 /\ DOMAIN waits' = 1..(n + 1)
        /\ waits'[n + 1] = w /\ \A i \in 1..n : waits'[i] = waits[i]
    BY <1>4, <1>5, <2>1, <2>2
  <2>4. Patient'
    <3>1. ASSUME NEW i \in 1..(n + 1) PROVE waits'[i] >= WaitAsked(answers'[i])
      <4>1. CASE i = n + 1
        BY <1>5, <2>2, <2>3, <4>1
      <4>2. CASE i \in 1..n
        BY <1>4, <1>5, <2>3, <4>2 DEF Patient
      <4> QED BY <1>4, <4>1, <4>2
    <3> QED BY <1>2, <2>3, <3>1 DEF Patient, WaitAsked
  <2>5. Good' = {}
    <3>1. ~Accepts(answers'[n + 1])
      BY <1>5, <1>9
    <3>2. \A i \in 1..(n + 1) : i \in 1..n \/ i = n + 1
      BY <1>4
    <3> HIDE DEF n
    <3> QED BY <1>6, <1>7, <3>1, <3>2
  <2>6. CASE n + 1 < MaxTries
    BY <1>2, <1>5, <1>9, <2>3, <2>4, <2>5, <2>6 DEF PollInv, GoOn
  <2>7. CASE ~(n + 1 < MaxTries)
    <3>1. phase' = "done" /\ output' = NoAnswer /\ n + 1 = MaxTries
      BY <1>4, <1>9, <2>7, LimitsAssumption DEF Finish
    <3>2. PollEnded'
      BY <1>5, <2>5, <3>1 DEF PollEnded
    <3> QED BY <1>5, <2>3, <2>4, <3>1, <3>2 DEF PollInv
  <2> QED BY <2>6, <2>7
<1> QED BY <1>1, <1>8, <1>9

\* Every step of a looping node keeps PollInv.
LEMMA PollNext ==
  ASSUME kind \in PollKinds, PollInv, [Next]_vars
  PROVE  PollInv'
<1>1. Poll \/ RequestRejects \/ UNCHANGED nodeVars
  BY NodeSteps
<1>2. CASE Poll
  BY <1>2, PollStep
<1>3. CASE RequestRejects
  <2>1. UNCHANGED <<answers, waits>> /\ phase' = "threw"
    BY <1>3 DEF RequestRejects, Fail
  <2> QED BY <2>1, NodeSteps DEF PollInv, Patient, WaitAsked
<1>4. CASE UNCHANGED nodeVars
  <2>1. UNCHANGED <<kind, answers, waits, phase, output>>
    BY <1>4 DEF nodeVars
  <2> QED BY <2>1 DEF PollInv, Patient, WaitAsked, PollEnded, Good, Accepts, IsNews, IsFinal
<1> QED BY <1>1, <1>2, <1>3, <1>4

\* A looping node starts in PollInv, with a limit of no turns too.
LEMMA PollInit ==
  ASSUME Init, kind \in PollKinds
  PROVE  PollInv
<1>1. /\ answers = <<>> /\ waits = <<>> /\ output = NoAnswer
      /\ phase = IF MaxTries = 0 THEN "done" ELSE "running"
  BY DEF Init, NeverTurns, PollKinds, PageKinds
<1>2. Good = {} /\ Patient
  BY <1>1 DEF Good, Patient
<1>3. MaxTries = 0 => PollEnded
  BY <1>1, <1>2 DEF PollEnded
<1>4. answers \in Seq(Replies) /\ waits \in Seq(Int) /\ Len(answers) = 0 /\ Len(waits) = 0
  BY <1>1
<1> QED BY <1>1, <1>2, <1>3, <1>4, LimitsAssumption DEF PollInv

\* A polling node, and one that waits out rate limits, ends at the first answer worth
\* having, or after its last try, and waits as long as each answer asked for.
THEOREM PollsEndAtFirstGoodAnswer == Spec => []EndsAtFirstGoodAnswer
<1> DEFINE I == kind \in PollKinds => PollInv
<1>1. Init => I
  BY PollInit
<1>2. I /\ [Next]_vars => I'
  BY PollNext, NodeSteps
<1>3. I => EndsAtFirstGoodAnswer
  BY DEF PollInv, PollEnded, Patient, EndsAtFirstGoodAnswer
<1> QED BY <1>1, <1>2, <1>3, PTL DEF Spec

-----------------------------------------------------------------------------
(* The paginations.                                                         *)

Pages == [status : {"ok", "server"}, items : Seq(Int), next : Int]

\* A page failed, a limit was reached, or everything was seen.
PagesEnded ==
  \/ Len(answers) = MaxPages
  \/ \E i \in DOMAIN answers : answers[i].status # "ok"
  \/ kind = "pagination-offset" /\ remote.cap < PageSize
  \/ Len(ItemsSeen) = Max2(remote.items - StartedAt, 0)

\* A running pagination asks next for what follows the items it has seen.
PageInv ==
  /\ remote \in Remotes(kind) /\ answers \in Seq(Pages)
  /\ \A i \in DOMAIN ItemsSeen : ItemsSeen[i] = StartedAt + i
  /\ Len(ItemsSeen) = 0 \/ StartedAt + Len(ItemsSeen) <= remote.items
  /\ phase = "running" => position = StartedAt + Len(ItemsSeen) /\ Len(answers) < MaxPages
  /\ phase = "done" => PagesEnded

\* What a remote of pages is, and where a pagination starts.
LEMMA RemotePages ==
  ASSUME kind \in PageKinds, remote \in Remotes(kind)
  PROVE  /\ remote.items \in Nat /\ remote.cap \in Nat \ {0} /\ remote.start \in Nat
         /\ StartedAt \in Nat
<1>1. remote \in [items : 0..MaxItems, cap : 1..(PageSize + 1), start : 0..1]
  BY DEF Remotes
<1> QED BY <1>1, LimitsAssumption DEF StartedAt

\* The items of a page are those that follow its start, as many as the server gives.
LEMMA PageItems ==
  ASSUME kind \in PageKinds, remote \in Remotes(kind), NEW start \in Nat,
         NEW page, page = PageAt(start)
  PROVE  /\ page \in Pages /\ page.status = "ok"
         /\ \A i \in DOMAIN page.items : page.items[i] = start + i
         /\ Len(page.items) = 0 \/ start + Len(page.items) <= remote.items
         /\ page.next # NoPage => page.next = start + Len(page.items)
         /\ page.next = NoPage => Len(page.items) = Max2(remote.items - start, 0)
         /\ kind = "pagination-offset" /\ Len(page.items) < PageSize /\ ~(remote.cap < PageSize) =>
              Len(page.items) = Max2(remote.items - start, 0)
<1> DEFINE asked == IF kind = "pagination-offset" THEN Min2(PageSize, remote.cap) ELSE remote.cap
           last == Min2(start + asked, remote.items)
           count == Max2(last, start) - start
<1>1. remote.items \in Nat /\ remote.cap \in Nat /\ PageSize \in Nat
  BY RemotePages, LimitsAssumption
<1>2. /\ asked \in Nat
      /\ kind = "pagination-offset" /\ ~(remote.cap < PageSize) => asked = PageSize
  BY <1>1 DEF Min2
<1>3. page = [status |-> "ok", items |-> [i \in 1..count |-> start + i],
              next |-> IF last < remote.items THEN last ELSE NoPage]
  BY DEF PageAt
<1> HIDE DEF asked
<1>4. last \in Nat /\ last <= remote.items /\ (last < remote.items => last = start + asked)
  BY <1>1, <1>2 DEF Min2
<1> HIDE DEF last
<1>5. /\ count \in Nat /\ (count = 0 \/ start + count = last)
      /\ last < remote.items => last = start + count /\ count = asked
      /\ ~(last < remote.items) => count = Max2(remote.items - start, 0)
  BY <1>1, <1>2, <1>4 DEF Max2
<1> HIDE DEF count
<1>6. /\ page.items = [i \in 1..count |-> start + i] /\ page.status = "ok"
      /\ page.next = IF last < remote.items THEN last ELSE NoPage
  BY <1>3
<1>7. /\ page.items \in Seq(Int) /\ Len(page.items) = count
      /\ \A i \in DOMAIN page.items : page.items[i] = start + i
  BY <1>5, <1>6
<1>8. page \in Pages
  BY <1>3, <1>4, <1>6, <1>7 DEF Pages, NoPage
<1> QED BY <1>1, <1>2, <1>4, <1>5, <1>6, <1>7, <1>8 DEF NoPage

\* The items of a sequence of pages that grows.
LEMMA PagesGrow ==
  ASSUME NEW a \in Seq(Pages), NEW page \in Pages
  PROVE  LET items == [i \in DOMAIN a |-> a[i].items]
             u == Append(a, page)
         IN  /\ items \in Seq(Seq(Int)) /\ page.items \in Seq(Int)
             /\ [i \in DOMAIN u |-> u[i].items] = Append(items, page.items)
<1> DEFINE items == [i \in DOMAIN a |-> a[i].items]
           u == Append(a, page)
           n == Len(a)
<1>1. \A p \in Pages : p.items \in Seq(Int)
  BY DEF Pages
<1>2. /\ n \in Nat /\ DOMAIN a = 1..n /\ \A i \in 1..n : a[i] \in Pages
      /\ DOMAIN u = 1..(n + 1) /\ u[n + 1] = page /\ \A i \in 1..n : u[i] = a[i]
  OBVIOUS
<1> HIDE DEF u, n
<1>3. items \in Seq(Seq(Int)) /\ Len(items) = n
  BY <1>1, <1>2
<1>4. [i \in DOMAIN u |-> u[i].items] = Append(items, page.items)
  BY <1>1, <1>2, <1>3
<1> QED BY <1>1, <1>3, <1>4 DEF u

\* A page adds its items to those seen.
LEMMA SeenGrows ==
  ASSUME answers \in Seq(Pages), NEW page \in Pages, answers' = Append(answers, page)
  PROVE  ItemsSeen \in Seq(Int) /\ ItemsSeen' = ItemsSeen \o page.items
<1> DEFINE items == [i \in DOMAIN answers |-> answers[i].items]
           items1 == [i \in DOMAIN answers' |-> answers'[i].items]
<1>1. items \in Seq(Seq(Int)) /\ page.items \in Seq(Int) /\ items1 = Append(items, page.items)
  BY PagesGrow
<1> HIDE DEF items, items1
<1>2. FlattenSeq(items1) = FlattenSeq(items) \o page.items /\ FlattenSeq(items) \in Seq(Int)
  BY <1>1, FlattenAppend
<1> QED BY <1>2 DEF ItemsSeen, items, items1

\* What the pages held is a sequence of items.
LEMMA SeenTyped ==
  ASSUME answers \in Seq(Pages)
  PROVE  ItemsSeen \in Seq(Int)
<1> DEFINE items == [i \in DOMAIN answers |-> answers[i].items]
<1>1. [status |-> "ok", items |-> <<>>, next |-> 0] \in Pages
  BY DEF Pages
<1>2. items \in Seq(Seq(Int))
  BY <1>1, PagesGrow
<1>3. <<>> \in Seq(Int)
  OBVIOUS
<1> HIDE DEF items
<1>4. FlattenSeq(items) \in Seq(Int)
  BY <1>2, <1>3, FlattenAppend
<1> QED BY <1>4 DEF ItemsSeen, items

\* The page that fails has no items.
LEMMA ErrorPageTyped ==
  ErrorPage \in Pages /\ ErrorPage.status # "ok" /\ ErrorPage.items = <<>>
    /\ ErrorPage.next = NoPage
BY DEF ErrorPage, Pages, NoPage

\* A list of m items, seen from s on: `seen` items before a page, `more` on it.
LEMMA SeenCounts ==
  ASSUME NEW s \in Nat, NEW seen \in Nat, NEW more \in Nat, NEW m \in Nat,
         seen = 0 \/ s + seen <= m
  PROVE  /\ (s + seen) + more = s + (seen + more)
         /\ more = 0 \/ (s + seen) + more <= m => seen + more = 0 \/ s + (seen + more) <= m
OBVIOUS

\* What a pagination has seen with one page more.
LEMMA SeenNext ==
  ASSUME kind \in PageKinds, PageInv, phase = "running", kind' = kind, remote' = remote,
         NEW page \in {PageAt(position), ErrorPage}, answers' = Append(answers, page)
  PROVE  /\ page \in Pages /\ answers' \in Seq(Pages) /\ Len(answers') = Len(answers) + 1
         /\ page.status # "ok" => PagesEnded'
         /\ ItemsSeen \in Seq(Int) /\ ItemsSeen' \in Seq(Int)
         /\ Len(ItemsSeen') = Len(ItemsSeen) + Len(page.items)
         /\ \A i \in DOMAIN ItemsSeen' : ItemsSeen'[i] = StartedAt' + i
         /\ Len(ItemsSeen') = 0 \/ StartedAt' + Len(ItemsSeen') <= remote'.items
<1>1. /\ remote \in Remotes(kind) /\ answers \in Seq(Pages) /\ position = StartedAt + Len(ItemsSeen)
      /\ \A i \in DOMAIN ItemsSeen : ItemsSeen[i] = StartedAt + i
      /\ Len(ItemsSeen) = 0 \/ StartedAt + Len(ItemsSeen) <= remote.items
  BY DEF PageInv
<1>2. StartedAt \in Nat /\ StartedAt' = StartedAt /\ remote.items \in Nat
  BY <1>1, RemotePages DEF StartedAt
<1>3. ItemsSeen \in Seq(Int)
  BY <1>1, SeenTyped
<1>4. Len(ItemsSeen) \in Nat /\ position \in Nat
  BY <1>1, <1>2, <1>3
<1>5. /\ page \in Pages
      /\ \A i \in DOMAIN page.items : page.items[i] = position + i
      /\ Len(page.items) = 0 \/ position + Len(page.items) <= remote.items
  BY <1>1, <1>4, PageItems, ErrorPageTyped
<1>6. ItemsSeen' = ItemsSeen \o page.items
  BY <1>1, <1>5, SeenGrows
<1>7. page.items \in Seq(Int)
  BY <1>5 DEF Pages
<1>8. /\ ItemsSeen' \in Seq(Int) /\ Len(ItemsSeen') = Len(ItemsSeen) + Len(page.items)
      /\ DOMAIN ItemsSeen' = 1..(Len(ItemsSeen) + Len(page.items))
      /\ \A i \in 1..(Len(ItemsSeen) + Len(page.items)) :
           ItemsSeen'[i] = IF i <= Len(ItemsSeen) THEN ItemsSeen[i] ELSE page.items[i - Len(ItemsSeen)]
  BY <1>3, <1>6, <1>7, ConcatProperties
<1>9. /\ DOMAIN ItemsSeen = 1..Len(ItemsSeen)
      /\ DOMAIN page.items = 1..Len(page.items) /\ Len(page.items) \in Nat
  BY <1>3, <1>7
<1>10. ASSUME NEW i \in DOMAIN ItemsSeen'
       PROVE  ItemsSeen'[i] = StartedAt' + i
  <2>1. CASE i <= Len(ItemsSeen)
    BY <1>1, <1>2, <1>4, <1>8, <1>9, <2>1
  <2>2. CASE ~(i <= Len(ItemsSeen))
    <3> DEFINE k == i - Len(ItemsSeen)
    <3>0. i \in 1..(Len(ItemsSeen) + Len(page.items)) /\ i \in Int
      BY <1>8
    <3>1. k \in DOMAIN page.items
      BY <1>4, <1>9, <2>2, <3>0
    <3>2. i \in Int /\ k = i - Len(ItemsSeen)
      BY <3>0
    <3>4. ItemsSeen'[i] = page.items[k]
      BY <1>8, <2>2, <3>0
    <3> HIDE DEF k
    <3>3. ItemsSeen'[i] = position + k /\ k \in Int
      BY <1>5, <1>9, <3>1, <3>4
    <3> QED BY <1>1, <1>2, <1>4, <3>2, <3>3
  <2> QED BY <2>1, <2>2
<1>11. /\ answers' \in Seq(Pages) /\ Len(answers') = Len(answers) + 1
       /\ Len(answers') \in DOMAIN answers' /\ answers'[Len(answers')] = page
  BY <1>1, <1>5
<1>12. page.status # "ok" => PagesEnded'
  BY <1>11 DEF PagesEnded
<1> DEFINE s == StartedAt
           seen == Len(ItemsSeen)
           more == Len(page.items)
           m == remote.items
<1>13. s \in Nat /\ seen \in Nat /\ more \in Nat /\ m \in Nat /\ (seen = 0 \/ s + seen <= m)
  BY <1>1, <1>2, <1>4, <1>9
<1>14. more = 0 \/ (s + seen) + more <= m
  BY <1>1, <1>5
<1>15. Len(ItemsSeen') = seen + more /\ StartedAt' = s /\ remote'.items = m
  BY <1>2, <1>8
<1>16. Len(ItemsSeen') = 0 \/ StartedAt' + Len(ItemsSeen') <= remote'.items
  <2> HIDE DEF s, seen, more, m
  <2>1. seen + more = 0 \/ s + (seen + more) <= m
    BY <1>13, <1>14, SeenCounts
  <2> QED BY <1>15, <2>1
<1> QED BY <1>3, <1>5, <1>8, <1>10, <1>11, <1>12, <1>16

\* One page more keeps PageInv.
LEMMA PageStep ==
  ASSUME kind \in PageKinds, PageInv, FetchPage
  PROVE  PageInv'
<1>1. PICK page \in {PageAt(position), ErrorPage} :
        /\ answers' = Append(answers, page)
        /\ position' = NextPosition(page)
        /\ IF position' # NoPage /\ Len(answers) + 1 < MaxPages THEN GoOn ELSE Finish("pages")
  BY DEF FetchPage
<1>2. phase = "running" /\ kind' = kind /\ remote' = remote
  BY DEF FetchPage, Running
<1>3. /\ page \in Pages /\ answers' \in Seq(Pages) /\ Len(answers') = Len(answers) + 1
      /\ page.status # "ok" => PagesEnded'
      /\ ItemsSeen \in Seq(Int) /\ ItemsSeen' \in Seq(Int)
      /\ Len(ItemsSeen') = Len(ItemsSeen) + Len(page.items)
      /\ \A i \in DOMAIN ItemsSeen' : ItemsSeen'[i] = StartedAt' + i
      /\ Len(ItemsSeen') = 0 \/ StartedAt' + Len(ItemsSeen') <= remote'.items
  BY <1>1, <1>2, SeenNext
<1>4. /\ remote \in Remotes(kind) /\ answers \in Seq(Pages) /\ position = StartedAt + Len(ItemsSeen)
      /\ Len(ItemsSeen) = 0 \/ StartedAt + Len(ItemsSeen) <= remote.items
      /\ Len(answers) < MaxPages
  BY <1>2 DEF PageInv
<1>5. StartedAt \in Nat /\ StartedAt' = StartedAt /\ remote.items \in Nat
  BY <1>2, <1>4, RemotePages DEF StartedAt
<1>6. Len(ItemsSeen) \in Nat /\ position \in Nat /\ Len(answers) \in Nat
  BY <1>3, <1>4, <1>5
<1>7. remote' \in Remotes(kind')
  BY <1>2, <1>4 DEF Remotes
<1>8. Len(page.items) \in Nat
  BY <1>3 DEF Pages
<1> DEFINE s == StartedAt
           seen == Len(ItemsSeen)
           more == Len(page.items)
           m == remote.items
<1>9. s \in Nat /\ seen \in Nat /\ more \in Nat /\ m \in Nat /\ (seen = 0 \/ s + seen <= m)
  BY <1>4, <1>5, <1>6, <1>8
<1>10. (s + seen) + more = s + (seen + more)
  <2> HIDE DEF s, seen, more, m
  <2> QED BY <1>9, SeenCounts
<1>11. more = Max2(m - (s + seen), 0) => seen + more = Max2(m - s, 0)
  <2> HIDE DEF s, seen, more, m
  <2> QED BY <1>9 DEF Max2
<1>12. CASE position' # NoPage /\ Len(answers) + 1 < MaxPages
  <2>1. phase' = "running"
    BY <1>1, <1>2, <1>12 DEF GoOn
  <2>2. position' = position + Len(page.items)
    <3>1. CASE kind = "pagination-offset"
      BY <1>1, <1>12, <3>1 DEF NextPosition
    <3>2. CASE kind # "pagination-offset"
      <4>1. position' = page.next
        BY <1>1, <3>2 DEF NextPosition
      <4>2. page = PageAt(position)
        BY <1>1, <1>12, <4>1, ErrorPageTyped
      <4> QED BY <1>4, <1>6, <1>12, <4>1, <4>2, PageItems
    <3> QED BY <3>1, <3>2
  <2>3. position' = StartedAt' + Len(ItemsSeen')
    <3>1. position' = (s + seen) + more
      BY <1>4, <2>2
    <3>2. StartedAt' = s /\ Len(ItemsSeen') = seen + more
      BY <1>3, <1>5
    <3> HIDE DEF s, seen, more
    <3> QED BY <1>10, <3>1, <3>2
  <2> QED BY <1>3, <1>7, <1>12, <2>1, <2>3 DEF PageInv
<1>13. CASE ~(position' # NoPage /\ Len(answers) + 1 < MaxPages)
  <2>1. phase' = "done"
    BY <1>1, <1>13 DEF Finish
  <2>2. PagesEnded'
    <3>1. CASE ~(Len(answers) + 1 < MaxPages)
      <4>1. Len(answers') = MaxPages
        BY <1>3, <1>4, <1>6, <3>1, LimitsAssumption
      <4> QED BY <4>1 DEF PagesEnded
    <3>2. CASE page = ErrorPage
      BY <1>3, <3>2, ErrorPageTyped
    <3>3. CASE kind = "pagination-offset" /\ remote.cap < PageSize
      BY <1>2, <3>3 DEF PagesEnded
    <3>4. CASE /\ position' = NoPage /\ page # ErrorPage
               /\ ~(kind = "pagination-offset" /\ remote.cap < PageSize)
      <4>1. page = PageAt(position)
        BY <3>4
      <4>2. Len(page.items) = Max2(remote.items - position, 0)
        <5>1. CASE kind = "pagination-offset"
          <6>1. position + Len(page.items) # NoPage
            BY <1>6, <1>8 DEF NoPage
          <6>2. Len(page.items) < PageSize
            BY <1>1, <3>4, <5>1, <6>1 DEF NextPosition
          <6> QED BY <1>4, <1>6, <3>4, <4>1, <5>1, <6>2, PageItems
        <5>2. CASE kind # "pagination-offset"
          <6>1. page.next = NoPage
            BY <1>1, <3>4, <5>2 DEF NextPosition
          <6> QED BY <1>4, <1>6, <4>1, <6>1, PageItems
        <5> QED BY <5>1, <5>2
      <4>3. Len(ItemsSeen') = Max2(remote.items - StartedAt, 0)
        <5>1. more = Max2(m - (s + seen), 0)
          BY <1>4, <4>2
        <5> QED BY <1>3, <1>11, <5>1
      <4> QED BY <1>2, <1>5, <4>3 DEF PagesEnded
    <3> QED BY <1>13, <3>1, <3>2, <3>3, <3>4
  <2> QED BY <1>3, <1>7, <2>1, <2>2 DEF PageInv
<1> QED BY <1>12, <1>13

\* Every step of a pagination keeps PageInv.
LEMMA PageNext ==
  ASSUME kind \in PageKinds, PageInv, [Next]_vars
  PROVE  PageInv'
<1>1. FetchPage \/ RequestRejects \/ UNCHANGED nodeVars
  BY NodeSteps
<1>2. UNCHANGED <<kind, remote>>
  BY NodeSteps
<1>3. CASE FetchPage
  BY <1>3, PageStep
<1>4. CASE RequestRejects
  <2>1. UNCHANGED <<answers, position>> /\ phase' = "threw"
    BY <1>4 DEF RequestRejects, Fail
  <2> QED BY <1>2, <2>1 DEF PageInv, ItemsSeen, StartedAt, Remotes
<1>5. CASE UNCHANGED nodeVars
  <2>1. UNCHANGED <<answers, phase, position>>
    BY <1>5 DEF nodeVars
  <2> QED BY <1>2, <2>1 DEF PageInv, PagesEnded, ItemsSeen, StartedAt, Remotes
<1> QED BY <1>1, <1>3, <1>4, <1>5

\* A pagination starts in PageInv.
LEMMA PageInit ==
  ASSUME Init, kind \in PageKinds
  PROVE  PageInv
<1>1. /\ answers = <<>> /\ remote \in Remotes(kind)
      /\ phase = IF MaxPages = 0 THEN "done" ELSE "running"
      /\ position = IF kind \in {"pagination-offset", "pagination-cursor"} THEN remote.start ELSE 0
  BY DEF Init, NeverTurns, PollKinds, PageKinds
<1>2. ItemsSeen = <<>>
  <2>1. [i \in DOMAIN answers |-> answers[i].items] = <<>>
    BY <1>1
  <2> QED BY <2>1, FlattenEmpty DEF ItemsSeen
<1>3. position = StartedAt /\ StartedAt \in Nat
  BY <1>1, RemotePages DEF StartedAt, PageKinds
<1>4. Len(answers) = 0 /\ Len(ItemsSeen) = 0 /\ answers \in Seq(Pages) /\ DOMAIN ItemsSeen = {}
  BY <1>1, <1>2
<1>5. MaxPages = 0 => PagesEnded
  BY <1>4 DEF PagesEnded
<1>6. position = StartedAt + Len(ItemsSeen)
  BY <1>3, <1>4
<1> QED BY <1>1, <1>4, <1>5, <1>6, LimitsAssumption DEF PageInv

\* A pagination returns the items of the list from its start on, in order and each
\* once, and all of them unless it says why not.
THEOREM PaginationsCoverTheList == Spec => []PagesCoverTheList
<1> DEFINE I == kind \in PageKinds => PageInv
<1>1. Init => I
  BY PageInit
<1>2. I /\ [Next]_vars => I'
  BY PageNext, NodeSteps
<1>3. I => PagesCoverTheList
  BY DEF PageInv, PagesEnded, PagesCoverTheList
<1> QED BY <1>1, <1>2, <1>3, PTL DEF Spec

-----------------------------------------------------------------------------
(* Cutting a text into blocks.                                              *)

NothingCut == [blocks |-> <<>>, left |-> <<>>]

Cuts(T) == [blocks : Seq(Seq(T)), left : Seq(T)]

\* One character more makes a cut of a cut.
LEMMA CutOnTyped ==
  ASSUME NEW T, NEW c \in Cuts(T), NEW t \in T
  PROVE  CutOn(c, t) \in Cuts(T)
<1>1. c.blocks \in Seq(Seq(T)) /\ c.left \in Seq(T)
  BY DEF Cuts
<1>2. Append(c.left, t) \in Seq(T)
  BY <1>1
<1>3. Front(c.left) \in Seq(T)
  BY <1>1, SubSeqProperties DEF Front
<1>4. Append(c.blocks, Front(c.left)) \in Seq(Seq(T))
  BY <1>1, <1>3
<1>5. <<>> \in Seq(T)
  OBVIOUS
<1> QED BY <1>1, <1>2, <1>4, <1>5 DEF CutOn, Cuts

\* Cut is the last of the values a recursion over the text takes.
LEMMA CutIsRecursive ==
  ASSUME NEW T, NEW text \in Seq(T)
  PROVE  \E f \in [0..Len(text) -> Cuts(T)] :
           /\ f[0] = NothingCut /\ \A n \in 1..Len(text) : f[n] = CutOn(f[n - 1], text[n])
           /\ Cut(text) = f[Len(text)]
<1> DEFINE N == Len(text)
           F == [p \in Cuts(T) \X (1..N) |-> CutOn(p[1], text[p[2]])]
           cut[n \in 0..Len(text)] ==
             IF n = 0 THEN [blocks |-> <<>>, left |-> <<>>] ELSE CutOn(cut[n - 1], text[n])
           Rec(h) == h = [n \in 0..N |-> IF n = 0 THEN NothingCut ELSE CutOn(h[n - 1], text[n])]
<1>1. N \in Nat /\ \A n \in 1..N : text[n] \in T
  OBVIOUS
<1>2. F \in [Cuts(T) \X (1..N) -> Cuts(T)]
  BY <1>1, CutOnTyped
<1>3. \A c \in Cuts(T), n \in 1..N : F[<<c, n>>] = CutOn(c, text[n])
  OBVIOUS
<1>4. NothingCut \in Cuts(T)
  BY DEF NothingCut, Cuts
<1>5. Cut(text) = cut[N]
  BY DEF Cut
<1>6. cut = CHOOSE h : Rec(h)
  BY DEF cut, NothingCut
<1> HIDE DEF F, N, cut
<1>7. PICK f : IsRecursion(f, Cuts(T), NothingCut, N, F)
  BY <1>1, <1>2, <1>4, RecursionExists
<1>8. /\ f \in [0..N -> Cuts(T)] /\ f[0] = NothingCut
      /\ \A n \in 1..N : f[n] = F[<<f[n - 1], n>>]
  BY <1>7 DEF IsRecursion
<1>9. ASSUME NEW n \in 1..N
      PROVE  f[n] = CutOn(f[n - 1], text[n])
  <2>1. n - 1 \in 0..N
    BY <1>1
  <2>2. f[n] = F[<<f[n - 1], n>>] /\ f[n - 1] \in Cuts(T)
    BY <1>8, <2>1
  <2> QED BY <1>3, <2>2
<1>10. Rec(f)
  <2>1. ASSUME NEW n \in 0..N
        PROVE  f[n] = IF n = 0 THEN NothingCut ELSE CutOn(f[n - 1], text[n])
    <3>1. CASE n = 0
      BY <1>8, <3>1
    <3>2. CASE n # 0
      <4>1. n \in 1..N
        BY <1>1, <3>2
      <4> QED BY <1>9, <3>2, <4>1
    <3> QED BY <3>1, <3>2
  <2> QED BY <1>8, <2>1
<1>11. Rec(cut)
  BY <1>6, <1>10
<1>12. cut[0] = f[0]
  BY <1>1, <1>8, <1>11
<1>13. ASSUME NEW n \in 1..N, cut[n - 1] = f[n - 1]
       PROVE  cut[n] = f[n]
  <2>1. n \in 0..N /\ n # 0
    BY <1>1
  <2>2. cut[n] = CutOn(cut[n - 1], text[n])
    BY <1>11, <2>1
  <2> QED BY <1>9, <1>13, <2>2
<1>14. cut[N] = f[N]
  BY <1>1, <1>12, <1>13, ValuesAgree
<1>15. \A n \in 1..N : f[n] = CutOn(f[n - 1], text[n])
  BY <1>9
<1> QED BY <1>5, <1>8, <1>14, <1>15 DEF N

\* Nothing is cut into nothing.
LEMMA CutEmpty == Cut(<<>>) = NothingCut
<1>1. <<>> \in Seq({}) /\ Len(<<>>) = 0
  OBVIOUS
<1>2. PICK f \in [0..Len(<<>>) -> Cuts({})] : f[0] = NothingCut /\ Cut(<<>>) = f[Len(<<>>)]
  BY <1>1, CutIsRecursive
<1> QED BY <1>1, <1>2

\* A text is cut into blocks and a rest.
LEMMA CutTyped ==
  ASSUME NEW T, NEW text \in Seq(T)
  PROVE  Cut(text) \in Cuts(T)
<1>1. PICK f \in [0..Len(text) -> Cuts(T)] : Cut(text) = f[Len(text)]
  BY CutIsRecursive
<1>2. Len(text) \in 0..Len(text)
  OBVIOUS
<1> QED BY <1>1, <1>2

\* Cutting a text that grows by a token goes on where the cut of the text is.
LEMMA CutAppend ==
  ASSUME NEW T, NEW text \in Seq(T), NEW t \in T
  PROVE  Cut(Append(text, t)) = CutOn(Cut(text), t)
<1> DEFINE N == Len(text)
           u == Append(text, t)
<1>1. /\ N \in Nat /\ u \in Seq(T) /\ Len(u) = N + 1
      /\ u[N + 1] = t /\ \A i \in 1..N : u[i] = text[i]
  OBVIOUS
<1>2. PICK f \in [0..N -> Cuts(T)] :
        /\ f[0] = NothingCut /\ \A n \in 1..N : f[n] = CutOn(f[n - 1], text[n])
        /\ Cut(text) = f[N]
  BY CutIsRecursive
<1> HIDE DEF u
<1>3. PICK g \in [0..Len(u) -> Cuts(T)] :
        /\ g[0] = NothingCut /\ \A n \in 1..Len(u) : g[n] = CutOn(g[n - 1], u[n])
        /\ Cut(u) = g[Len(u)]
  BY <1>1, CutIsRecursive
<1> HIDE DEF N
<1>4. ASSUME NEW n \in 1..N, g[n - 1] = f[n - 1]
      PROVE  g[n] = f[n]
  <2>1. n \in 1..Len(u) /\ u[n] = text[n]
    BY <1>1
  <2>2. g[n] = CutOn(g[n - 1], u[n]) /\ f[n] = CutOn(f[n - 1], text[n])
    BY <1>2, <1>3, <2>1
  <2> QED BY <1>4, <2>1, <2>2
<1>5. g[N] = f[N]
  <2>1. N \in Nat /\ g[0] = f[0]
    BY <1>1, <1>2, <1>3
  <2> QED BY <1>4, <2>1, ValuesAgree
<1>6. N + 1 \in 1..Len(u) /\ (N + 1) - 1 = N /\ N \in 0..N
  BY <1>1
<1>7. g[N + 1] = CutOn(g[(N + 1) - 1], u[N + 1])
  BY <1>3, <1>6
<1>8. Cut(u) = CutOn(Cut(text), t)
  BY <1>1, <1>2, <1>3, <1>5, <1>6, <1>7
<1> QED BY <1>8 DEF u

AppendsBehind(B, C, x) == Append(B \o C, x) = B \o Append(C, x)

\* Appending to what stands behind B is appending to the whole.
LEMMA AppendBehind ==
  ASSUME NEW U, NEW B \in Seq(U), NEW C \in Seq(U), NEW x \in U
  PROVE  AppendsBehind(B, C, x)
BY DEF AppendsBehind

\* d is the cut c with the blocks B in front.
Behind(d, B, c) == d.blocks = B \o c.blocks /\ d.left = c.left

\* A cut with blocks in front goes on as it would without them.
LEMMA CutOnBehind ==
  ASSUME NEW T, NEW B \in Seq(Seq(T)), NEW c \in Cuts(T), NEW t \in T,
         NEW d, Behind(d, B, c)
  PROVE  Behind(CutOn(d, t), B, CutOn(c, t))
<1>1. c.blocks \in Seq(Seq(T)) /\ c.left \in Seq(T) /\ d.blocks = B \o c.blocks /\ d.left = c.left
  BY DEF Cuts, Behind
<1>2. CASE t = "nl" /\ c.left # <<>> /\ Last(c.left) = "nl"
  <2> DEFINE x == Front(c.left)
             C == c.blocks
  <2>1. CutOn(d, t).blocks = Append(B \o C, x) /\ CutOn(d, t).left = <<>>
    BY <1>1, <1>2 DEF CutOn
  <2>2. CutOn(c, t).blocks = Append(C, x) /\ CutOn(c, t).left = <<>>
    BY <1>2 DEF CutOn
  <2>3. x \in Seq(T) /\ C \in Seq(Seq(T))
    BY <1>1, SubSeqProperties DEF Front
  <2> HIDE DEF x, C
  <2>4. AppendsBehind(B, C, x)
    BY <2>3, AppendBehind
  <2> QED BY Zenon, <2>1, <2>2, <2>4 DEF AppendsBehind, Behind
<1>3. CASE ~(t = "nl" /\ c.left # <<>> /\ Last(c.left) = "nl")
  BY <1>1, <1>3 DEF CutOn, Behind
<1> QED BY <1>2, <1>3

\* What is left of a text is not cut any further.
LEMMA CutOfLeft ==
  ASSUME NEW T, NEW text \in Seq(T)
  PROVE  Cut(Cut(text).left) = [blocks |-> <<>>, left |-> Cut(text).left]
<1> DEFINE P == {s \in Seq(T) : Cut(Cut(s).left) = [blocks |-> <<>>, left |-> Cut(s).left]}
<1>1. <<>> \in P
  BY CutEmpty DEF NothingCut
<1>2. ASSUME NEW s \in P, NEW t \in T
      PROVE  Append(s, t) \in P
  <2> DEFINE c == Cut(s)
             l == Cut(s).left
  <2>1. s \in Seq(T) /\ Append(s, t) \in Seq(T) /\ Cut(l) = [blocks |-> <<>>, left |-> l]
    OBVIOUS
  <2>2. Cut(Append(s, t)) = CutOn(c, t) /\ l \in Seq(T)
    BY <2>1, CutAppend, CutTyped DEF Cuts
  <2>3. CASE t = "nl" /\ l # <<>> /\ Last(l) = "nl"
    <3>1. Cut(Append(s, t)).left = <<>>
      BY <2>2, <2>3 DEF CutOn
    <3> QED BY <2>1, <3>1, CutEmpty DEF NothingCut
  <2>4. CASE ~(t = "nl" /\ l # <<>> /\ Last(l) = "nl")
    <3>1. Cut(Append(s, t)).left = Append(l, t)
      BY <2>2, <2>4 DEF CutOn
    <3>2. Cut(Append(l, t)) = CutOn(Cut(l), t)
      BY <2>2, CutAppend
    <3>3. Cut(Append(l, t)) = [blocks |-> <<>>, left |-> Append(l, t)]
      BY <2>1, <2>4, <3>2 DEF CutOn
    <3> QED BY <2>1, <3>1, <3>3
  <2> QED BY <2>3, <2>4
<1>3. P = Seq(T)
  <2>1. P \in SUBSET Seq(T)
    OBVIOUS
  <2> HIDE DEF P
  <2> QED BY <1>1, <1>2, <2>1, SeqInduction
<1> QED BY <1>3

\* Where a text is cut in two does not matter: the second part goes on with what is
\* left of the first.
LEMMA CutConcat ==
  ASSUME NEW T, NEW a \in Seq(T), NEW u \in Seq(T)
  PROVE  Behind(Cut(a \o u), Cut(a).blocks, Cut(Cut(a).left \o u))
<1> DEFINE l == Cut(a).left
           B == Cut(a).blocks
           P == {s \in Seq(T) : Behind(Cut(a \o s), B, Cut(l \o s))}
<1>1. B \in Seq(Seq(T)) /\ l \in Seq(T)
  BY CutTyped DEF Cuts
<1>2. <<>> \in P
  <2>1. Cut(l) = [blocks |-> <<>>, left |-> l] /\ l \o <<>> = l /\ a \o <<>> = a
    BY <1>1, CutOfLeft, ConcatEmptySeq
  <2>2. B \o <<>> = B
    BY <1>1, ConcatEmptySeq
  <2>3. Cut(l).blocks = <<>> /\ Cut(l).left = l
    BY <2>1
  <2>4. Behind(Cut(a), B, Cut(l))
    BY <2>2, <2>3 DEF Behind
  <2>5. Behind(Cut(a \o <<>>), B, Cut(l \o <<>>))
    BY Zenon, <2>1, <2>4
  <2>6. <<>> \in Seq(T)
    OBVIOUS
  <2> QED BY <2>5, <2>6
<1>3. ASSUME NEW s \in P, NEW t \in T
      PROVE  Append(s, t) \in P
  <2>1. s \in Seq(T) /\ Behind(Cut(a \o s), B, Cut(l \o s))
    OBVIOUS
  <2>2. Append(s, t) \in Seq(T)
    BY <2>1
  <2> HIDE DEF B, l
  <2>3. a \o s \in Seq(T) /\ l \o s \in Seq(T)
    BY <1>1, <2>1, ConcatProperties
  <2>4. a \o Append(s, t) = Append(a \o s, t) /\ l \o Append(s, t) = Append(l \o s, t)
    BY <1>1, <2>1
  <2>5. /\ Cut(l \o Append(s, t)) = CutOn(Cut(l \o s), t)
        /\ Cut(a \o Append(s, t)) = CutOn(Cut(a \o s), t)
    BY <2>3, <2>4, CutAppend
  <2>6. Cut(l \o s) \in Cuts(T)
    BY <2>3, CutTyped
  <2>7. Behind(CutOn(Cut(a \o s), t), B, CutOn(Cut(l \o s), t))
    BY <1>1, <2>1, <2>6, CutOnBehind
  <2> QED BY <2>2, <2>5, <2>7
<1>4. P = Seq(T)
  <2>1. P \in SUBSET Seq(T)
    OBVIOUS
  <2> HIDE DEF P
  <2> QED BY <1>2, <1>3, <2>1, SeqInduction
<1>5. u \in P
  BY <1>4
<1> QED BY <1>5

-----------------------------------------------------------------------------
(* The streams.                                                             *)

\* The events of a text are those of a first part, and those of the second part with
\* what is left of the first in front.
LEMMA EventsConcat ==
  ASSUME NEW T, NEW a \in Seq(T), NEW u \in Seq(T)
  PROVE  /\ EventsOf(a \o u) = EventsOf(a) \o EventsOf(Buffer(a) \o u)
         /\ Buffer(a \o u) = Buffer(Buffer(a) \o u)
         /\ Buffer(a) \in Seq(T)
<1> DEFINE l == Cut(a).left
           X == Cut(a).blocks
           Y == Cut(l \o u).blocks
           Z == Cut(a \o u).blocks
           E == {EventOf(b) : b \in Seq(T)}
<1>1. X \in Seq(Seq(T)) /\ l \in Seq(T)
  BY CutTyped DEF Cuts
<1>2. l \o u \in Seq(T)
  BY <1>1, ConcatProperties
<1>3. Y \in Seq(Seq(T))
  BY <1>2, CutTyped DEF Cuts
<1>4. Behind(Cut(a \o u), X, Cut(l \o u))
  BY CutConcat
<1>5. Follows(Z, X, Y) /\ Cut(a \o u).left = Cut(l \o u).left
  BY <1>4 DEF Behind, Follows
<1>6. Buffer(a) = l /\ Buffer(a \o u) = Buffer(l \o u)
  BY <1>5 DEF Buffer
<1> DEFINE ex == [i \in DOMAIN X |-> EventOf(X[i])]
           ey == [i \in DOMAIN Y |-> EventOf(Y[i])]
           ez == [i \in DOMAIN Z |-> EventOf(Z[i])]
<1>7. EventsOf(a) = ex /\ EventsOf(l \o u) = ey /\ EventsOf(a \o u) = ez
  BY DEF EventsOf
<1> HIDE DEF l, X, Y, Z
<1>8. /\ Z \in Seq(Seq(T)) /\ Len(Z) = Len(X) + Len(Y)
      /\ \A i \in 1..Len(X) : Z[i] = X[i]
      /\ \A i \in 1..Len(Y) : Z[Len(X) + i] = Y[i]
  BY <1>1, <1>3, <1>5, FollowsValues
<1>9. /\ ex \in Seq(E) /\ Len(ex) = Len(X) /\ \A i \in 1..Len(X) : ex[i] = EventOf(X[i])
      /\ ey \in Seq(E) /\ Len(ey) = Len(Y) /\ \A i \in 1..Len(Y) : ey[i] = EventOf(Y[i])
  <2>1. ex \in Seq(E) /\ Len(ex) = Len(X) /\ \A i \in 1..Len(X) : ex[i] = EventOf(X[i])
    BY <1>1
  <2>2. ey \in Seq(E) /\ Len(ey) = Len(Y) /\ \A i \in 1..Len(Y) : ey[i] = EventOf(Y[i])
    BY <1>3
  <2> QED BY <2>1, <2>2
<1>10. ez \in Seq(E) /\ Len(ez) = Len(Z) /\ \A i \in 1..Len(Z) : ez[i] = EventOf(Z[i])
  BY <1>8
<1> HIDE DEF ex, ey, ez, E
<1>11. Len(X) \in Nat /\ Len(Y) \in Nat
  BY <1>1, <1>3
<1>12. ASSUME NEW i \in 1..Len(ex)
       PROVE  ez[i] = ex[i]
  <2>1. i \in 1..Len(X) /\ i \in 1..Len(Z)
    BY <1>8, <1>9, <1>11
  <2> QED BY <1>8, <1>9, <1>10, <2>1
<1>13. ASSUME NEW i \in 1..Len(ey)
       PROVE  ez[Len(ex) + i] = ey[i]
  <2>1. i \in 1..Len(Y) /\ Len(X) + i \in 1..Len(Z)
    BY <1>8, <1>9, <1>11
  <2> QED BY <1>8, <1>9, <1>10, <2>1
<1>14. Len(ez) = Len(ex) + Len(ey)
  BY <1>8, <1>9, <1>10
<1>15. Follows(ez, ex, ey)
  BY <1>9, <1>10, <1>12, <1>13, <1>14, FollowsByValue
<1>16. EventsOf(a \o u) = EventsOf(a) \o EventsOf(l \o u)
  BY Zenon, <1>7, <1>15 DEF Follows
<1> QED BY <1>1, <1>6, <1>16

\* What streams are made of.
Alphabet == UNION {Range(s) : s \in Streams}

\* A stream is a sequence of characters.
LEMMA StreamTyped ==
  ASSUME NEW s \in Streams
  PROVE  s \in Seq(Alphabet)
<1>1. s \in Seq(Range(s)) /\ Range(s) \subseteq Alphabet
  BY StreamsAssumption DEF Alphabet
<1> QED BY <1>1, SeqMonotonic

\* The part of a stream that was read.
Read(n) == SubSeq(remote.stream, 1, n)

\* A chunk goes on where the part that was read ends.
LEMMA ReadMore ==
  ASSUME remote.stream \in Seq(Alphabet), NEW n \in 0..Len(remote.stream),
         NEW length \in 1..(Len(remote.stream) - n)
  PROVE  LET chunk == SubSeq(remote.stream, n + 1, n + length) IN
         /\ chunk \in Seq(Alphabet) /\ Read(n) \in Seq(Alphabet)
         /\ Read(n) \o chunk = Read(n + length) /\ n + length \in 0..Len(remote.stream)
<1> DEFINE m == n + length
<1>1. m \in n..Len(remote.stream) /\ m \in 0..Len(remote.stream)
  OBVIOUS
<1>2. \A i \in 1..Len(remote.stream) : remote.stream[i] \in Alphabet
  OBVIOUS
<1>3. SubSeq(remote.stream, n + 1, m) \in Seq(Alphabet)
  BY <1>1, <1>2, SubSeqProperties
<1>4. Read(n) \in Seq(Alphabet)
  BY <1>2, SubSeqProperties DEF Read
<1>5. Read(n) \o SubSeq(remote.stream, n + 1, m) = Read(m)
  <2>1. 1 \in 1..(Len(remote.stream) + 1) /\ n \in (1 - 1)..Len(remote.stream)
    OBVIOUS
  <2> HIDE DEF m
  <2> QED BY <1>1, <2>1, ConcatAdjacentSubSeq DEF Read
<1> QED BY <1>1, <1>3, <1>4, <1>5

\* The events of an event stream, and the chunks of a download, are those of the part
\* that was read.
StreamInv ==
  /\ remote.stream \in Seq(Alphabet) /\ position \in 0..Len(remote.stream)
  /\ kind = "sse-consume" => events = EventsOf(Read(position)) /\ buffer = Buffer(Read(position))
  /\ kind = "download-stream" =>
       /\ events \in Seq(Seq(Alphabet)) /\ FlattenSeq(events) = Read(position)
       /\ phase = "done" => output.content = remote.stream

\* A stream starts in StreamInv, with nothing read.
LEMMA StreamInit ==
  ASSUME Init, kind \in StreamKinds
  PROVE  StreamInv
<1>1. remote \in [stream : Streams]
  BY DEF Init, Remotes, StreamKinds, PageKinds
<1>2. /\ position = 0 /\ events = <<>> /\ buffer = <<>>
      /\ phase = "running"
  BY DEF Init, StreamKinds, NeverTurns, PollKinds, PageKinds
<1>3. remote.stream \in Seq(Alphabet)
  BY <1>1, StreamTyped
<1>4. Read(0) = <<>>
  BY SubSeqEmpty DEF Read
<1>5. EventsOf(<<>>) = <<>> /\ Buffer(<<>>) = <<>>
  BY CutEmpty DEF EventsOf, Buffer, NothingCut
<1>6. Len(remote.stream) \in Nat /\ events \in Seq(Seq(Alphabet))
  BY <1>2, <1>3
<1> QED BY <1>2, <1>3, <1>4, <1>5, <1>6, FlattenEmpty DEF StreamInv

\* Reading a chunk of an event stream keeps StreamInv.
LEMMA ReadEventsStep ==
  ASSUME StreamInv, ReadEvents
  PROVE  StreamInv'
<1>1. kind = "sse-consume" /\ kind' = kind /\ remote' = remote /\ phase' = phase
  BY DEF ReadEvents, Running
<1>2. PICK length \in 1..(Len(remote.stream) - position) :
        /\ events' = events \o EventsOf(buffer \o Chunk(length))
        /\ buffer' = Buffer(buffer \o Chunk(length))
        /\ position' = position + length
  BY DEF ReadEvents
<1>3. /\ remote.stream \in Seq(Alphabet) /\ position \in 0..Len(remote.stream)
      /\ events = EventsOf(Read(position)) /\ buffer = Buffer(Read(position))
  BY <1>1 DEF StreamInv
<1> DEFINE a == Read(position)
           u == Chunk(length)
<1>4. /\ u \in Seq(Alphabet) /\ a \in Seq(Alphabet) /\ a \o u = Read(position')
      /\ position' \in 0..Len(remote.stream)
  BY <1>2, <1>3, ReadMore DEF Chunk
<1> HIDE DEF a, u
<1>5. /\ EventsOf(a \o u) = EventsOf(a) \o EventsOf(Buffer(a) \o u)
      /\ Buffer(a \o u) = Buffer(Buffer(a) \o u)
  BY <1>4, EventsConcat
<1>6. events' = EventsOf(Read(position')) /\ buffer' = Buffer(Read(position'))
  BY Zenon, <1>2, <1>3, <1>4, <1>5 DEF a, u
<1>7. Read(position)' = Read(position')
  BY <1>1 DEF Read
<1> QED BY <1>1, <1>3, <1>4, <1>6, <1>7 DEF StreamInv

\* Reading a chunk of a download keeps StreamInv.
LEMMA ReadBytesStep ==
  ASSUME StreamInv, ReadBytes
  PROVE  StreamInv'
<1>1. /\ kind = "download-stream" /\ phase = "running"
      /\ kind' = kind /\ remote' = remote /\ phase' = phase
  BY DEF ReadBytes, Running
<1>2. PICK length \in 1..(Len(remote.stream) - position) :
        events' = Append(events, Chunk(length)) /\ position' = position + length
  BY DEF ReadBytes
<1>3. /\ remote.stream \in Seq(Alphabet) /\ position \in 0..Len(remote.stream)
      /\ events \in Seq(Seq(Alphabet)) /\ FlattenSeq(events) = Read(position)
  BY <1>1 DEF StreamInv
<1> DEFINE u == Chunk(length)
<1>4. /\ u \in Seq(Alphabet) /\ Read(position) \o u = Read(position')
      /\ position' \in 0..Len(remote.stream)
  BY <1>2, <1>3, ReadMore DEF Chunk
<1> HIDE DEF u
<1>5. events' = Append(events, u)
  BY <1>2 DEF u
<1>6. events' \in Seq(Seq(Alphabet))
  BY <1>3, <1>4, <1>5
<1>7. FlattenSeq(Append(events, u)) = FlattenSeq(events) \o u
  BY <1>3, <1>4, FlattenAppend
<1>8. FlattenSeq(events') = Read(position')
  BY Zenon, <1>3, <1>4, <1>5, <1>7
<1>9. Read(position)' = Read(position')
  BY <1>1 DEF Read
<1> QED BY <1>1, <1>3, <1>4, <1>6, <1>8, <1>9 DEF StreamInv

\* Every step of a streaming node keeps StreamInv.
LEMMA StreamNext ==
  ASSUME kind \in StreamKinds, StreamInv, [Next]_vars
  PROVE  StreamInv'
<1>1. UNCHANGED <<kind, remote>>
  BY NodeSteps
<1>2. \/ ReadEvents \/ ReadBytes
      \/ StreamEnds \/ DownloadEnds \/ RequestRejects \/ UNCHANGED nodeVars
  BY NodeSteps DEF StreamKinds
<1>3. CASE ReadEvents
  BY <1>3, ReadEventsStep
<1>4. CASE ReadBytes
  BY <1>4, ReadBytesStep
<1>5. CASE StreamEnds
  <2>1. kind = "sse-consume" /\ UNCHANGED <<position, buffer, events>>
    BY <1>5 DEF StreamEnds, Running
  <2> QED BY <1>1, <2>1 DEF StreamInv, Read
<1>6. CASE DownloadEnds
  <2>1. /\ kind = "download-stream" /\ UNCHANGED <<position, events>>
        /\ position = Len(remote.stream) /\ output' = [total |-> position, content |-> FlattenSeq(events)]
    BY <1>6 DEF DownloadEnds, Running, Finish
  <2>2. FlattenSeq(events) = Read(position) /\ remote.stream \in Seq(Alphabet)
    BY <2>1 DEF StreamInv
  <2>3. Read(position) = remote.stream
    BY <2>1, <2>2, SubSeqFull DEF Read
  <2>4. output'.content = remote'.stream
    BY <1>1, <2>1, <2>2, <2>3
  <2> QED BY <1>1, <2>1, <2>4 DEF StreamInv, Read
<1>7. CASE RequestRejects
  <2>1. phase' = "threw" /\ UNCHANGED <<position, buffer, events>>
    BY <1>7 DEF RequestRejects, Fail
  <2> QED BY <1>1, <2>1 DEF StreamInv, Read
<1>8. CASE UNCHANGED nodeVars
  <2>1. UNCHANGED <<position, buffer, events, phase, output>>
    BY <1>8 DEF nodeVars
  <2> QED BY <1>1, <2>1 DEF StreamInv, Read
<1> QED BY <1>2, <1>3, <1>4, <1>5, <1>6, <1>7, <1>8

\* The events of a stream, and the content of a download, do not depend on how the
\* network cuts the stream.
THEOREM StreamsAreChunkBlind == Spec => []StreamIsChunkBlind
<1> DEFINE I == kind \in StreamKinds => StreamInv
<1>1. Init => I
  BY StreamInit
<1>2. I /\ [Next]_vars => I'
  BY StreamNext, NodeSteps
<1>3. I => StreamIsChunkBlind
  BY DEF StreamInv, StreamKinds, StreamIsChunkBlind, Read
<1> QED BY <1>1, <1>2, <1>3, PTL DEF Spec
=============================================================================
