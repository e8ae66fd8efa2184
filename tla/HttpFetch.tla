----------------------------- MODULE HttpFetch -----------------------------
(***************************************************************************)
(* core.openwop.http.fetch (fetchNode) with a method that is not idempotent *)
(* and the key it then sends: one request tried a bounded number of times,  *)
(* with a timer and an abort listener per attempt and per wait between      *)
(* attempts. Around it the workflow, which calls the node in a loop or in a *)
(* fork, the caller, which may abort, the host, which may crash and run the *)
(* node again, and a remote that may process a request long after the node  *)
(* gave up on it.                                                           *)
(***************************************************************************)
EXTENDS Naturals

CONSTANTS
  MaxAttempts,   \* config.retry.maxAttempts
  LastCall,      \* bound: how often workflows call the node
  MaxRuns,       \* bound: how often the host runs it, for all the calls
  WorkflowRuns,  \* ids of workflow runs
  Bodies,        \* request bodies
  Plans          \* the calls, in their order

Calls == 1..LastCall
\* What deriveIdempotencyKey is told of a call; the node is always this one.
Call == [run: WorkflowRuns, body: Bodies]

ASSUME BoundsAssumption ==
  /\ MaxAttempts \in Nat \ {0} /\ LastCall \in Nat \ {0} /\ MaxRuns \in Nat \ {0}
  /\ Plans \subseteq [Calls -> Call]

VARIABLES
  plan,          \* the calls the workflows make
  call,          \* the call in progress
  cancelled,     \* ctx.signal.aborted
  runs,          \* runs of the node so far
  stage,         \* what the run waits for
  attempts,      \* attempts of this run
  timers,        \* what a timer is armed for: the attempt, the sleep
  listeners,     \* what listens on ctx.signal
  aborted,       \* attemptController.signal.aborted
  lastResponse,  \* a 5xx answer is kept in lastResponse
  statuses,      \* per attempt of this run, the status of the answer
  result,        \* what the run came to
  inFlight,      \* requests the remote has yet to process
  effects        \* the requests that took effect

node == <<call, runs, stage, attempts, timers, listeners, aborted, lastResponse, statuses, result>>
remoteVars == <<inFlight, effects>>
fetchVars == <<plan, cancelled, node, remoteVars>>

Runs == 1..MaxRuns
Attempts == 1..MaxAttempts
Requests == [call: Calls, run: Runs, attempt: Attempts]
Request == [call |-> call, run |-> runs, attempt |-> attempts]

\* 2xx and 3xx, 4xx, 5xx.
StatusClasses == {"success", "clientError", "serverError"}
NoAnswers == [a \in Attempts |-> "none"]

\* The hash covers the run of the workflow and the body, neither the attempt nor
\* the run of the node, and not the URL.
\* (Faulty variants: a fresh key for every request; the body is left out.)
FreshKey(q) == q
BodylessKey(q) == plan[q.call].run
IdempotencyKey(q) == plan[q.call]

FetchInit ==
  /\ plan \in Plans
  /\ call = 1
  /\ cancelled = FALSE
  /\ runs = 0
  /\ stage = "start"
  /\ attempts = 0
  /\ timers = {} /\ listeners = {} /\ aborted = FALSE
  /\ lastResponse = FALSE
  /\ statuses = NoAnswers
  /\ result = "none"
  /\ inFlight = {}
  /\ effects = {}

-----------------------------------------------------------------------------
(* The retry loop.                                                         *)

\* (Faulty variant: one attempt less.)
OneLessLeft == attempts + 1 < MaxAttempts
AttemptsLeft == attempts < MaxAttempts

\* (Faulty variant: no timeout.)
StartUntimedAttempt ==
  /\ attempts' = attempts + 1
  /\ timers' = {} /\ listeners' = {"attempt"} /\ aborted' = FALSE
  /\ stage' = "lookup"
StartAttempt ==
  /\ attempts' = attempts + 1
  /\ timers' = (timers \ {"sleep"}) \cup {"attempt"}
  /\ listeners' = (listeners \ {"sleep"}) \cup {"attempt"}
  /\ aborted' = FALSE
  /\ stage' = "lookup"

Return(r) == stage' = "ended" /\ result' = r

\* clearTimeout and removeEventListener, which every end of an attempt calls.
\* (Faulty variant: only the former.)
DisarmTimer == timers' = timers \ {"attempt"} /\ UNCHANGED listeners
Disarm == timers' = timers \ {"attempt"} /\ listeners' = listeners \ {"attempt"}

\* What ends the attempt is followed by sleep(delay, ctx.signal), which arms a
\* timer and a listener of its own, unless the signal is aborted: it then rejects,
\* which ends the run.
\* (Faulty variant: it does not look at the signal.)
ArmSleep ==
  /\ stage' = "backoff" /\ UNCHANGED result
  /\ timers' = (timers \ {"attempt"}) \cup {"sleep"}
  /\ listeners' = (listeners \ {"attempt"}) \cup {"sleep"}
Sleep == IF cancelled THEN Return("thrown") /\ Disarm ELSE ArmSleep

\* The catch block and what follows the loop.
Caught ==
  /\ IF cancelled THEN Return("thrown") /\ Disarm
     ELSE IF AttemptsLeft THEN Sleep
     ELSE IF lastResponse THEN stage' = "lastBody" /\ UNCHANGED result /\ Disarm
     ELSE Return("zero") /\ Disarm
  /\ UNCHANGED <<call, runs, attempts, aborted, lastResponse, statuses>>

\* The host runs the node, for the first time or after a crash.
Begin ==
  /\ stage = "start"
  /\ runs < MaxRuns
  /\ runs' = runs + 1
  /\ StartAttempt
  /\ UNCHANGED <<plan, cancelled, call, lastResponse, statuses, result, remoteVars>>

\* assertPublicUrl has looked the host up: the request goes out, unless the
\* signal is already aborted.
LookedUp ==
  /\ stage = "lookup"
  /\ IF aborted THEN Caught /\ UNCHANGED remoteVars
     ELSE /\ stage' = "fetch"
          /\ inFlight' = inFlight \cup {Request}
          /\ UNCHANGED <<call, runs, attempts, timers, listeners, aborted, lastResponse, statuses, result, effects>>
  /\ UNCHANGED <<plan, cancelled>>

\* It refuses the URL or cannot look it up, which no further attempt mends.
Refused ==
  /\ stage = "lookup"
  /\ Disarm
  /\ Return("thrown")
  /\ UNCHANGED <<plan, cancelled, call, runs, attempts, aborted, lastResponse, statuses, remoteVars>>

\* The status and the headers arrive. A 5xx is kept and retried while attempts
\* are left; for all else the body is read next.
Answer(s) ==
  /\ stage = "fetch" /\ ~aborted
  /\ s = "success" => Request \notin inFlight
  /\ inFlight' = IF s = "clientError" THEN inFlight \ {Request} ELSE inFlight
  /\ statuses' = [statuses EXCEPT ![attempts] = s]
  /\ IF s = "serverError" /\ AttemptsLeft
     THEN lastResponse' = TRUE /\ Sleep
     ELSE stage' = "body" /\ Disarm /\ UNCHANGED <<lastResponse, result>>
  /\ UNCHANGED <<plan, cancelled, call, runs, attempts, aborted, effects>>

\* fetch rejects: the connection fails, or the attempt was aborted.
FetchRejects ==
  /\ stage = "fetch"
  /\ Caught
  /\ UNCHANGED <<plan, cancelled, remoteVars>>

\* res.text() settles: the run returns, or the catch block takes it as a network
\* error.
BodyRead ==
  /\ stage = "body"
  /\ Return(statuses[attempts])
  /\ UNCHANGED <<plan, cancelled, call, runs, attempts, timers, listeners, aborted, lastResponse, statuses, remoteVars>>
BodyRejects ==
  /\ stage = "body"
  /\ Caught
  /\ UNCHANGED <<plan, cancelled, remoteVars>>

\* The timer of sleep fires; it takes its listener away.
BackoffEnds ==
  /\ stage = "backoff"
  /\ StartAttempt
  /\ UNCHANGED <<plan, cancelled, call, runs, lastResponse, statuses, result, remoteVars>>

\* lastResponse.text(), whose rejection counts as an empty body.
LastBodySettles ==
  /\ stage = "lastBody"
  /\ Return("serverError")
  /\ UNCHANGED <<plan, cancelled, call, runs, attempts, timers, listeners, aborted, lastResponse, statuses, remoteVars>>

-----------------------------------------------------------------------------
(* What happens to it.                                                     *)

\* The timer of an attempt fires.
TimerFires ==
  /\ "attempt" \in timers
  /\ timers' = timers \ {"attempt"}
  /\ aborted' = TRUE
  /\ UNCHANGED <<plan, cancelled, call, runs, stage, attempts, listeners, lastResponse, statuses, result, remoteVars>>

\* ctx.signal aborts, before the node is run or while it runs, and its listeners
\* fire, once: the attempt is aborted, the sleep rejects. A listener put on it
\* later never fires.
CallerAborts ==
  /\ stage # "ended" /\ ~cancelled
  /\ cancelled' = TRUE
  /\ listeners' = {}
  /\ aborted' = (aborted \/ "attempt" \in listeners)
  /\ IF "sleep" \in listeners
     THEN Return("thrown") /\ timers' = timers \ {"sleep"}
     ELSE UNCHANGED <<stage, result, timers>>
  /\ UNCHANGED <<plan, call, runs, attempts, lastResponse, statuses, remoteVars>>

\* Nothing is left of a run of the node.
Forget ==
  /\ stage' = "start"
  /\ attempts' = 0
  /\ timers' = {} /\ listeners' = {} /\ aborted' = FALSE
  /\ lastResponse' = FALSE
  /\ statuses' = NoAnswers
  /\ result' = "none"

\* The host's process ends; it runs the node again unless the run was cancelled.
Crash ==
  /\ stage \notin {"start", "ended"} /\ ~cancelled
  /\ Forget
  /\ UNCHANGED <<plan, cancelled, call, runs, remoteVars>>

\* A workflow calls the node again: a loop, or another run of it.
NextCall ==
  /\ stage = "ended" /\ call < LastCall
  /\ call' = call + 1
  /\ cancelled' = (cancelled /\ plan[call].run = plan[call'].run)
  /\ Forget
  /\ UNCHANGED <<plan, runs, remoteVars>>

\* The remote processes a request, however late, unless it has seen its key.
Process(q) ==
  /\ inFlight' = inFlight \ {q}
  /\ effects' = IF \E e \in effects : IdempotencyKey(e) = IdempotencyKey(q)
                THEN effects ELSE effects \cup {q}
  /\ UNCHANGED <<plan, cancelled, node>>

Node ==
  \/ Begin \/ LookedUp \/ Refused
  \/ \E s \in StatusClasses : Answer(s)
  \/ FetchRejects \/ BodyRead \/ BodyRejects \/ BackoffEnds \/ LastBodySettles

FetchNext ==
  \/ Node \/ TimerFires \/ CallerAborts \/ Crash \/ NextCall
  \/ \E q \in inFlight : Process(q)

FetchSpec == FetchInit /\ [][FetchNext]_fetchVars

\* Timers fire, a lookup settles, an aborted fetch rejects. Nothing is assumed of
\* the remote.
NodeFair ==
  /\ WF_fetchVars(TimerFires)
  /\ WF_fetchVars(LookedUp \/ Refused)
  /\ WF_fetchVars(aborted /\ FetchRejects)
  /\ WF_fetchVars(BackoffEnds)

\* Once a remote has answered it ends the body or breaks the connection.
BodiesEnd == WF_fetchVars(BodyRead \/ BodyRejects) /\ WF_fetchVars(LastBodySettles)

FairSpec == FetchSpec /\ NodeFair /\ BodiesEnd

-----------------------------------------------------------------------------
(* Properties.                                                             *)

TypeOK ==
  /\ plan \in Plans
  /\ call \in Calls
  /\ cancelled \in BOOLEAN
  /\ runs \in 0..MaxRuns
  /\ stage \in {"start", "lookup", "fetch", "body", "backoff", "lastBody", "ended"}
  /\ attempts \in 0..MaxAttempts
  /\ stage # "start" => attempts # 0 /\ runs # 0
  /\ timers \subseteq {"attempt", "sleep"} /\ listeners \subseteq {"attempt", "sleep"}
  /\ aborted \in BOOLEAN
  /\ lastResponse \in BOOLEAN
  /\ statuses \in [Attempts -> StatusClasses \cup {"none"}]
  /\ result \in StatusClasses \cup {"none", "zero", "thrown"}
  /\ inFlight \subseteq Requests
  /\ effects \subseteq Requests

\* Nothing of one attempt outlives it: in the wait only the timer and the listener
\* of the sleep are armed, in an attempt only its own, and none while a body is
\* read or once the run has ended, wherever timeouts, aborts and answers meet
\* (fetchNode, the clearTimeout and removeEventListener calls; sleep).
NothingLeft ==
  /\ stage \in {"lookup", "fetch"} => timers \cup listeners \subseteq {"attempt"}
  /\ stage = "backoff" => timers = {"sleep"} /\ listeners = {"sleep"}
  /\ stage \in {"start", "body", "lastBody", "ended"} => timers = {} /\ listeners = {}

\* Once the caller has aborted, no further attempt begins ("no retry",
\* README.md of the pack), wherever the abort finds the node.
NoRetryAfterAbort == [][cancelled /\ attempts # 0 => attempts' <= attempts]_fetchVars

TookEffect(c) == \E e \in effects : plan[e.call] = plan[c]

\* Calls of one workflow run with one body take effect at most once, over all
\* attempts, runs of the node and calls, late requests included; and a call that
\* reports success did take effect, its own request or that of an equal call:
\* never is the effect of another run or another body taken for its own
\* (deriveIdempotencyKey: what the hash covers, and what it leaves out).
SideEffectOnce ==
  /\ \A e, f \in effects : plan[e.call] = plan[f.call] => e = f
  /\ result = "success" => TookEffect(call)

\* The node reports a server error, or that there was no answer, only when it has
\* used up its attempts, and a server error it reports is one it was answered.
GivesUpExhausted ==
  /\ result \in {"serverError", "zero"} => attempts = MaxAttempts
  /\ result = "serverError" => \E a \in Attempts : statuses[a] = "serverError"

\* Every run of the node ends, though the remote may never answer.
RunEnds == stage \in {"lookup", "fetch", "body", "backoff", "lastBody"} ~> stage \in {"start", "ended"}

=============================================================================
