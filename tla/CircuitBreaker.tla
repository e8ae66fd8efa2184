--------------------------- MODULE CircuitBreaker ---------------------------
(***************************************************************************)
(* The node core.openwop.http.circuit-breaker, for one breaker key. The     *)
(* module keeps a Map CB_STATE from keys to state objects for the life of    *)
(* the process. A call reads the object before its request and changes it    *)
(* after, so any number of calls are between the two; the calls that found    *)
(* no object each make one of their own, and each stores its own when it      *)
(* ends. `now` is read before the request and used after it.                  *)
(***************************************************************************)
EXTENDS Naturals, FiniteSets

CONSTANTS
  Callers,    \* runs that go through the breaker, each one call at a time
  NoObject,   \* what CB_STATE.get returns before any call has ended
  Threshold,  \* config.threshold
  Cooldown,   \* config.cooldownMs
  MaxClock,   \* bound on Date.now()
  MaxCalls    \* bound on the calls of a caller

ASSUME CallersAssumption == IsFiniteSet(Callers) /\ NoObject \notin Callers
ASSUME ThresholdAssumption == Threshold \in Nat \ {0} /\ Cooldown \in Nat
ASSUME CallBoundAssumption == MaxClock \in Nat /\ MaxCalls \in Nat

VARIABLES
  CB_STATE,   \* the object stored under the key, named by the caller that made it
  failures,   \* failures of each object
  openUntil,  \* openUntil of each object
  held,       \* the object each call in flight read, NoObject for a caller that makes none
  began,      \* `now` of each call
  calls,      \* how many calls each caller has made
  outcome,    \* how the last call of each caller ended
  admitted,   \* requests let through on an object since it last opened or saw a success
  clock       \* Date.now()

breakerVars == <<CB_STATE, failures, openUntil, held, began, calls, outcome, admitted, clock>>

BreakerInit ==
  /\ CB_STATE = NoObject
  /\ failures = [c \in Callers |-> 0]
  /\ openUntil = [c \in Callers |-> 0]
  /\ held = [c \in Callers |-> NoObject]
  /\ began = [c \in Callers |-> 0]
  /\ calls = [c \in Callers |-> 0]
  /\ outcome = [c \in Callers |-> "none"]
  /\ admitted = [c \in Callers |-> 0]
  /\ clock = 0

\* The object a call works on: the stored one, or a new one of its own.
ObjectFor(c) == IF CB_STATE = NoObject THEN c ELSE CB_STATE

IsOpen(o) == openUntil[o] > clock

InFlight(c) == held[c] # NoObject

CanCall(c) == ~InFlight(c) /\ calls[c] < MaxCalls

\* The circuit is closed: the call sends its request.
Admit(c) ==
  /\ CanCall(c) /\ ~IsOpen(ObjectFor(c))
  /\ held' = [held EXCEPT ![c] = ObjectFor(c)]
  /\ began' = [began EXCEPT ![c] = clock]
  /\ calls' = [calls EXCEPT ![c] = @ + 1]
  /\ admitted' = [admitted EXCEPT ![ObjectFor(c)] = @ + 1]
  /\ outcome' = [outcome EXCEPT ![c] = "none"]
  /\ UNCHANGED <<CB_STATE, failures, openUntil, clock>>

\* The circuit is open: the call returns without one.
Refuse(c) ==
  /\ CanCall(c) /\ IsOpen(ObjectFor(c))
  /\ calls' = [calls EXCEPT ![c] = @ + 1]
  /\ outcome' = [outcome EXCEPT ![c] = "circuitOpen"]
  /\ UNCHANGED <<CB_STATE, failures, openUntil, held, began, admitted, clock>>

\* What every end of a call does: store the object it holds, and answer.
Settle(c, result) ==
  /\ CB_STATE' = held[c]
  /\ held' = [held EXCEPT ![c] = NoObject]
  /\ outcome' = [outcome EXCEPT ![c] = result]
  /\ UNCHANGED <<began, calls, clock>>

\* Faulty variant: the answer of a call that was in flight closes the circuit.
ClosesCircuit(o) == /\ failures' = [failures EXCEPT ![o] = 0] /\ openUntil' = [openUntil EXCEPT ![o] = 0] /\ admitted' = [admitted EXCEPT ![o] = 0]
\* A success forgets the failures, and leaves openUntil alone.
ForgetFailures(o) ==
  /\ failures' = [failures EXCEPT ![o] = 0]
  /\ admitted' = [admitted EXCEPT ![o] = 0]
  /\ UNCHANGED openUntil

\* Faulty variant: the threshold has to be passed, not reached.
CountPastThreshold(o, now) == IF failures[o] + 1 > Threshold THEN /\ failures' = [failures EXCEPT ![o] = 0] /\ openUntil' = [openUntil EXCEPT ![o] = now + Cooldown] /\ admitted' = [admitted EXCEPT ![o] = 0] ELSE /\ failures' = [failures EXCEPT ![o] = @ + 1] /\ UNCHANGED <<openUntil, admitted>>
\* A failure is counted; the one that reaches the threshold opens the circuit, from
\* the time its call began.
CountFailure(o, now) ==
  IF failures[o] + 1 >= Threshold
    THEN /\ failures' = [failures EXCEPT ![o] = 0]
         /\ openUntil' = [openUntil EXCEPT ![o] = now + Cooldown]
         /\ admitted' = [admitted EXCEPT ![o] = 0]
    ELSE /\ failures' = [failures EXCEPT ![o] = @ + 1]
         /\ UNCHANGED <<openUntil, admitted>>

\* The remote answers below 500.
AnswerBelow500(c) ==
  /\ InFlight(c)
  /\ ForgetFailures(held[c])
  /\ Settle(c, "answered")

\* The remote answers 500 or above: the answer is returned.
Answer500(c) ==
  /\ InFlight(c)
  /\ CountFailure(held[c], began[c])
  /\ Settle(c, "answered")

\* The request or the reading of the body rejects: the error is thrown on.
CallRejects(c) ==
  /\ InFlight(c)
  /\ CountFailure(held[c], began[c])
  /\ Settle(c, "threw")

BreakerTick ==
  /\ clock < MaxClock
  /\ clock' = clock + 1
  /\ UNCHANGED <<CB_STATE, failures, openUntil, held, began, calls, outcome, admitted>>

BreakerNext ==
  \/ BreakerTick
  \/ \E c \in Callers : Admit(c) \/ Refuse(c) \/ AnswerBelow500(c) \/ Answer500(c) \/ CallRejects(c)

BreakerSpec == BreakerInit /\ [][BreakerNext]_breakerVars

-----------------------------------------------------------------------------
(* Properties.                                                              *)

\* The values the code can give each part of the state.
BreakerTypeOK ==
  /\ CB_STATE \in Callers \cup {NoObject}
  /\ failures \in [Callers -> Nat]
  /\ openUntil \in [Callers -> Nat]
  /\ held \in [Callers -> Callers \cup {NoObject}]
  /\ began \in [Callers -> Nat]
  /\ calls \in [Callers -> Nat]
  /\ outcome \in [Callers -> {"none", "circuitOpen", "answered", "threw"}]
  /\ admitted \in [Callers -> Nat]
  /\ clock \in Nat

\* A remote that only fails is shielded: between two openings of a state object, or
\* since its last success, the calls that share it send at most Threshold - 1 requests
\* more than there are callers, in whatever order the calls overlap and end.
BreakerShieldsRemote ==
  \A o \in Callers : admitted[o] <= Threshold - 1 + Cardinality(Callers)

\* Every call in flight holds the stored object. (While calls that began without one
\* overlap with others, two objects may take turns under the key.)
OneObject ==
  /\ CB_STATE # NoObject
  /\ \A c \in Callers : InFlight(c) => held[c] = CB_STATE

\* Once the calls share one object, no other takes its place, and an open circuit keeps
\* the end of its open time but for one cause: a call that was let through before and
\* ends late may set it, to a cooldown after its own beginning, be that earlier or
\* later, and to nothing else (circuitBreaker: `now` is read before the request and
\* used after it).
OpenCircuitStaysOpen ==
  [][OneObject /\ IsOpen(CB_STATE) =>
       /\ CB_STATE' = CB_STATE
       /\ \/ openUntil'[CB_STATE] = openUntil[CB_STATE]
          \/ \E c \in Callers : InFlight(c) /\ openUntil'[CB_STATE] = began[c] + Cooldown]_breakerVars
=============================================================================
