---------------------------- MODULE ApprovalGate ----------------------------
(***************************************************************************)
(* core.chat.approvalGate (approvalGate of vendor.myndhyve.chat) in a       *)
(* workflow: an author makes an artifact, the gate shows it on a card and   *)
(* suspends the run, a reviewer or a timer answers, and the chain delivers  *)
(* the artifact, loops back to the author or declines. The host parks the   *)
(* run by ending the node and, once there is an answer, runs the node again *)
(* from its start; it may also crash and do so.                             *)
(***************************************************************************)
EXTENDS Naturals, Sequences

CONSTANTS
  MaxVisits,      \* bound: how often the author makes an artifact
  MaxIterations,  \* bound on config.maxRequestChangesIterations
  MaxCount,       \* bound on the refinements counted before a crash
  Decisions       \* verbs an older resolver sends as `decision`

\* One spelling per meaning of APPROVAL_VERBS, and one that has none.
Verbs == {"approve", "edit-accept", "reject", "request-changes", "ask", "escalate"}

ASSUME BoundsAssumption ==
  MaxVisits \in Nat \ {0} /\ MaxIterations \in Nat /\ MaxCount \in Nat /\ Decisions \subseteq Verbs

VARIABLES
  config,     \* of the gate, whether the chain loops back, and what ctx.variables is
  phase,      \* where the run is
  version,    \* inputs.artifact: which artifact the author made, 0 before the first
  cardKeys,   \* idempotency keys of the cards the host has emitted
  shown,      \* the artifact on the approval card, 0 without a card
  interrupt,  \* what the host enforces while the run is parked
  response,   \* the answer the host keeps for the gate
  loopback,   \* _loopbackCount
  history,    \* _feedbackHistory: for each entry its iteration
  previous,   \* _previousArtifact
  saved,      \* the three when the gate last completed
  output,     \* decision and artifact the gate returned
  asked       \* history variable: artifacts whose reviewer asked for changes and said which

variables == <<loopback, history, previous>>
Kept == [loopback |-> loopback, history |-> history, previous |-> previous]
card == <<cardKeys, shown>>
gateVars == <<config, phase, version, card, interrupt, response, variables, saved, output, asked>>

Meaning(verb) ==
  IF verb = "approve" THEN "accept"
  ELSE IF verb = "request-changes" THEN "refine"
  ELSE IF verb \in {"edit-accept", "reject", "ask"} THEN verb
  ELSE "none"

\* config.actions: not declared, or the verbs the chain can honour.
ActionLists == {Verbs, {"approve", "reject"}, {"approve", "reject", "request-changes"}}
\* What the host makes of ctx.variables: it has none, keeps what the node set when
\* the node completes, or keeps it at once.
Stores == {"none", "completion", "atOnce"}
Configs == [actions : ActionLists, max : 0..MaxIterations, timed : BOOLEAN, loops : BOOLEAN, store : Stores]

\* What a reviewer can send, each part independent of the others: a verb as
\* `action`, a verb as `decision`, the legacy flag, an edited artifact, feedback.
Answers == [action : Verbs \cup {"none"}, decision : Decisions \cup {"none"},
            approved : BOOLEAN, edited : BOOLEAN, feedback : BOOLEAN]
TimedOut == [action |-> "timer", decision |-> "none", approved |-> FALSE, edited |-> FALSE, feedback |-> FALSE]
NoAnswer == [action |-> "unanswered", decision |-> "none", approved |-> FALSE, edited |-> FALSE, feedback |-> FALSE]

\* An artifact as delivered: the version it goes back to, and whether the reviewer
\* edited it.
NoArtifact == [version |-> 0, edited |-> FALSE]
NoOutput == [decision |-> "none", artifact |-> NoArtifact]

GateInit ==
  /\ config \in Configs
  /\ phase = "author"
  /\ version = 0
  /\ cardKeys = {} /\ shown = 0
  /\ interrupt = [actions |-> Verbs, timed |-> FALSE]
  /\ response = NoAnswer
  /\ loopback = 0 /\ history = <<>> /\ previous = 0
  /\ saved = Kept
  /\ output = NoOutput
  /\ asked = <<>>

-----------------------------------------------------------------------------
(* The decision.                                                           *)

\* The verb that counts: `decision` before `action`.
Verb(r) == IF r.decision # "none" THEN r.decision ELSE r.action

\* The action an answer stands for.
\* (Faulty variants: the flag wins over the verb; only `decision` is read.)
ActionOfFlag(r) ==
  IF r.approved THEN "accept"
  ELSE IF Meaning(Verb(r)) # "none" THEN Meaning(Verb(r))
  ELSE "refine"
ActionOfDecision(r) == IF r.decision # "none" THEN Meaning(r.decision) ELSE "refine"
Action(r) ==
  IF Meaning(Verb(r)) = "accept" /\ r.edited THEN "edit-accept"
  ELSE IF Meaning(Verb(r)) # "none" THEN Meaning(Verb(r))
  ELSE IF r.approved THEN "accept"
  ELSE IF r.edited THEN "edit-accept"
  ELSE "refine"

Approving == {"accept", "edit-accept"}

\* Refinements are counted, and bounded, where there are variables.
Tracked == config.store # "none"
\* (Faulty variant: the bound is reached one iteration early.)
ExceededEarly == Tracked /\ config.max > 0 /\ loopback + 1 >= config.max
Exceeded == Tracked /\ config.max > 0 /\ loopback + 1 > config.max
ApprovedArtifact(r) == [version |-> version, edited |-> r.edited]

\* What follows ctx.suspend when it returns, up to the first write: the count of
\* refinements.
Decide ==
  /\ phase = "emitted" /\ response # NoAnswer
  /\ LET action == Action(response) IN
     \/ /\ response = TimedOut
        /\ output' = [decision |-> "timeout", artifact |-> NoArtifact]
        /\ phase' = "returned" /\ UNCHANGED loopback
     \/ /\ response # TimedOut /\ action = "refine" /\ Exceeded
        /\ output' = [decision |-> "reject", artifact |-> NoArtifact]
        /\ phase' = "returned" /\ UNCHANGED loopback
     \/ /\ response # TimedOut /\ action = "refine" /\ Tracked /\ ~Exceeded
        /\ loopback' = loopback + 1
        /\ phase' = "counted" /\ UNCHANGED output
     \/ /\ response # TimedOut /\ (action = "refine" => ~Tracked)
        /\ output' = [decision |-> action, artifact |-> ApprovedArtifact(response)]
        /\ phase' = "returned" /\ UNCHANGED loopback
  /\ UNCHANGED <<config, version, card, interrupt, response, history, previous, saved, asked>>

\* The second write, if there is feedback.
KeepFeedback ==
  /\ phase = "counted"
  /\ history' = IF response.feedback THEN Append(history, loopback) ELSE history
  /\ phase' = "noted"
  /\ UNCHANGED <<config, version, card, interrupt, response, loopback, previous, saved, output, asked>>

\* The third, and the return.
\* (Faulty variant: the artifact is kept the first time only.)
KeepFirstArtifact ==
  /\ phase = "noted"
  /\ previous' = IF previous = 0 THEN version ELSE previous
  /\ output' = [decision |-> "refine", artifact |-> ApprovedArtifact(response)]
  /\ phase' = "returned"
  /\ UNCHANGED <<config, version, card, interrupt, response, loopback, history, saved, asked>>
KeepArtifact ==
  /\ phase = "noted"
  /\ previous' = version
  /\ output' = [decision |-> "refine", artifact |-> ApprovedArtifact(response)]
  /\ phase' = "returned"
  /\ UNCHANGED <<config, version, card, interrupt, response, loopback, history, saved, asked>>

-----------------------------------------------------------------------------
(* The round trip.                                                         *)

\* The card's key: the run, the node and a constant, the same for every artifact.
CardKey(v) == "approval-card"

\* The host emits a card once per key.
EmitCard ==
  /\ phase = "gate"
  /\ phase' = "emitted"
  /\ cardKeys' = cardKeys \cup {CardKey(version)}
  /\ shown' = IF CardKey(version) \in cardKeys THEN shown ELSE version
  /\ UNCHANGED <<config, version, interrupt, response, variables, saved, output, asked>>

\* ctx.suspend parks the run, with the chain's verbs and timeout.
\* (Faulty variants: without the one or the other.)
SuspendUntimed ==
  /\ phase = "emitted" /\ response = NoAnswer
  /\ phase' = "waiting"
  /\ interrupt' = [actions |-> config.actions, timed |-> FALSE]
  /\ UNCHANGED <<config, version, card, response, variables, saved, output, asked>>
Suspend ==
  /\ phase = "emitted" /\ response = NoAnswer
  /\ phase' = "waiting"
  /\ interrupt' = [actions |-> config.actions, timed |-> config.timed]
  /\ UNCHANGED <<config, version, card, response, variables, saved, output, asked>>

\* The host refuses an `action` that is not among the declared ones, and keeps the
\* first answer. The node is run again.
Keep(r) ==
  /\ phase = "waiting"
  /\ response' = r
  /\ phase' = "gate"
  /\ UNCHANGED <<config, version, card, interrupt, variables, saved, output>>
Respond(r) ==
  /\ interrupt.actions # Verbs => r.action \in interrupt.actions
  /\ asked' = IF Action(r) = "refine" /\ r.feedback /\ ~Exceeded THEN Append(asked, version) ELSE asked
  /\ Keep(r)
TimeOut ==
  /\ interrupt.timed
  /\ Keep(TimedOut)
  /\ UNCHANGED asked

\* The host records that the node completed.
RecordGate ==
  /\ phase = "returned"
  /\ phase' = "decided"
  /\ saved' = Kept
  /\ UNCHANGED <<config, version, card, interrupt, response, variables, output, asked>>

\* The host's process ends before it has: the node is run again, on what the host
\* kept of the variables.
GateCrash ==
  /\ phase \in {"emitted", "counted", "noted", "returned"}
  /\ loopback < MaxCount
  /\ phase' = "gate"
  /\ output' = NoOutput
  /\ IF config.store = "completion"
     THEN loopback' = saved.loopback /\ history' = saved.history /\ previous' = saved.previous
     ELSE UNCHANGED variables
  /\ UNCHANGED <<config, version, card, interrupt, response, saved, asked>>

-----------------------------------------------------------------------------
(* The chain around the gate.                                              *)

Author ==
  /\ phase = "author" /\ version < MaxVisits
  /\ version' = version + 1
  /\ response' = NoAnswer
  /\ output' = NoOutput
  /\ phase' = "gate"
  /\ UNCHANGED <<config, card, interrupt, variables, saved, asked>>

\* The edges out of the gate: approved, the loopback edge, not approved.
Follow ==
  /\ phase = "decided"
  /\ phase' = IF output.decision \in Approving THEN "delivered"
              ELSE IF output.decision = "refine" /\ config.loops THEN "author"
              ELSE "declined"
  /\ UNCHANGED <<config, version, card, interrupt, response, variables, saved, output, asked>>

GateNext ==
  \/ EmitCard \/ Suspend \/ Decide \/ KeepFeedback \/ KeepArtifact
  \/ \E r \in Answers : Respond(r)
  \/ TimeOut \/ RecordGate \/ GateCrash
  \/ Author \/ Follow

GateSpec == GateInit /\ [][GateNext]_gateVars

\* The host runs what can run and fires the timer; it does not crash in the same
\* node for ever. No reviewer has to answer.
GateFairness ==
  /\ WF_gateVars(EmitCard) /\ WF_gateVars(Author) /\ WF_gateVars(Follow) /\ WF_gateVars(TimeOut)
  /\ SF_gateVars(Suspend) /\ SF_gateVars(Decide)
  /\ SF_gateVars(KeepFeedback) /\ SF_gateVars(KeepArtifact) /\ SF_gateVars(RecordGate)
GateFairSpec == GateSpec /\ GateFairness

-----------------------------------------------------------------------------
(* Properties.                                                             *)

GatePhases == {"author", "gate", "emitted", "waiting", "counted", "noted", "returned", "decided", "delivered", "declined"}
GateTypeOK ==
  /\ config \in Configs
  /\ phase \in GatePhases
  /\ version \in 0..MaxVisits
  /\ cardKeys \subseteq {"approval-card"}
  /\ shown \in 0..MaxVisits
  /\ interrupt \in [actions : ActionLists, timed : BOOLEAN]
  /\ response \in Answers \cup {TimedOut, NoAnswer}
  /\ loopback \in Nat /\ history \in Seq(Nat) /\ previous \in 0..MaxVisits
  /\ saved \in [loopback : Nat, history : Seq(Nat), previous : 0..MaxVisits]
  /\ asked \in Seq(1..MaxVisits)
  /\ output.decision \in Approving \cup {"refine", "ask", "reject", "timeout", "none"}
  /\ output.artifact \in [version : 0..MaxVisits, edited : BOOLEAN]

\* What is delivered was not refused: the verb that counts neither rejected it nor
\* asked for changes, whatever else the answer carried, the timer had not fired, and
\* it is the artifact of that review, as edited by its reviewer ("An EXPLICIT verb
\* always wins over the legacy `approved` boolean", approvalGate).
DeliveredWasApproved ==
  phase = "delivered" =>
    /\ response \in Answers
    /\ Verb(response) \notin {"reject", "request-changes", "ask"}
    /\ output.artifact = [version |-> version, edited |-> response.edited]

\* A chain that takes "not approved" for a refusal, and declares the verbs it can
\* honour, ends declined only when its reviewer clicked reject, none answered in
\* time, or a resolver put another verb over the reviewer's (WF-EM-5: an unmade
\* decision is not recorded as a decline).
DeclinedWasDeclined ==
  phase = "declined" /\ config.actions = {"approve", "reject"} =>
    \/ Verb(response) = "reject" \/ response = TimedOut
    \/ response.decision \in Decisions \ {"approve", "edit-accept"}

\* Where there are variables the reviewer is asked about at most one artifact more
\* than the iterations the gate allows, crashes between the writes notwithstanding.
\* A request for changes is turned down only after all of them, if the host keeps
\* the writes together with the completion.
RefinementsBounded ==
  config.loops /\ config.max > 0 /\ Tracked =>
    /\ version <= config.max + 1
    /\ phase = "declined" /\ response # TimedOut /\ Action(response) = "refine" /\ config.store = "completion"
         => version = config.max + 1 /\ loopback = config.max

\* When the author is asked again it has the artifact the reviewer saw last, the
\* number of refinements, and one entry of feedback for each artifact on which the
\* reviewer gave some, in order, crashes and repeated runs of the node
\* notwithstanding (_loopbackCount, _feedbackHistory, _previousArtifact). On a host
\* that keeps every write at once a refinement may be counted and an entry made
\* twice, and none is missing.
HistoryFaithful ==
  phase = "author" /\ Tracked =>
    /\ previous = version
    /\ IF config.store = "completion"
       THEN loopback = version /\ history = asked
       ELSE loopback >= version /\ Len(history) >= Len(asked)

\* A gate with a timeout ends, though no reviewer may ever answer, unless the chain
\* loops without a bound.
GateEnds ==
  config.timed /\ (config.loops => config.max > 0 /\ Tracked) => <>(phase \in {"delivered", "declined"})

\* An artifact delivered as it was made is the one the reviewer's card showed ("so
\* the user sees the artifact + actions", approvalGate).
ApprovedWasShown ==
  phase = "delivered" /\ ~output.artifact.edited => shown = output.artifact.version
=============================================================================
