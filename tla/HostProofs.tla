----------------------------- MODULE HostProofs -----------------------------
(***************************************************************************)
(* Proofs about the nodes that reach people through the host.  First        *)
(* ApprovalGate, for every bound on the visits and on the iterations: what   *)
(* the host enforces while the run is parked, and what the gate returned,    *)
(* agree with the answer it keeps (GateInv).  Then Egress, for any number of *)
(* runs, nodes, contents, workflows, retries and crashes: the ledger and     *)
(* what went out agree (Inv), since what a node with a ledger sent is        *)
(* recorded under the key it makes (Recorded), and what is recorded went     *)
(* out (Honest).                                                             *)
(***************************************************************************)
EXTENDS ApprovalGate, Egress, TLAPS

-----------------------------------------------------------------------------
(* The approval gate.                                                       *)

\* What the answer asks for.
Wanted == response \in Answers /\ Action(response) = "refine" /\ response.feedback

\* The host enforces the verbs of the chain.
Enforced ==
  /\ phase = "waiting" => response = NoAnswer /\ interrupt.actions = config.actions
  /\ response \in Answers /\ config.actions # Verbs => response.action \in config.actions

\* The writes are those of a refinement.
Writing == phase \in {"counted", "noted"} => response \in Answers /\ Action(response) = "refine" /\ Tracked

\* What the gate returned is what the answer stands for.
TimedOutcome == response = TimedOut /\ output.decision = "timeout"
RefusedOutcome ==
  /\ response \in Answers /\ Action(response) = "refine" /\ output.decision = "reject" /\ Exceeded
  /\ config.store = "completion" => version = loopback + 1
PlainOutcome ==
  /\ response \in Answers
  /\ output = [decision |-> Action(response), artifact |-> [version |-> version, edited |-> response.edited]]
GateOutcome ==
  phase \in {"returned", "decided", "delivered", "declined"} => TimedOutcome \/ RefusedOutcome \/ PlainOutcome

\* The edge that was taken.
Followed ==
  /\ phase = "delivered" => output.decision \in Approving
  /\ phase = "declined" => output.decision \notin Approving /\ ~(output.decision = "refine" /\ config.loops)

\* Neither the count nor the visits go beyond the bound.
Bounded ==
  Tracked /\ config.max > 0 => loopback <= config.max /\ saved.loopback <= config.max /\ version <= config.max + 1

\* A host that keeps the writes with the completion: what it keeps is one visit
\* behind, and the writes of a visit start from it.
AsSaved == loopback = saved.loopback /\ history = saved.history /\ previous = saved.previous
Behind ==
  /\ version = saved.loopback + 1
  /\ asked = IF Wanted /\ ~(config.max > 0 /\ saved.loopback + 1 > config.max)
             THEN Append(saved.history, saved.loopback + 1) ELSE saved.history
Exact ==
  config.store = "completion" =>
    /\ phase \notin {"counted", "noted", "returned"} => AsSaved
    /\ phase \in {"gate", "emitted", "waiting", "counted", "noted", "returned"} => Behind
    /\ phase = "counted" => loopback = version /\ history = saved.history /\ ~(config.max > 0 /\ version > config.max)
    /\ phase = "noted" => loopback = version /\ history = asked
    /\ phase \in {"returned", "decided"} /\ output.decision = "refine" => loopback = version /\ previous = version /\ history = asked
    /\ phase = "author" => loopback = version /\ previous = version /\ history = asked

\* A host that keeps every write at once: nothing is missing.
AtLeast ==
  config.store = "atOnce" =>
    /\ version <= loopback + 1
    /\ phase \in {"counted", "noted"} => version <= loopback
    /\ phase \in {"gate", "emitted", "waiting", "counted", "returned"}
         => Len(asked) <= Len(history) \/ (Wanted /\ Len(asked) <= Len(history) + 1)
    /\ phase = "noted" => Len(asked) <= Len(history)
    /\ phase \in {"returned", "decided"} /\ output.decision = "refine"
         => version <= loopback /\ previous = version /\ Len(asked) <= Len(history)
    /\ phase = "author" => version <= loopback /\ previous = version /\ Len(asked) <= Len(history)

\* The gate is visited for an artifact.
Visited == phase # "author" => version >= 1

Agreed == Visited /\ Enforced /\ Writing /\ GateOutcome /\ Followed
GateInv == GateTypeOK /\ Agreed /\ Bounded /\ Exact /\ AtLeast

\* An answer stands for one of five actions.
LEMMA ActionType ==
  ASSUME NEW r \in Answers
  PROVE  Action(r) \in {"accept", "edit-accept", "reject", "refine", "ask"}
BY BoundsAssumption DEF Answers, Verbs, Action, Meaning, Verb

\* An answer is neither of the two sentinels.
LEMMA Sentinels ==
  /\ TimedOut \notin Answers /\ NoAnswer \notin Answers /\ TimedOut # NoAnswer
  /\ TimedOut.feedback = FALSE
<1>1. TimedOut.action = "timer" /\ NoAnswer.action = "unanswered"
  BY DEF TimedOut, NoAnswer
<1>2. \A r \in Answers : r.action \notin {"timer", "unanswered"}
  BY DEF Answers, Verbs
<1> QED BY <1>1, <1>2 DEF TimedOut

\* An entry more leaves a sequence a sequence of its entries.
LEMMA AppendType ==
  ASSUME NEW S, NEW s \in Seq(S), NEW e \in S
  PROVE  Append(s, e) \in Seq(S) /\ Len(Append(s, e)) = Len(s) + 1
OBVIOUS

\* The invariant holds at first, after every step, and so always.
LEMMA InvInit == GateInit => GateInv
<1> SUFFICES ASSUME GateInit PROVE GateInv
  OBVIOUS
<1> USE DEF GateInit
<1>1. GateTypeOK
  BY BoundsAssumption DEF GateTypeOK, GatePhases, NoOutput, NoArtifact, ActionLists, Kept
<1>2. Agreed
  BY Sentinels DEF Agreed, Visited, Enforced, Writing, GateOutcome, Followed
<1>3. Bounded
  BY DEF Bounded, Configs, Kept
<1>4. Exact /\ AtLeast
  BY DEF Exact, AtLeast, AsSaved, Kept
<1> QED BY <1>1, <1>2, <1>3, <1>4 DEF GateInv

\* One case for each action.
LEMMA InvNext == GateInv /\ [GateNext]_gateVars => GateInv'
<1> SUFFICES ASSUME GateInv, [GateNext]_gateVars PROVE GateInv'
  OBVIOUS
<1> USE BoundsAssumption DEF card, variables
<1>0. /\ config \in Configs /\ config.max \in Nat
      /\ loopback \in Nat /\ version \in Nat /\ previous \in Nat /\ saved.loopback \in Nat
      /\ history \in Seq(Nat) /\ saved.history \in Seq(Nat) /\ asked \in Seq(1..MaxVisits)
      /\ Len(history) \in Nat /\ Len(asked) \in Nat
  BY DEF GateInv, GateTypeOK, Configs
<1>1. CASE EmitCard
  <2>1. GateTypeOK'
    BY <1>1 DEF EmitCard, CardKey, GateInv, GateTypeOK, GatePhases
  <2>2. Agreed'
    BY <1>1 DEF EmitCard, GateInv, Agreed, Visited, Enforced, Writing, GateOutcome, Followed
  <2>3. Bounded' /\ Exact' /\ AtLeast'
    BY <1>1 DEF EmitCard, GateInv, Bounded, Tracked, Exact, AtLeast, AsSaved, Behind, Wanted
  <2> QED BY <2>1, <2>2, <2>3 DEF GateInv
<1>2. CASE Suspend
  <2>1. GateTypeOK'
    BY <1>2 DEF Suspend, GateInv, GateTypeOK, GatePhases, Configs
  <2>2. Agreed'
    BY <1>2 DEF Suspend, GateInv, Agreed, Visited, Enforced, Writing, GateOutcome, Followed
  <2>3. Bounded' /\ Exact' /\ AtLeast'
    BY <1>2 DEF Suspend, GateInv, Bounded, Tracked, Exact, AtLeast, AsSaved, Behind, Wanted
  <2> QED BY <2>1, <2>2, <2>3 DEF GateInv
<1>3. CASE GateCrash
  <2>1. GateTypeOK'
    BY <1>3 DEF GateCrash, GateInv, GateTypeOK, GatePhases, NoOutput, NoArtifact
  <2>2. Agreed'
    BY <1>3 DEF GateCrash, GateInv, Agreed, Visited, Enforced, Writing, GateOutcome, Followed
  <2>3. Bounded' /\ Exact'
    BY <1>0, <1>3 DEF GateCrash, GateInv, Bounded, Tracked, Exact, AsSaved, Behind, Wanted
  <2>4. AtLeast'
    BY <1>0, <1>3 DEF GateCrash, GateInv, AtLeast, Wanted
  <2> QED BY <2>1, <2>2, <2>3, <2>4 DEF GateInv
<1>4. CASE RecordGate
  <2>1. GateTypeOK'
    BY <1>4 DEF RecordGate, GateInv, GateTypeOK, GatePhases, Kept
  <2>2. Agreed'
    BY <1>4 DEF RecordGate, GateInv, Agreed, Visited, Enforced, Writing, GateOutcome, Followed, TimedOutcome, RefusedOutcome, PlainOutcome,
      Exceeded, Tracked
  <2>3. Bounded' /\ Exact' /\ AtLeast'
    BY <1>4 DEF RecordGate, GateInv, Bounded, Tracked, Exact, AtLeast, AsSaved, Kept
  <2> QED BY <2>1, <2>2, <2>3 DEF GateInv
<1>5. CASE Follow
  <2>1. GateTypeOK'
    BY <1>5 DEF Follow, GateInv, GateTypeOK, GatePhases
  <2>2. Agreed'
    BY <1>5 DEF Follow, GateInv, Agreed, Visited, Enforced, Writing, GateOutcome, Followed, TimedOutcome, RefusedOutcome, PlainOutcome,
      Exceeded, Tracked
  <2>3. Bounded' /\ Exact' /\ AtLeast'
    BY <1>5 DEF Follow, GateInv, Bounded, Tracked, Exact, AtLeast, AsSaved
  <2> QED BY <2>1, <2>2, <2>3 DEF GateInv
<1>6. CASE Author
  <2>1. GateTypeOK'
    BY <1>6 DEF Author, GateInv, GateTypeOK, GatePhases, NoOutput, NoArtifact
  <2>2. Agreed'
    BY <1>0, <1>6, Sentinels DEF Author, GateInv, Agreed, Visited, Enforced, Writing, GateOutcome, Followed
  <2>3. Bounded'
    BY <1>0, <1>6 DEF Author, GateInv, Bounded, Tracked, Exact, AtLeast, AsSaved, Configs, Stores
  <2>4. Exact' /\ AtLeast'
    BY <1>0, <1>6, Sentinels DEF Author, GateInv, Exact, AtLeast, AsSaved, Behind, Wanted
  <2> QED BY <2>1, <2>2, <2>3, <2>4 DEF GateInv
<1>7. CASE TimeOut
  <2>0. phase = "waiting" /\ phase' = "gate" /\ response' = TimedOut /\ response = NoAnswer
    BY <1>7 DEF TimeOut, Keep, GateInv, Agreed, Visited, Enforced
  <2>1. GateTypeOK'
    BY <1>7, <2>0 DEF TimeOut, Keep, GateInv, GateTypeOK, GatePhases
  <2>2. Agreed'
    BY <1>7, <2>0, Sentinels DEF TimeOut, Keep, GateInv, Agreed, Visited, Enforced, Writing, GateOutcome, Followed
  <2>3. ~Wanted /\ ~Wanted'
    BY <2>0, Sentinels DEF Wanted
  <2>4. Bounded' /\ Exact' /\ AtLeast'
    BY <1>7, <2>0, <2>3 DEF TimeOut, Keep, GateInv, Bounded, Tracked, Exact, AtLeast, AsSaved, Behind
  <2> QED BY <2>1, <2>2, <2>4 DEF GateInv
<1>8. CASE \E r \in Answers : Respond(r)
  <2> PICK r \in Answers : Respond(r)
    BY <1>8
  <2>0. phase = "waiting" /\ phase' = "gate" /\ response' = r /\ response = NoAnswer /\ interrupt.actions = config.actions
    BY DEF Respond, Keep, GateInv, Agreed, Visited, Enforced
  <2>1. asked' = asked \/ (asked' = Append(asked, version) /\ version \in 1..MaxVisits)
    <3>1. version >= 1
      BY <2>0 DEF GateInv, Agreed, Visited
    <3> QED BY <1>0, <3>1 DEF Respond, GateInv, GateTypeOK
  <2>2. GateTypeOK'
    <3>1. asked' \in Seq(1..MaxVisits)
      BY <1>0, <2>1, AppendType
    <3> QED BY <2>0, <3>1 DEF Respond, Keep, GateInv, GateTypeOK, GatePhases
  <2>3. Agreed'
    BY <2>0 DEF Respond, Keep, GateInv, Agreed, Visited, Enforced, Writing, GateOutcome, Followed
  <2>4. ~Wanted
    BY <2>0, Sentinels DEF Wanted
  <2>5. Bounded'
    BY DEF Respond, Keep, GateInv, Bounded, Tracked
  <2>6. Exact'
    BY <1>0, <2>0, <2>4 DEF Respond, Keep, GateInv, Exact, AsSaved, Behind, Wanted, Exceeded, Tracked
  <2>7. AtLeast'
    <3>1. asked' # asked => Wanted'
      BY <2>0 DEF Respond, Wanted
    <3>2. Len(asked') <= Len(asked) + 1
      BY <1>0, <2>1, AppendType
    <3> QED BY <1>0, <2>0, <2>4, <3>1, <3>2 DEF Respond, Keep, GateInv, AtLeast
  <2> QED BY <2>2, <2>3, <2>5, <2>6, <2>7 DEF GateInv
<1>9. CASE Decide
  <2>0. phase = "emitted" /\ UNCHANGED <<config, version, card, interrupt, response, history, previous, saved, asked>>
    BY <1>9 DEF Decide
  <2>1. CASE response = TimedOut /\ output' = [decision |-> "timeout", artifact |-> NoArtifact] /\ phase' = "returned" /\ UNCHANGED loopback
    <3>1. GateTypeOK'
      BY <2>0, <2>1 DEF GateInv, GateTypeOK, GatePhases, NoArtifact
    <3>2. Agreed'
      BY <2>0, <2>1 DEF GateInv, Agreed, Visited, Enforced, Writing, GateOutcome, Followed, TimedOutcome
    <3>3. Bounded' /\ Exact' /\ AtLeast'
      BY <2>0, <2>1 DEF GateInv, Bounded, Tracked, Exact, AtLeast, AsSaved, Behind, Wanted
    <3> QED BY <3>1, <3>2, <3>3 DEF GateInv
  <2>2. CASE /\ response # TimedOut /\ Action(response) = "refine" /\ Exceeded
             /\ output' = [decision |-> "reject", artifact |-> NoArtifact]
             /\ phase' = "returned" /\ UNCHANGED loopback
    <3>1. response \in Answers
      BY <1>9, <2>2 DEF Decide, GateInv, GateTypeOK
    <3>2. GateTypeOK'
      BY <2>0, <2>2 DEF GateInv, GateTypeOK, GatePhases, NoArtifact
    <3>3. RefusedOutcome'
      BY <2>0, <2>2, <3>1 DEF GateInv, Exact, AsSaved, Behind, RefusedOutcome, Exceeded, Tracked
    <3>4. Agreed'
      BY <2>0, <2>2, <3>3 DEF GateInv, Agreed, Visited, Enforced, Writing, GateOutcome, Followed
    <3>5. Bounded' /\ Exact' /\ AtLeast'
      BY <2>0, <2>2 DEF GateInv, Bounded, Tracked, Exact, AtLeast, AsSaved, Behind, Wanted
    <3> QED BY <3>2, <3>4, <3>5 DEF GateInv
  <2>3. CASE /\ response # TimedOut /\ Action(response) = "refine" /\ Tracked /\ ~Exceeded
             /\ loopback' = loopback + 1
             /\ phase' = "counted" /\ UNCHANGED output
    <3>1. response \in Answers
      BY <1>9, <2>3 DEF Decide, GateInv, GateTypeOK
    <3>2. GateTypeOK'
      BY <1>0, <2>0, <2>3 DEF GateInv, GateTypeOK, GatePhases
    <3>3. Agreed'
      BY <2>0, <2>3, <3>1 DEF GateInv, Agreed, Visited, Enforced, Writing, GateOutcome, Followed, Tracked
    <3>4. Bounded'
      BY <1>0, <2>0, <2>3 DEF GateInv, Bounded, Tracked, Exceeded
    <3>5. Exact'
      BY <1>0, <2>0, <2>3 DEF GateInv, Exact, AsSaved, Behind, Wanted, Exceeded, Tracked
    <3>6. AtLeast'
      BY <1>0, <2>0, <2>3 DEF GateInv, AtLeast, Wanted
    <3> QED BY <3>2, <3>3, <3>4, <3>5, <3>6 DEF GateInv
  <2>4. CASE /\ response # TimedOut /\ (Action(response) = "refine" => ~Tracked)
             /\ output' = [decision |-> Action(response), artifact |-> ApprovedArtifact(response)]
             /\ phase' = "returned" /\ UNCHANGED loopback
    <3>1. response \in Answers
      BY <1>9, <2>4 DEF Decide, GateInv, GateTypeOK
    <3>2. output'.decision = Action(response) /\ output'.artifact \in [version : 0..MaxVisits, edited : BOOLEAN]
      BY <2>4, <3>1 DEF ApprovedArtifact, GateInv, GateTypeOK, Answers
    <3>3. GateTypeOK'
      BY <2>0, <2>4, <3>1, <3>2, ActionType DEF GateInv, GateTypeOK, GatePhases, Approving
    <3>4. PlainOutcome'
      BY <2>0, <2>4, <3>1 DEF PlainOutcome, ApprovedArtifact
    <3>5. Agreed'
      BY <2>0, <2>4, <3>4 DEF GateInv, Agreed, Visited, Enforced, Writing, GateOutcome, Followed
    <3>6. config.store \in {"completion", "atOnce"} => output'.decision # "refine"
      BY <2>4, <3>2 DEF Tracked
    <3>7. Bounded' /\ Exact' /\ AtLeast'
      BY <2>0, <2>4, <3>6 DEF GateInv, Bounded, Tracked, Exact, AtLeast, AsSaved, Behind, Wanted
    <3> QED BY <3>3, <3>5, <3>7 DEF GateInv
  <2> QED BY <1>9, <2>1, <2>2, <2>3, <2>4 DEF Decide
<1>10. CASE KeepFeedback
  <2>1. response \in Answers /\ Action(response) = "refine" /\ response.feedback \in BOOLEAN
    BY <1>10 DEF KeepFeedback, GateInv, Agreed, Writing, Answers
  <2>2. history' \in Seq(Nat) /\ (response.feedback => Len(history') = Len(history) + 1) /\ (~response.feedback => history' = history)
    BY <1>0, <1>10, AppendType DEF KeepFeedback
  <2>3. GateTypeOK'
    BY <1>10, <2>2 DEF KeepFeedback, GateInv, GateTypeOK, GatePhases
  <2>4. Agreed' /\ Bounded'
    BY <1>10 DEF KeepFeedback, GateInv, Agreed, Visited, Enforced, Writing, GateOutcome, Followed, Bounded, Tracked
  <2>5. Exact'
    BY <1>0, <1>10, <2>1 DEF KeepFeedback, GateInv, Exact, AsSaved, Behind, Wanted
  <2>6. AtLeast'
    BY <1>0, <1>10, <2>1, <2>2 DEF KeepFeedback, GateInv, AtLeast, Wanted
  <2> QED BY <2>3, <2>4, <2>5, <2>6 DEF GateInv
<1>11. CASE KeepArtifact
  <2>1. response \in Answers /\ Action(response) = "refine" /\ Tracked
    BY <1>11 DEF KeepArtifact, GateInv, Agreed, Writing
  <2>2. output'.decision = "refine" /\ output'.artifact \in [version : 0..MaxVisits, edited : BOOLEAN]
    BY <1>11, <2>1 DEF KeepArtifact, ApprovedArtifact, GateInv, GateTypeOK, Answers
  <2>3. GateTypeOK'
    BY <1>11, <2>2 DEF KeepArtifact, GateInv, GateTypeOK, GatePhases
  <2>4. PlainOutcome'
    BY <1>11, <2>1 DEF KeepArtifact, PlainOutcome, ApprovedArtifact
  <2>5. Agreed'
    BY <1>11, <2>4 DEF KeepArtifact, GateInv, Agreed, Visited, Enforced, Writing, GateOutcome, Followed
  <2>6. Bounded' /\ Exact'
    BY <1>11 DEF KeepArtifact, GateInv, Bounded, Tracked, Exact, AsSaved, Behind, Wanted
  <2>7. AtLeast'
    BY <1>0, <1>11 DEF KeepArtifact, GateInv, AtLeast, Wanted
  <2> QED BY <2>3, <2>5, <2>6, <2>7 DEF GateInv
<1>12. CASE UNCHANGED gateVars
  BY <1>12 DEF gateVars, GateInv, GateTypeOK, Agreed, Visited, Enforced, Writing, GateOutcome, Followed, TimedOutcome, RefusedOutcome,
    PlainOutcome, Exceeded, Bounded, Tracked, Exact, AtLeast, AsSaved, Behind, Wanted
<1> QED BY <1>1, <1>2, <1>3, <1>4, <1>5, <1>6, <1>7, <1>8, <1>9, <1>10, <1>11, <1>12 DEF GateNext

\* By induction over the behaviour.
LEMMA InvAlways == GateSpec => []GateInv
BY InvInit, InvNext, PTL DEF GateSpec

-----------------------------------------------------------------------------

\* The state of the gate keeps its type.
THEOREM GateTypeCorrect == GateSpec => []GateTypeOK
<1>1. GateInv => GateTypeOK
  BY DEF GateInv
<1> QED BY <1>1, InvAlways, PTL

\* Nothing is delivered that the verb that counts refused, whatever else the answer
\* carried.
THEOREM GateDeliversApproved == GateSpec => []DeliveredWasApproved
<1>1. GateInv => DeliveredWasApproved
  <2> SUFFICES ASSUME GateInv, phase = "delivered"
               PROVE  /\ response \in Answers
                      /\ Verb(response) \notin {"reject", "request-changes", "ask"}
                      /\ output.artifact = [version |-> version, edited |-> response.edited]
    BY DEF DeliveredWasApproved
  <2>1. PlainOutcome
    BY DEF GateInv, Agreed, GateOutcome, Followed, TimedOutcome, RefusedOutcome, Approving
  <2>2. Action(response) \in Approving
    BY <2>1 DEF PlainOutcome, GateInv, Agreed, Followed
  <2> QED BY <2>1, <2>2 DEF PlainOutcome, Action, Meaning, Approving
<1> QED BY <1>1, InvAlways, PTL

\* A chain that declares approve and reject ends declined only when a reviewer
\* rejected, the timer fired or a resolver put another verb over the reviewer's.
THEOREM GateDeclinesDeclined == GateSpec => []DeclinedWasDeclined
<1>1. GateInv => DeclinedWasDeclined
  <2> SUFFICES ASSUME GateInv, phase = "declined", config.actions = {"approve", "reject"}, response # TimedOut
               PROVE  Verb(response) = "reject" \/ response.decision \in Decisions \ {"approve", "edit-accept"}
    BY DEF DeclinedWasDeclined
  <2>1. response \in Answers
    BY DEF GateInv, Agreed, GateOutcome, TimedOutcome, RefusedOutcome, PlainOutcome
  <2>2. response.action \in {"approve", "reject"} /\ response.decision \in Decisions \cup {"none"}
    BY <2>1 DEF GateInv, Agreed, Visited, Enforced, Verbs, Answers
  <2>3. Verb(response) \in {"approve", "edit-accept"} => Action(response) \in Approving
    BY DEF Action, Meaning, Approving
  <2>4. Action(response) \notin Approving
    BY <2>1, Sentinels DEF GateInv, Agreed, GateOutcome, Followed, TimedOutcome, RefusedOutcome, PlainOutcome, Approving
  <2> QED BY <2>2, <2>3, <2>4 DEF Verb
<1> QED BY <1>1, InvAlways, PTL

\* With a bound on the iterations the reviewer sees at most one artifact more, and a
\* request for changes is turned down only when all of them were made.
THEOREM GateRefinementsBounded == GateSpec => []RefinementsBounded
<1>1. GateInv => RefinementsBounded
  <2> SUFFICES ASSUME GateInv, config.loops, config.max > 0, Tracked
               PROVE  /\ version <= config.max + 1
                      /\ phase = "declined" /\ response # TimedOut /\ Action(response) = "refine" /\ config.store = "completion"
                           => version = config.max + 1 /\ loopback = config.max
    BY DEF RefinementsBounded
  <2>1. config.max \in Nat /\ loopback \in Nat /\ version \in Nat /\ loopback <= config.max /\ version <= config.max + 1
    BY BoundsAssumption DEF GateInv, Bounded, GateTypeOK, Configs
  <2>2. ASSUME phase = "declined", response # TimedOut, Action(response) = "refine", config.store = "completion"
        PROVE  version = config.max + 1 /\ loopback = config.max
    <3>1. RefusedOutcome
      BY <2>2 DEF GateInv, Agreed, GateOutcome, Followed, TimedOutcome, PlainOutcome
    <3> QED BY <2>1, <2>2, <3>1 DEF RefusedOutcome, Exceeded
  <2> QED BY <2>1, <2>2
<1> QED BY <1>1, InvAlways, PTL

\* An author asked again has all the feedback and the artifact it is about, whether
\* the host keeps the writes with the completion or one by one.
THEOREM GateHistoryFaithful == GateSpec => []HistoryFaithful
<1>1. GateInv => HistoryFaithful
  <2> SUFFICES ASSUME GateInv, phase = "author", Tracked
               PROVE  /\ previous = version
                      /\ IF config.store = "completion"
                         THEN loopback = version /\ history = asked
                         ELSE loopback >= version /\ Len(history) >= Len(asked)
    BY DEF HistoryFaithful
  <2>1. config.store \in {"completion", "atOnce"}
    BY DEF GateInv, GateTypeOK, Configs, Stores, Tracked
  <2>2. CASE config.store = "completion"
    BY <2>2 DEF GateInv, Exact
  <2>3. CASE config.store = "atOnce"
    <3>1. Len(asked) \in Nat /\ Len(history) \in Nat /\ version \in Nat /\ loopback \in Nat
      BY DEF GateInv, GateTypeOK
    <3> QED BY <2>3, <3>1 DEF GateInv, AtLeast
  <2> QED BY <2>1, <2>2, <2>3
<1> QED BY <1>1, InvAlways, PTL

-----------------------------------------------------------------------------
(* Egress.                                                                  *)

\* The nodes whose key neither the clock nor a message that says anything else can make.
Stable == {"email", "sms", "chat"}

\* The key such a node makes.
Anchor(r, n, c) == [run |-> IF KindOf[n] = "email" THEN None ELSE r,
                    node |-> n, said |-> c.said, time |-> 0]

\* What a node with a stable key sent is in the ledger.
Recorded ==
  \A r \in Runs, n \in Nodes, c \in Contents :
    KindOf[n] \in Stable /\ Times(r, n, c) >= 1 => Anchor(r, n, c) \in ledger

\* What is in the ledger under a stable key went out.
Honest ==
  \A r \in Runs, n \in Nodes, c \in Contents :
    KindOf[n] \in Stable /\ Anchor(r, n, c) \in ledger => Backed(r, n, c)

\* The answer "sent" stands for a message that went out.
Answered ==
  \A r \in Runs : run[r].phase = "called" /\ run[r].answer = "sent" /\ KindAt(r) \in Covered
                    => Backed(r, NodeAt(r), run[r].content)

Inv == /\ TypeOK /\ Recorded /\ Honest /\ Answered
       /\ EmailSentOnce /\ EgressOncePerRun /\ ReportedWasDelivered

-----------------------------------------------------------------------------
(* Keys.                                                                    *)

\* A node of a stable kind makes its anchor.
LEMMA KeyIsAnchor ==
  ASSUME NEW r \in Runs, NEW n \in Nodes, NEW c \in Contents, KindOf[n] \in Stable
  PROVE  Key(r, n, c) = Anchor(r, n, c)
BY DEF Stable, Key, Anchor, EmailKey, SmsKey, ChatKey

\* Whoever makes an anchor is the node it belongs to.
LEMMA AnchorIsOwned ==
  ASSUME NEW r \in Runs, NEW n \in Nodes, NEW c \in Contents,
         NEW s \in Runs, NEW m \in Nodes, NEW d \in Contents,
         KindOf[m] \in Stable, Key(r, n, c) = Anchor(s, m, d)
  PROVE  n = m /\ c.said = d.said /\ (KindOf[m] = "email" \/ r = s)
<1>1. Key(r, n, c).node = n
  BY DEF Key, EmailKey, SlackKey, SmsKey, VoiceKey, ChatKey, GenericKey, EntityKey
<1>2. n = m
  BY <1>1 DEF Anchor
<1>3. Anchor(r, n, c) = Anchor(s, m, d)
  BY <1>2, KeyIsAnchor
<1> QED
  BY <1>2, <1>3 DEF Anchor

\* Every key is of the type of the ledger's.
LEMMA KeyType ==
  ASSUME TypeOK, NEW r \in Runs, NEW n \in Nodes, NEW c \in Contents
  PROVE  Key(r, n, c) \in Keys
<1>1. 0 \in 0..MaxClock /\ clock \in 0..MaxClock
  BY BoundAssumption DEF TypeOK
<1>2. c.said \in Saids
  BY ContentAssumption
<1> QED
  BY <1>1, <1>2 DEF Key, Keys, EmailKey, SlackKey, SmsKey, VoiceKey, ChatKey, GenericKey, EntityKey

\* A run with a step to do is at a node.
LEMMA NodeIsThere ==
  ASSUME TypeOK, NEW r \in Runs, Unfinished(r)
  PROVE  /\ run[r].at \in 1..Len(script) /\ NodeAt(r) \in Nodes
         /\ KindAt(r) = KindOf[NodeAt(r)] /\ KindAt(r) \in Kinds
<1>1. script \in Seq(Nodes)
  BY ScriptAssumption DEF TypeOK
<1>2. run[r].at \in 1..Len(script)
  BY <1>1 DEF TypeOK, Unfinished, Positions
<1>3. NodeAt(r) \in Nodes
  BY <1>1, <1>2 DEF NodeAt
<1> QED
  BY <1>2, <1>3, KindAssumption DEF KindAt

\* The node a run called, or is about to call, is there, and so are its inputs.
LEMMA Visiting ==
  ASSUME TypeOK, NEW r \in Runs, run[r].phase \in {"ready", "called"}
  PROVE  /\ Unfinished(r) /\ NodeAt(r) \in Nodes /\ run[r].content \in Contents
         /\ run[r].at \in 1..Len(script)
         /\ KindAt(r) = KindOf[NodeAt(r)] /\ KindAt(r) \in Kinds
<1>1. Unfinished(r) /\ run[r].content \in Contents
  BY DEF TypeOK
<1> QED
  BY <1>1, NodeIsThere

-----------------------------------------------------------------------------
(* Types.                                                                   *)

LEMMA InitTypeOK == Init => TypeOK
<1> SUFFICES ASSUME Init PROVE TypeOK
  OBVIOUS
<1>1. script \in Scripts /\ script \in Seq(Nodes)
  BY ScriptAssumption DEF Init
<1>2. run \in [Runs -> RunStates]
  BY BoundAssumption DEF Init, RunStates, Absent, Phases, HostAnswers
<1>3. \A r \in Runs : run[r].at \in Positions /\ run[r].phase = "absent"
  <2>1. Len(script) \in Nat
    BY <1>1
  <2>2. 1 \in Positions
    BY <2>1 DEF Positions
  <2> QED
    BY <2>2 DEF Init, Absent
<1>4. crashes \in 0..MaxCrashes /\ clock \in 0..MaxClock
  BY BoundAssumption DEF Init
<1> QED
  BY <1>1, <1>2, <1>3, <1>4 DEF Init, TypeOK, Keys, Triples

\* A step that only gives one run another state keeps the types.
LEMMA OneRunTypeOK ==
  ASSUME TypeOK, UNCHANGED <<script, ledger, delivered, reports, clock>>, crashes' \in 0..MaxCrashes,
         NEW r \in Runs, NEW new \in RunStates, run' = [run EXCEPT ![r] = new],
         new.at \in Positions,
         new.phase \in {"ready", "called"} => new.at <= Len(script) /\ new.content \in Contents
  PROVE  TypeOK'
<1>1. run' \in [Runs -> RunStates] /\ \A s \in Runs : run'[s] = IF s = r THEN new ELSE run[s]
  BY DEF TypeOK
<1>2. \A s \in Runs : run'[s].at \in Positions'
  BY <1>1 DEF TypeOK, Positions
<1>3. \A s \in Runs : run'[s].phase \in {"ready", "called"} =>
                        run'[s].at <= Len(script') /\ run'[s].content \in Contents
  BY <1>1 DEF TypeOK, Unfinished
<1> QED
  BY <1>1, <1>2, <1>3 DEF TypeOK, Unfinished

LEMMA StepTypeOK == TypeOK /\ [Next]_vars => TypeOK'
<1> SUFFICES ASSUME TypeOK, [Next]_vars PROVE TypeOK'
  OBVIOUS
<1> USE DEF RunStates, Phases, HostAnswers
<1>0. /\ crashes \in 0..MaxCrashes /\ Len(script) \in Nat
      /\ \A r \in Runs : run[r] \in RunStates /\ run[r].at \in Positions
  BY ScriptAssumption DEF TypeOK
<1>1. ASSUME NEW r \in Runs, Start(r) PROVE TypeOK'
  <2> DEFINE new == [run[r] EXCEPT !.phase = "resting"]
  <2>1. run' = [run EXCEPT ![r] = new] /\ new \in RunStates /\ new.at \in Positions /\ new.phase = "resting"
    BY <1>0, <1>1 DEF Start
  <2> QED
    BY <1>0, <1>1, <2>1, OneRunTypeOK DEF Start
<1>2. ASSUME NEW r \in Runs, NEW s \in Runs, NEW k \in Positions, Fork(r, s, k) PROVE TypeOK'
  <2> DEFINE new == [Absent EXCEPT !.phase = "resting", !.at = k]
  <2>1. k \in Nat \ {0}
    BY <1>0 DEF Positions
  <2>2. Absent \in RunStates
    BY BoundAssumption DEF Absent
  <2>4. new \in RunStates /\ new.at \in Positions /\ new.phase = "resting"
    BY <2>1, <2>2
  <2>5. run' = [run EXCEPT ![r] = new]
    BY <1>2 DEF Fork
  <2> HIDE DEF new
  <2> QED
    BY <1>0, <1>2, <2>4, <2>5, OneRunTypeOK DEF Fork
<1>3. ASSUME NEW r \in Runs, Resolve(r) PROVE TypeOK'
  <2> PICK c \in Contents : run' = [run EXCEPT ![r].phase = "ready", ![r].content = c]
    BY <1>3 DEF Resolve
  <2> DEFINE new == [run[r] EXCEPT !.phase = "ready", !.content = c]
  <2>1. run' = [run EXCEPT ![r] = new]
    BY DEF TypeOK
  <2>2. new \in RunStates /\ new.at \in Positions /\ new.at <= Len(script) /\ new.content \in Contents
    BY ZenonT(60), <1>0, <1>3 DEF Resolve, Unfinished
  <2> HIDE DEF new
  <2> QED
    BY <1>0, <1>3, <2>1, <2>2, OneRunTypeOK DEF Resolve
<1>4. ASSUME NEW r \in Runs, NEW answer \in HostAnswers, run[r].phase = "ready", Called(r, answer),
             UNCHANGED <<script, ledger, delivered, reports, crashes, clock>>
      PROVE  TypeOK'
  <2> DEFINE new == [run[r] EXCEPT !.phase = "called", !.answer = answer]
  <2>1. run' = [run EXCEPT ![r] = new]
    BY <1>4 DEF Called, TypeOK
  <2>2. new \in RunStates /\ new.at \in Positions /\ new.at <= Len(script) /\ new.content \in Contents
    BY <1>0, <1>4, Visiting DEF Unfinished
  <2> HIDE DEF new
  <2> QED
    BY <1>0, <1>4, <2>1, <2>2, OneRunTypeOK
<1>5. ASSUME NEW r \in Runs, Deliver(r) PROVE TypeOK'
  <2> PICK answer \in {"sent", "thrown"} : Called(r, answer)
    BY <1>5 DEF Deliver
  <2> DEFINE n == NodeAt(r) c == run[r].content t == <<r, n, c>>
  <2>1. /\ run[r].phase = "ready" /\ Unfinished(r) /\ n \in Nodes /\ c \in Contents
        /\ run[r].at <= Len(script)
    BY <1>5, Visiting DEF Deliver, Unfinished
  <2>2. /\ run' = [run EXCEPT ![r].phase = "called", ![r].answer = answer]
        /\ delivered' = [delivered EXCEPT ![t] = @ + 1]
        /\ ledger' \subseteq ledger \cup {Key(r, n, c)}
        /\ UNCHANGED <<script, reports, crashes, clock>>
    BY <1>5 DEF Deliver, Called
  <2> HIDE DEF n, c
  <2>3. run' \in [Runs -> RunStates]
    <3> DEFINE new == [run[r] EXCEPT !.phase = "called", !.answer = answer]
    <3>1. new \in RunStates
      BY <1>0
    <3>2. run' = [run EXCEPT ![r] = new]
      BY <2>2 DEF TypeOK
    <3> HIDE DEF new
    <3> QED
      BY <3>1, <3>2 DEF TypeOK
  <2>4. \A s \in Runs : /\ run'[s].at = run[s].at /\ run'[s].content = run[s].content
                        /\ run'[s].phase \in {"ready", "called"} => run[s].phase \in {"ready", "called"}
    BY <1>0, <2>1, <2>2 DEF TypeOK
  <2>5. delivered' \in [Triples -> Nat]
    BY <2>1, <2>2 DEF TypeOK, Triples
  <2>6. ledger' \subseteq Keys
    BY <2>1, <2>2, KeyType DEF TypeOK
  <2> QED
    BY <2>2, <2>3, <2>4, <2>5, <2>6 DEF TypeOK, Positions, Unfinished
<1>6. ASSUME NEW r \in Runs, Complete(r) PROVE TypeOK'
  <2> DEFINE p == [run |-> r, at |-> run[r].at, content |-> run[r].content, sent |-> run[r].answer = "sent"]
             new == [run[r] EXCEPT !.phase = "resting", !.at = @ + 1, !.content = None,
                                   !.answer = "none", !.tries = 0]
  <2>1. /\ run[r].at \in 1..Len(script) /\ run[r].content \in Contents
    BY <1>6, Visiting DEF Complete
  <2>2. run' = [run EXCEPT ![r] = new]
    BY <1>6 DEF Complete, TypeOK
  <2>3. /\ new \in RunStates /\ new.at \in Positions /\ new.phase = "resting"
    <3> DEFINE next == run[r].at + 1
    <3>1. 0 \in 0..MaxTries /\ next \in Nat \ {0} /\ next \in Positions
      BY <1>0, <2>1, BoundAssumption DEF Positions
    <3>2. new = [run[r] EXCEPT !.phase = "resting", !.at = next, !.content = None,
                               !.answer = "none", !.tries = 0]
      OBVIOUS
    <3> HIDE DEF new, next
    <3> QED
      BY <1>0, <3>1, <3>2
  <2>4. p \in [run : Runs, at : 1..Len(script), content : Contents, sent : BOOLEAN]
    BY <2>1
  <2>5. reports' = reports \cup {p} /\ UNCHANGED <<script, ledger, delivered, crashes, clock>>
    BY <1>6 DEF Complete
  <2> HIDE DEF p, new
  <2>6. run' \in [Runs -> RunStates] /\ \A s \in Runs : run'[s] = IF s = r THEN new ELSE run[s]
    BY <2>2, <2>3 DEF TypeOK
  <2> QED
    BY <2>3, <2>4, <2>5, <2>6 DEF TypeOK, Positions, Unfinished
<1>7. ASSUME NEW r \in Runs, Throw(r) PROVE TypeOK'
  <2> DEFINE again == run[r].answer = "thrown" /\ run[r].tries < MaxTries
             new == [run[r] EXCEPT !.phase = IF again THEN "ready" ELSE "failed",
                                   !.content = IF again THEN @ ELSE None,
                                   !.tries = IF again THEN @ + 1 ELSE 0,
                                   !.answer = "none"]
  <2>1. run' = [run EXCEPT ![r] = new]
    BY <1>7 DEF Throw, TypeOK
  <2>2. run[r].at <= Len(script) /\ run[r].content \in Contents
    BY <1>7, Visiting DEF Throw, Unfinished
  <2>3. /\ new \in RunStates /\ new.at \in Positions
        /\ new.phase \in {"ready", "called"} => new.at <= Len(script) /\ new.content \in Contents
    <3>1. CASE again
      <4> DEFINE more == run[r].tries + 1
      <4>1. more \in 0..MaxTries
        <5>1. run[r].tries \in 0..MaxTries
          BY <1>0
        <5> QED
          BY <3>1, <5>1, BoundAssumption
      <4>2. new = [run[r] EXCEPT !.phase = "ready", !.content = run[r].content, !.tries = more, !.answer = "none"]
        BY <3>1
      <4> HIDE DEF new, more
      <4> QED
        BY <1>0, <2>2, <4>1, <4>2
    <3>2. CASE ~again
      <4>1. new = [run[r] EXCEPT !.phase = "failed", !.content = None, !.tries = 0, !.answer = "none"]
        BY <3>2
      <4>2. 0 \in 0..MaxTries
        BY BoundAssumption
      <4> HIDE DEF new
      <4> QED
        BY <1>0, <4>1, <4>2
    <3> QED
      BY <3>1, <3>2
  <2> HIDE DEF new
  <2> QED
    BY <1>0, <1>7, <2>1, <2>3, OneRunTypeOK DEF Throw
<1>8. ASSUME NEW r \in Runs, Crash(r) PROVE TypeOK'
  <2> DEFINE new == [run[r] EXCEPT !.phase = "ready", !.answer = "none"]
  <2>1. run' = [run EXCEPT ![r] = new]
    BY <1>8 DEF Crash, TypeOK
  <2>3. crashes' \in 0..MaxCrashes
    BY <1>0, <1>8, BoundAssumption DEF Crash
  <2>2. new \in RunStates /\ new.at \in Positions /\ new.at <= Len(script) /\ new.content \in Contents
    BY <1>0, <1>8, Visiting DEF Crash, Unfinished
  <2> HIDE DEF new
  <2> QED
    BY <1>8, <2>1, <2>2, <2>3, OneRunTypeOK DEF Crash
<1>9. CASE Tick
  <2>1. clock' \in 0..MaxClock
    BY <1>9, BoundAssumption DEF Tick, TypeOK
  <2> QED
    BY <1>9, <2>1 DEF Tick, TypeOK, Positions, Unfinished
<1>10. CASE UNCHANGED vars
  BY <1>10 DEF vars, TypeOK, Positions, Unfinished
<1>11. ASSUME NEW r \in Runs, Suppress(r) PROVE TypeOK'
  BY <1>4, <1>11 DEF Suppress
<1>12. ASSUME NEW r \in Runs, Refuse(r) PROVE TypeOK'
  BY <1>4, <1>12 DEF Refuse
<1> QED
  BY <1>1, <1>2, <1>3, <1>5, <1>6, <1>7, <1>8, <1>9, <1>10, <1>11, <1>12 DEF Next

-----------------------------------------------------------------------------
(* The invariant.                                                           *)

LEMMA InitInv == Init => Inv
<1> SUFFICES ASSUME Init PROVE Inv
  OBVIOUS
<1>1. TypeOK
  BY InitTypeOK
<1>2. \A r \in Runs, n \in Nodes, c \in Contents : Times(r, n, c) = 0
  BY DEF Init, Times, Triples
<1>3. \A r \in Runs : run[r].phase = "absent"
  BY DEF Init, Absent
<1>4. ledger = {} /\ reports = {}
  BY DEF Init
<1> QED
  BY <1>1, <1>2, <1>3, <1>4
     DEF Inv, Recorded, Honest, Answered, EmailSentOnce, EgressOncePerRun, ReportedWasDelivered

\* A step that neither sends nor reports.
LEMMA QuietStep ==
  ASSUME Inv, TypeOK', Answered', UNCHANGED <<script, ledger, delivered, reports>>
  PROVE  Inv'
<1>1. \A r \in Runs, n \in Nodes, c \in Contents : Times(r, n, c)' = Times(r, n, c)
  BY DEF Times
<1>2. \A r \in Runs, n \in Nodes, c \in Contents : Backed(r, n, c)' <=> Backed(r, n, c)
  BY <1>1 DEF Backed
<1>3. Recorded'
  BY <1>1 DEF Inv, Recorded
<1>4. Honest'
  BY <1>2 DEF Inv, Honest
<1>5. EmailSentOnce' /\ EgressOncePerRun'
  BY <1>1 DEF Inv, EmailSentOnce, EgressOncePerRun
<1>6. ReportedWasDelivered'
  BY DEF Inv, ReportedWasDelivered, Backed, Times
<1> QED
  BY <1>3, <1>4, <1>5, <1>6 DEF Inv

\* A quiet step after which no run has a new answer.
LEMMA SilentStep ==
  ASSUME Inv, TypeOK', UNCHANGED <<script, ledger, delivered, reports>>,
         \A r \in Runs : run'[r].phase = "called" /\ run'[r].answer = "sent" => run'[r] = run[r]
  PROVE  Inv'
<1>1. Answered'
  BY DEF Inv, Answered, Backed, NodeAt, KindAt
<1> QED
  BY <1>1, QuietStep

\* What a call does to the runs.
LEMMA CalledRuns ==
  ASSUME TypeOK, NEW r \in Runs, NEW answer, Called(r, answer)
  PROVE  /\ run'[r].phase = "called" /\ run'[r].answer = answer
         /\ run'[r].at = run[r].at /\ run'[r].content = run[r].content
         /\ \A s \in Runs \ {r} : run'[s] = run[s]
BY DEF Called, TypeOK, RunStates

\* A key in the ledger stands for the message itself.
LEMMA SuppressInv ==
  ASSUME Inv, TypeOK', NEW r \in Runs, Suppress(r)
  PROVE  Inv'
<1> DEFINE n == NodeAt(r) c == run[r].content
<1>1. /\ n \in Nodes /\ c \in Contents /\ KindAt(r) = KindOf[n] /\ Ledgered(KindOf[n])
      /\ Key(r, n, c) \in ledger
  BY Visiting DEF Inv, Suppress
<1>2. KindOf[n] \in Covered => KindOf[n] \in Stable
  BY <1>1 DEF Covered, Stable, Ledgered
<1>3. KindOf[n] \in Covered => Backed(r, n, c)
  BY <1>1, <1>2, KeyIsAnchor DEF Inv, Honest
<1>4. /\ run'[r].at = run[r].at /\ run'[r].content = c
      /\ \A s \in Runs \ {r} : run'[s] = run[s]
      /\ UNCHANGED <<script, ledger, delivered, reports>>
  BY CalledRuns DEF Inv, Suppress
<1>5. NodeAt(r)' = n /\ KindAt(r)' = KindOf[n]
  BY <1>1, <1>4 DEF NodeAt, KindAt
<1>6. Answered'
  <2> SUFFICES ASSUME NEW s \in Runs, run'[s].phase = "called", run'[s].answer = "sent", KindAt(s)' \in Covered
               PROVE  Backed(s, NodeAt(s), run[s].content)'
    BY DEF Answered
  <2>1. CASE s = r
    BY <1>3, <1>4, <1>5, <2>1 DEF Backed, Times
  <2>2. CASE s # r
    BY <1>4, <2>2 DEF Inv, Answered, Backed, NodeAt, KindAt
  <2> QED
    BY <2>1, <2>2
<1> QED
  BY <1>4, <1>6, QuietStep

\* What goes out was in nobody's ledger, and now it is.
LEMMA DeliverInv ==
  ASSUME Inv, TypeOK', NEW r \in Runs, Deliver(r)
  PROVE  Inv'
<1>0. PICK n \in Nodes, c \in Contents, answer \in {"sent", "thrown"} :
        n = NodeAt(r) /\ c = run[r].content /\ Called(r, answer)
  BY Visiting DEF Inv, Deliver
<1>1. PICK key \in Keys : key = Key(r, n, c)
  BY KeyType DEF Inv
<1>2. /\ KindAt(r) = KindOf[n]
      /\ Ledgered(KindOf[n]) => key \notin ledger
      /\ ledger' = IF Ledgered(KindOf[n]) THEN ledger \cup {key} ELSE ledger
      /\ delivered' = [delivered EXCEPT ![<<r, n, c>>] = @ + 1]
      /\ UNCHANGED <<script, reports>>
  BY <1>0, <1>1, Visiting DEF Inv, Deliver
<1>3. /\ run'[r].at = run[r].at /\ run'[r].content = c
      /\ \A s \in Runs \ {r} : run'[s] = run[s]
  BY <1>0, CalledRuns DEF Inv
<1>4. NodeAt(r)' = n /\ KindAt(r)' = KindOf[n]
  BY <1>0, <1>2, <1>3 DEF NodeAt, KindAt
<1>5. /\ Times(r, n, c)' = Times(r, n, c) + 1
      /\ \A s \in Runs, m \in Nodes, d \in Contents :
           /\ Times(s, m, d) \in Nat
           /\ <<s, m, d>> # <<r, n, c>> => Times(s, m, d)' = Times(s, m, d)
  BY <1>2 DEF Inv, TypeOK, Times, Triples
<1>6. \A s \in Runs, m \in Nodes, d \in Contents : Times(s, m, d)' >= Times(s, m, d)
  BY <1>2, <1>5
<1>7. \A s \in Runs, m \in Nodes, d \in Contents : Backed(s, m, d) => Backed(s, m, d)'
  <2>1. \A s \in Runs, m \in Nodes, d \in Contents : delivered[<<s, m, d>>] >= 1 => delivered'[<<s, m, d>>] >= 1
    BY <1>5, <1>6 DEF Times
  <2> QED
    BY <2>1 DEF Backed, IsBackedBy
<1>8. Backed(r, n, c)'
  <2>1. delivered'[<<r, n, c>>] >= 1
    BY <1>5 DEF Times
  <2> QED
    BY <2>1 DEF Backed, IsBackedBy
<1>9. KindOf[n] \in Stable => key = Anchor(r, n, c) /\ key \notin ledger /\ ledger' = ledger \cup {key}
  BY <1>1, <1>2, KeyIsAnchor DEF Stable, Ledgered
<1>10. ledger \subseteq ledger' /\ ledger' \subseteq ledger \cup {key}
  BY <1>2
<1>11. Recorded'
  <2> SUFFICES ASSUME NEW s \in Runs, NEW m \in Nodes, NEW d \in Contents,
                      KindOf[m] \in Stable, Times(s, m, d)' >= 1
               PROVE  Anchor(s, m, d) \in ledger'
    BY DEF Recorded, Anchor
  <2>1. CASE <<s, m, d>> = <<r, n, c>>
    BY <1>9, <2>1
  <2>2. CASE <<s, m, d>> # <<r, n, c>>
    BY <1>5, <1>10, <2>2 DEF Inv, Recorded
  <2> QED
    BY <2>1, <2>2
<1>12. Honest'
  <2> SUFFICES ASSUME NEW s \in Runs, NEW m \in Nodes, NEW d \in Contents,
                      KindOf[m] \in Stable, Anchor(s, m, d) \in ledger'
               PROVE  Backed(s, m, d)'
    BY DEF Honest, Anchor
  <2>1. CASE Anchor(s, m, d) \in ledger
    BY <1>7, <2>1 DEF Inv, Honest
  <2>2. CASE Anchor(s, m, d) = key
    <3>1. m = n /\ c.said = d.said /\ (KindOf[m] = "email" \/ r = s)
      BY <1>1, <2>2, AnchorIsOwned
    <3>2. Times(r, m, c)' >= 1 /\ Ledgered(KindOf[m])
      BY <1>5, <3>1 DEF Stable, Ledgered
    <3> QED
      BY <3>1, <3>2 DEF Backed, IsBackedBy, Times
  <2> QED
    BY <1>10, <2>1, <2>2
<1>13. KindOf[n] \in Stable => \A d \in Contents : d.said = c.said => Times(r, n, d) = 0
  BY <1>2, <1>5, <1>9 DEF Inv, Recorded, Anchor
<1>14. KindOf[n] = "email" => \A s \in Runs, d \in Contents : d.said = c.said => Times(s, n, d) = 0
  BY <1>2, <1>5, <1>9 DEF Inv, Recorded, Anchor, Stable
<1>15. EmailSentOnce'
  <2> SUFFICES ASSUME NEW m \in Nodes, NEW d \in Contents, NEW e \in Contents, KindOf[m] = "email", d.said = e.said,
                      NEW s \in Runs, NEW u \in Runs
               PROVE  /\ Times(s, m, d)' <= 1
                      /\ <<s, d>> # <<u, e>> => Times(s, m, d)' = 0 \/ Times(u, m, e)' = 0
    BY DEF EmailSentOnce
  <2>1. CASE m = n /\ d.said = c.said
    <3>1. Times(s, m, d) = 0 /\ Times(u, m, e) = 0
      BY <1>14, <2>1
    <3>2. Times(s, m, d)' = IF s = r /\ d = c THEN 1 ELSE 0
      BY <1>5, <2>1, <3>1
    <3>3. Times(u, m, e)' = IF u = r /\ e = c THEN 1 ELSE 0
      BY <1>5, <2>1, <3>1
    <3> QED
      BY <3>2, <3>3
  <2>2. CASE ~(m = n /\ d.said = c.said)
    <3>1. Times(s, m, d)' = Times(s, m, d) /\ Times(u, m, e)' = Times(u, m, e)
      BY <1>5, <2>2
    <3> QED
      BY <3>1 DEF Inv, EmailSentOnce
  <2> QED
    BY <2>1, <2>2
<1>16. EgressOncePerRun'
  <2> SUFFICES ASSUME NEW s \in Runs, NEW m \in Nodes, NEW d \in Contents, NEW e \in Contents,
                      KindOf[m] \in {"sms", "chat"}, d.said = e.said
               PROVE  /\ Times(s, m, d)' <= 1
                      /\ d # e => Times(s, m, d)' = 0 \/ Times(s, m, e)' = 0
    BY DEF EgressOncePerRun
  <2>1. CASE s = r /\ m = n /\ d.said = c.said
    <3>1. Times(s, m, d) = 0 /\ Times(s, m, e) = 0
      BY <1>13, <2>1 DEF Stable
    <3>2. Times(s, m, d)' = IF d = c THEN 1 ELSE 0
      BY <1>5, <2>1, <3>1
    <3>3. Times(s, m, e)' = IF e = c THEN 1 ELSE 0
      BY <1>5, <2>1, <3>1
    <3> QED
      BY <3>2, <3>3
  <2>2. CASE ~(s = r /\ m = n /\ d.said = c.said)
    <3>1. Times(s, m, d)' = Times(s, m, d) /\ Times(s, m, e)' = Times(s, m, e)
      BY <1>5, <2>2
    <3> QED
      BY <3>1 DEF Inv, EgressOncePerRun
  <2> QED
    BY <2>1, <2>2
<1>17. Answered'
  <2> SUFFICES ASSUME NEW s \in Runs, run'[s].phase = "called", run'[s].answer = "sent", KindAt(s)' \in Covered
               PROVE  Backed(s, NodeAt(s), run[s].content)'
    BY DEF Answered
  <2>1. CASE s = r
    BY <1>3, <1>4, <1>8, <2>1 DEF Backed, Times
  <2>2. CASE s # r
    <3>1. /\ run'[s] = run[s] /\ NodeAt(s)' = NodeAt(s) /\ KindAt(s)' = KindAt(s)
      BY <1>2, <1>3, <2>2 DEF NodeAt, KindAt
    <3>2. NodeAt(s) \in Nodes /\ run[s].content \in Contents
      BY <3>1, Visiting DEF Inv
    <3>3. Backed(s, NodeAt(s), run[s].content)
      BY <3>1 DEF Inv, Answered
    <3> QED
      BY <1>7, <3>1, <3>2, <3>3 DEF Backed
  <2> QED
    BY <2>1, <2>2
<1>18. ReportedWasDelivered'
  <2> SUFFICES ASSUME NEW p \in reports, KindOf[script[p.at]] \in Covered,
                      p.sent \/ KindOf[script[p.at]] = "email"
               PROVE  Backed(p.run, script[p.at], p.content)'
    BY <1>2 DEF ReportedWasDelivered
  <2>1. p.run \in Runs /\ script[p.at] \in Nodes /\ p.content \in Contents
    BY ScriptAssumption DEF Inv, TypeOK
  <2>2. Backed(p.run, script[p.at], p.content)
    BY DEF Inv, ReportedWasDelivered
  <2> QED
    BY <1>2, <1>7, <2>1, <2>2 DEF Backed
<1> QED
  BY <1>11, <1>12, <1>15, <1>16, <1>17, <1>18 DEF Inv

\* A node completes with a report of the answer it has, and an email node only with "sent".
LEMMA CompleteInv ==
  ASSUME Inv, TypeOK', NEW r \in Runs, Complete(r)
  PROVE  Inv'
<1> DEFINE new == [run |-> r, at |-> run[r].at, content |-> run[r].content, sent |-> run[r].answer = "sent"]
<1>1. /\ run[r].phase = "called" /\ reports' = reports \cup {new}
      /\ UNCHANGED <<script, ledger, delivered>>
      /\ Outcome(KindAt(r), run[r].answer) = "completes"
  BY DEF Complete
<1>2. /\ NodeAt(r) \in Nodes /\ KindAt(r) = KindOf[NodeAt(r)] /\ NodeAt(r) = script[run[r].at]
  BY <1>1, Visiting DEF Inv, NodeAt
<1>3. KindAt(r) = "email" => run[r].answer = "sent"
  BY <1>1 DEF Outcome, EmailOutcome
<1>4. \A m \in Nodes, s \in Runs, d \in Contents : Times(s, m, d)' = Times(s, m, d)
  BY <1>1 DEF Times
<1>5. Recorded' /\ Honest' /\ EmailSentOnce' /\ EgressOncePerRun'
  BY <1>1, <1>4 DEF Inv, Recorded, Honest, EmailSentOnce, EgressOncePerRun, Backed, Anchor
<1>6. Answered'
  <2>1. \A s \in Runs : run'[s].phase = "called" => run'[s] = run[s]
    BY ZenonT(60) DEF Complete, Inv, TypeOK, RunStates
  <2> QED
    BY <1>1, <2>1 DEF Inv, Answered, Backed, NodeAt, KindAt
<1>7. ReportedWasDelivered'
  <2> SUFFICES ASSUME NEW p \in reports', KindOf[script[p.at]] \in Covered,
                      p.sent \/ KindOf[script[p.at]] = "email"
               PROVE  Backed(p.run, script[p.at], p.content)
    BY <1>1 DEF ReportedWasDelivered, Backed
  <2>1. CASE p \in reports
    BY <2>1 DEF Inv, ReportedWasDelivered
  <2>2. CASE p = new
    BY <1>1, <1>2, <1>3, <2>2 DEF Inv, Answered
  <2> QED
    BY <1>1, <2>1, <2>2
<1> QED
  BY <1>5, <1>6, <1>7 DEF Inv

LEMMA StepInv == Inv /\ [Next]_vars => Inv'
<1> SUFFICES ASSUME Inv, [Next]_vars PROVE Inv'
  OBVIOUS
<1> USE DEF RunStates
<1>0. TypeOK /\ TypeOK'
  BY StepTypeOK DEF Inv
<1>1. ASSUME NEW r \in Runs, Start(r) PROVE Inv'
  BY <1>0, <1>1, SilentStep DEF Start, TypeOK
<1>2. ASSUME NEW r \in Runs, NEW s \in Runs, NEW k \in Positions, Fork(r, s, k) PROVE Inv'
  <2>1. run'[r].phase = "resting" /\ \A u \in Runs \ {r} : run'[u] = run[u]
    BY <1>0, <1>2 DEF Fork, TypeOK, Absent
  <2> QED
    BY <1>0, <1>2, <2>1, SilentStep DEF Fork
<1>3. ASSUME NEW r \in Runs, Resolve(r) PROVE Inv'
  BY <1>0, <1>3, SilentStep DEF Resolve, TypeOK
<1>4. ASSUME NEW r \in Runs, Refuse(r) PROVE Inv'
  <2>1. PICK answer \in {"refused", "thrown"} : Called(r, answer)
    BY <1>4 DEF Refuse
  <2>2. run'[r].answer # "sent" /\ \A s \in Runs \ {r} : run'[s] = run[s]
    BY <1>0, <2>1, CalledRuns
  <2> QED
    BY <1>0, <1>4, <2>2, SilentStep DEF Refuse
<1>5. ASSUME NEW r \in Runs, Throw(r) PROVE Inv'
  <2>1. run'[r].phase # "called" /\ \A s \in Runs \ {r} : run'[s] = run[s]
    BY ZenonT(60), <1>0, <1>5 DEF Throw, TypeOK
  <2> QED
    BY <1>0, <1>5, <2>1, SilentStep DEF Throw
<1>6. ASSUME NEW r \in Runs, Crash(r) PROVE Inv'
  BY <1>0, <1>6, SilentStep DEF Crash, TypeOK
<1>7. CASE Tick
  BY <1>0, <1>7, SilentStep DEF Tick
<1>8. CASE UNCHANGED vars
  BY <1>0, <1>8, SilentStep DEF vars
<1> QED
  BY <1>0, <1>1, <1>2, <1>3, <1>4, <1>5, <1>6, <1>7, <1>8, SuppressInv, DeliverInv, CompleteInv DEF Next

LEMMA Invariance == Spec => []Inv
BY InitInv, StepInv, PTL DEF Spec

-----------------------------------------------------------------------------
(* Theorems.                                                                *)

\* Whatever happens, the state is of its type: a run is at a step of its workflow or
\* behind the last one, and calls a host only with inputs.
THEOREM EgressTypeCorrect == Spec => []TypeOK
BY Invariance, PTL DEF Inv

\* No family of runs sends an email twice (emailSend).
THEOREM EmailsSentOnce == Spec => []EmailSentOnce
BY Invariance, PTL DEF Inv

\* No run sends a text, a push notification or a chat message twice (smsSend,
\* notificationPush, sendMessage).
THEOREM OtherEgressOncePerRun == Spec => []EgressOncePerRun
BY Invariance, PTL DEF Inv

\* What a completed step says it sent went out, and a completed email step sent
\* (emailSend, slackMessage, voiceCallPlace, smsSend, sendMessage).
THEOREM ReportsAreTrue == Spec => []ReportedWasDelivered
BY Invariance, PTL DEF Inv
=============================================================================
