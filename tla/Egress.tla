------------------------------- MODULE Egress -------------------------------
(***************************************************************************)
(* The nodes that send a message through the host: email, Slack, generic    *)
(* chat, SMS, voice and push of core.openwop.integration, sendMessage of     *)
(* core.chat, chatSend and chatReply of vendor.myndhyve.entities. A run      *)
(* visits them in turn; the host may crash between a send and the record of  *)
(* the node's completion, answers get lost, the executor retries, and a run  *)
(* is forked: the fork has a new id, takes the completed steps over and goes *)
(* on from any of them. What keeps a message from going out twice is the key *)
(* each node makes and the host's ledger of keys.                            *)
(***************************************************************************)
EXTENDS Naturals, Sequences

CONSTANTS
  Runs,       \* ids of a run and its forks
  Nodes,      \* ids of the nodes that send
  KindOf,     \* what each of them is
  Saids,      \* the part of what is sent that keys are made of: to whom and what it says
  Rests,      \* the part they leave out: copies and sender of an email, data of a push
  Contents,   \* what is sent: both parts
  Scripts,    \* workflows: the nodes a run visits, in order
  None,       \* stands for a part a key does not have
  MaxTries,   \* bound of config.retry on the runs of a node after a failure
  MaxCrashes, \* bound on the crashes of the host
  MaxClock    \* bound on Date.now()

Kinds == {"email", "slack", "voice", "sms", "generic", "chat", "entity"}

ASSUME KindAssumption == KindOf \in [Nodes -> Kinds]
ASSUME ScriptAssumption == Scripts \subseteq Seq(Nodes)
ASSUME ContentAssumption == Contents \subseteq [said : Saids, rest : Rests]
ASSUME NoneAssumption == None \notin Runs /\ None \notin Saids /\ None \notin Contents
ASSUME BoundAssumption == MaxTries \in Nat /\ MaxCrashes \in Nat /\ MaxClock \in Nat

VARIABLES
  script,     \* the workflow of the run and its forks
  run,        \* for each id: where the run is
  ledger,     \* keys the host has sent for
  delivered,  \* <<run, node, content>> |-> how often it went out
  reports,    \* outputs of completed steps: run, position, content, and whether it says "sent"
  crashes,    \* of the host so far
  clock       \* Date.now()

vars == <<script, run, ledger, delivered, reports, crashes, clock>>

Triples == Runs \X Nodes \X Contents
Positions == 1..(Len(script) + 1)
Phases == {"absent", "resting", "ready", "called", "failed"}
HostAnswers == {"none", "sent", "refused", "thrown"}
RunStates == [phase : Phases, at : Nat \ {0}, content : Contents \cup {None},
              answer : HostAnswers, tries : 0..MaxTries]
Absent == [phase |-> "absent", at |-> 1, content |-> None, answer |-> "none", tries |-> 0]
Keys == [run : Runs \cup {None}, node : Nodes, said : Saids \cup {None}, time : 0..MaxClock]

Init ==
  /\ script \in Scripts
  /\ run = [r \in Runs |-> Absent]
  /\ ledger = {}
  /\ delivered = [t \in Triples |-> 0]
  /\ reports = {}
  /\ crashes = 0 /\ clock = 0

\* The node a run is at, and its kind. (Only where there is one.)
NodeAt(r) == script[run[r].at]
KindAt(r) == KindOf[NodeAt(r)]
Unfinished(r) == run[r].at <= Len(script)

-----------------------------------------------------------------------------
(* The idempotency keys. deriveIdempotencyKey hashes the parts it is given; *)
(* different parts are taken to have different keys.                        *)

\* Without the run: a fork has the key of the run it comes from.
\* (Faulty variants: with the run; without what is said.)
EmailKeyOfRun(r, n, c) == [run |-> r, node |-> n, said |-> c.said, time |-> 0]
EmailKeyOfNode(r, n, c) == [run |-> None, node |-> n, said |-> None, time |-> 0]
EmailKey(r, n, c) == [run |-> None, node |-> n, said |-> c.said, time |-> 0]

SlackKey(r, n, c) == [run |-> r, node |-> n, said |-> c.said, time |-> 0]
\* (Faulty variant: a key of the moment.)
SmsKeyOfMoment(r, n, c) == [run |-> r, node |-> n, said |-> c.said, time |-> clock]
SmsKey(r, n, c) == [run |-> r, node |-> n, said |-> c.said, time |-> 0]
VoiceKey(r, n, c) == [run |-> r, node |-> n, said |-> c.said, time |-> 0]
ChatKey(r, n, c) == [run |-> r, node |-> n, said |-> c.said, time |-> 0]
\* Where inputs.idempotencyKey is not given.
GenericKey(r, n) == [run |-> r, node |-> n, said |-> None, time |-> 0]
EntityKey(r, n) == [run |-> r, node |-> n, said |-> None, time |-> clock]

Key(r, n, c) ==
  CASE KindOf[n] = "email"   -> EmailKey(r, n, c)
    [] KindOf[n] = "slack"   -> SlackKey(r, n, c)
    [] KindOf[n] = "sms"     -> SmsKey(r, n, c)
    [] KindOf[n] = "voice"   -> VoiceKey(r, n, c)
    [] KindOf[n] = "chat"    -> ChatKey(r, n, c)
    [] KindOf[n] = "generic" -> GenericKey(r, n)
    [] OTHER                 -> EntityKey(r, n)

\* There is no ledger for Slack, and none yet for voice calls.
Ledgered(kind) == kind \notin {"slack", "voice"}

-----------------------------------------------------------------------------
(* What a node makes of the host's answer: it throws, or it completes and   *)
(* its outputs say that the message was sent or that it was not.            *)

\* A message that was not sent is a failure of the node.
\* (Faulty variant: it completes, and says so in an output nobody reads.)
EmailOutcomeSilent(answer) == IF answer = "thrown" THEN "throws" ELSE "completes"
EmailOutcome(answer) == IF answer = "sent" THEN "completes" ELSE "throws"
SlackOutcome(answer) == IF answer = "thrown" THEN "throws" ELSE "completes"
\* sms, voice, push, generic chat and sendMessage hand on what the host returned.
HandOn(answer) == IF answer = "thrown" THEN "throws" ELSE "completes"
\* dispatchEgress catches what the host throws.
EntityOutcome(answer) == "completes"

Outcome(kind, answer) ==
  IF kind = "email" THEN EmailOutcome(answer)
  ELSE IF kind = "slack" THEN SlackOutcome(answer)
  ELSE IF kind = "entity" THEN EntityOutcome(answer)
  ELSE HandOn(answer)

-----------------------------------------------------------------------------
(* The host and its runs.                                                   *)

\* A run is started.
Start(r) ==
  /\ \A s \in Runs : run[s].phase = "absent"
  /\ run' = [run EXCEPT ![r].phase = "resting"]
  /\ UNCHANGED <<script, ledger, delivered, reports, crashes, clock>>

\* A run is forked at a step it has reached: the completed steps before it are taken
\* over with their outputs, the step itself is run again.
Fork(r, s, k) ==
  /\ run[s].phase # "absent" /\ run[r].phase = "absent"
  /\ k <= run[s].at
  /\ run' = [run EXCEPT ![r] = [Absent EXCEPT !.phase = "resting", !.at = k]]
  /\ UNCHANGED <<script, ledger, delivered, reports, crashes, clock>>

\* The inputs of the next step are there. They stay what they are for every run of
\* the node; a fork, or a later visit to the same node, may have others.
Resolve(r) == \E c \in Contents :
  /\ run[r].phase = "resting" /\ Unfinished(r)
  /\ run' = [run EXCEPT ![r].phase = "ready", ![r].content = c]
  /\ UNCHANGED <<script, ledger, delivered, reports, crashes, clock>>

Called(r, answer) == run' = [run EXCEPT ![r].phase = "called", ![r].answer = answer]

\* The key was sent for: the host answers as it did then.
Suppress(r) ==
  /\ run[r].phase = "ready"
  /\ Ledgered(KindAt(r))
  /\ Key(r, NodeAt(r), run[r].content) \in ledger
  /\ Called(r, "sent")
  /\ UNCHANGED <<script, ledger, delivered, reports, crashes, clock>>

\* The message goes out and its key is recorded; the answer may be lost.
Deliver(r) == \E answer \in {"sent", "thrown"} :
  LET key == Key(r, NodeAt(r), run[r].content) IN
  /\ run[r].phase = "ready"
  /\ Ledgered(KindAt(r)) => key \notin ledger
  /\ Called(r, answer)
  /\ ledger' = IF Ledgered(KindAt(r)) THEN ledger \cup {key} ELSE ledger
  /\ delivered' = [delivered EXCEPT ![<<r, NodeAt(r), run[r].content>>] = @ + 1]
  /\ UNCHANGED <<script, reports, crashes, clock>>

\* The provider or a policy of the host refuses, or the call does not get through.
Refuse(r) == \E answer \in {"refused", "thrown"} :
  /\ run[r].phase = "ready"
  /\ Ledgered(KindAt(r)) => Key(r, NodeAt(r), run[r].content) \notin ledger
  /\ Called(r, answer)
  /\ UNCHANGED <<script, ledger, delivered, reports, crashes, clock>>

\* The node completes: its outputs are recorded and the run goes on.
Complete(r) ==
  /\ run[r].phase = "called"
  /\ Outcome(KindAt(r), run[r].answer) = "completes"
  /\ reports' = reports \cup {[run |-> r, at |-> run[r].at, content |-> run[r].content,
                               sent |-> run[r].answer = "sent"]}
  /\ run' = [run EXCEPT ![r].phase = "resting", ![r].at = @ + 1,
                        ![r].content = None, ![r].answer = "none", ![r].tries = 0]
  /\ UNCHANGED <<script, ledger, delivered, crashes, clock>>

\* The node threw: a failure of the transport is retried, a refusal is not.
Throw(r) ==
  /\ run[r].phase = "called"
  /\ Outcome(KindAt(r), run[r].answer) = "throws"
  /\ LET again == run[r].answer = "thrown" /\ run[r].tries < MaxTries IN
     run' = [run EXCEPT ![r].phase = IF again THEN "ready" ELSE "failed",
                        ![r].content = IF again THEN @ ELSE None,
                        ![r].tries = IF again THEN @ + 1 ELSE 0,
                        ![r].answer = "none"]
  /\ UNCHANGED <<script, ledger, delivered, reports, crashes, clock>>

\* The host crashes before the outcome of the node is recorded, and runs it again.
Crash(r) ==
  /\ run[r].phase = "called" /\ crashes < MaxCrashes
  /\ run' = [run EXCEPT ![r].phase = "ready", ![r].answer = "none"]
  /\ crashes' = crashes + 1
  /\ UNCHANGED <<script, ledger, delivered, reports, clock>>

Tick ==
  /\ clock < MaxClock
  /\ clock' = clock + 1
  /\ UNCHANGED <<script, run, ledger, delivered, reports, crashes>>

Next ==
  \/ \E r \in Runs : \/ Start(r) \/ Resolve(r)
                     \/ Suppress(r) \/ Deliver(r) \/ Refuse(r)
                     \/ Complete(r) \/ Throw(r) \/ Crash(r)
                     \/ \E s \in Runs, k \in Positions : Fork(r, s, k)
  \/ Tick

Spec == Init /\ [][Next]_vars

-----------------------------------------------------------------------------
(* Properties.                                                              *)

TypeOK ==
  /\ script \in Scripts
  /\ run \in [Runs -> RunStates]
  /\ \A r \in Runs : run[r].at \in Positions
  /\ \A r \in Runs : run[r].phase \in {"ready", "called"} => Unfinished(r) /\ run[r].content \in Contents
  /\ ledger \subseteq Keys
  /\ delivered \in [Triples -> Nat]
  /\ reports \subseteq [run : Runs, at : 1..Len(script), content : Contents, sent : BOOLEAN]
  /\ crashes \in 0..MaxCrashes /\ clock \in 0..MaxClock

Times(r, n, c) == delivered[<<r, n, c>>]

\* However a run crashes, retries and is forked, and whoever of the family got how
\* far: one email of a node that says one thing to the same people goes out at most
\* once (emailSend, "a fork re-sent the email").
EmailSentOnce ==
  \A n \in Nodes, c, d \in Contents : KindOf[n] = "email" /\ c.said = d.said =>
    \A r, s \in Runs : /\ Times(r, n, c) <= 1
                       /\ <<r, c>> # <<s, d>> => Times(r, n, c) = 0 \/ Times(s, n, d) = 0

\* A run that crashes or retries sends one text message, push notification or chat
\* message at most once (smsSend, notificationPush, sendMessage).
EgressOncePerRun ==
  \A r \in Runs, n \in Nodes, c, d \in Contents : KindOf[n] \in {"sms", "chat"} /\ c.said = d.said =>
    /\ Times(r, n, c) <= 1
    /\ c # d => Times(r, n, c) = 0 \/ Times(r, n, d) = 0

\* A message of a run that says as much is among those that went out: for an email,
\* from any run of the family; where no ledger can suppress it, the message itself.
IsBackedBy(out, r, n, c) ==
  \E s \in Runs, d \in Contents :
    /\ out[<<s, n, d>>] >= 1 /\ d.said = c.said
    /\ KindOf[n] # "email" => s = r
    /\ ~Ledgered(KindOf[n]) => d = c
Backed(r, n, c) == IsBackedBy(delivered, r, n, c)

\* The nodes whose key covers what is said.
Covered == {"email", "slack", "voice", "sms", "chat"}

\* A step whose outputs say "sent" stands for a message of its node that said the same
\* to the same people and went out: a key suppresses no message that says anything
\* else. An email step that was completed is such a step, whatever its outputs say: no
\* run goes on that mailed nobody (emailSend, "a run that mailed nobody completed
\* green"). What keys leave out may differ.
ReportedWasDelivered ==
  \A p \in reports :
    KindOf[script[p.at]] \in Covered /\ (p.sent \/ KindOf[script[p.at]] = "email")
      => Backed(p.run, script[p.at], p.content)
=============================================================================
