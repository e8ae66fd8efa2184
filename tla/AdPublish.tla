----------------------------- MODULE AdPublish -----------------------------
(***************************************************************************)
(* The ads.publish.* nodes of the vendor.myndhyve packs: resolve secrets,   *)
(* create a chain of entities on an advertising platform with one request  *)
(* per entity, undo what was created when a request fails, and report. The *)
(* platform may process a request whose answer never arrives, the host may *)
(* crash, and the host runs the node again when it may.                    *)
(***************************************************************************)
EXTENDS Naturals, Sequences, FiniteSets

CONSTANT MaxAttempts   \* bound: how often the host runs the node

ASSUME AttemptsAssumption == MaxAttempts \in Nat \ {0}

VARIABLES
  job,      \* what the workflow asks for
  attempt,  \* runs of the node so far
  phase,    \* where the current run is
  pos,      \* the secret, the step, or the removal it waits for
  ids,      \* per run, the entities whose id the node was told
  result,   \* per run, what the node returned, or is about to return
  kept,     \* per run, the removals that failed
  late,     \* requests the node no longer waits for
  remote    \* entities on the platform

vars == <<job, attempt, phase, pos, ids, result, kept, late, remote>>

Platforms == {"meta", "google", "tiktok"}
Chain == <<"campaign", "group", "ad">>
First == [meta |-> "creative", google |-> "budget", tiktok |-> "image"]
Entities == {"creative", "budget", "image", "campaign", "group", "ad"}
Attempts == 1..MaxAttempts

\* upload: the TikTok creative is an image the node uploads itself.
Job == [platform: Platforms, valid: BOOLEAN, upload: BOOLEAN]

Pipeline(j) ==
  IF j.platform = "tiktok" /\ ~j.upload THEN Chain ELSE <<First[j.platform]>> \o Chain
Secrets(j) == IF j.platform = "google" THEN 2 ELSE 1

\* The undo of the entities in known, in order.
Meant(known, s) == IF s \in known THEN <<s>> ELSE <<>>
\* (Faulty variant: in the order of creation.)
UndoForwards(j, known) ==
  IF j.platform = "tiktok" THEN <<>>
  ELSE SelectSeq(Pipeline(j), LAMBDA s : s \in known /\ (j.platform = "meta" => s \in {"creative", "campaign"}))
Undo(j, known) ==
  IF j.platform = "meta" THEN Meant(known, "campaign") \o Meant(known, "creative")
  ELSE IF j.platform = "google"
  THEN Meant(known, "ad") \o Meant(known, "group")
         \o Meant(known, "campaign") \o Meant(known, "budget")
  ELSE <<>>

\* What the node returns; rolledBack of an error is made from ids.
Success == [status |-> "success", retryable |-> FALSE]
Error(retryable) == [status |-> "error", retryable |-> retryable]
NoResult == [status |-> "none", retryable |-> FALSE]

Init ==
  /\ job \in Job
  /\ job.upload => job.platform = "tiktok"
  /\ attempt = 0
  /\ phase = "idle"
  /\ pos = 1
  /\ ids = [a \in Attempts |-> {}]
  /\ result = [a \in Attempts |-> NoResult]
  /\ kept = [a \in Attempts |-> {}]
  /\ late = {}
  /\ remote = {}

-----------------------------------------------------------------------------
(* The platform.                                                           *)

Entity(a, s) == [attempt |-> a, step |-> s]
On(a, s) == Entity(a, s) \in remote

\* What a step of attempt a names in its request: ids the node was told.
Names(s) ==
  CASE s = "group" -> {"campaign"}
    [] s = "ad" -> {"group"} \cup ({First[job.platform]} \cap {"creative"})
    [] s = "campaign" -> {First[job.platform]} \cap {"budget"}
    [] OTHER -> {}
\* A request that names an entity that is not there, or no id, is refused.
Creatable(a, s) == \A n \in Names(s) : n \in ids[a] /\ On(a, n)

\* Meta deletes what belongs to a campaign with it; Google refuses to remove a
\* budget a campaign uses.
Removable(a, s) == s = "budget" => ~On(a, "campaign")
RemovedWith(a, s) ==
  IF job.platform = "meta" /\ s = "campaign"
  THEN {Entity(a, t) : t \in {"campaign", "group", "ad"}}
  ELSE {Entity(a, s)}

-----------------------------------------------------------------------------
(* The node.                                                               *)

Running == phase \in {"secret", "create", "undo"}
Waiting == IF phase = "create" THEN Pipeline(job)[pos] ELSE Undo(job, ids[attempt])[pos]

\* The host runs the node, again if the last run crashed or failed in a way the
\* node calls retryable. The inputs are checked before anything is awaited.
Dispatch ==
  /\ attempt < MaxAttempts
  /\ \/ phase = "idle"
     \/ phase = "crashed"
     \/ phase = "done" /\ result[attempt].retryable
  /\ attempt' = attempt + 1
  /\ pos' = 1
  /\ IF job.valid
     THEN phase' = "secret" /\ UNCHANGED result
     ELSE /\ phase' = "done"
          /\ result' = [result EXCEPT ![attempt'] = Error(FALSE)]
  /\ UNCHANGED <<job, ids, kept, late, remote>>

ResolveSecret ==
  /\ phase = "secret"
  /\ IF pos < Secrets(job)
     THEN pos' = pos + 1 /\ UNCHANGED phase
     ELSE pos' = 1 /\ phase' = "create"
  /\ UNCHANGED <<job, attempt, ids, result, kept, late, remote>>

\* secret_quota_exhausted is retryable, the other codes are not.
SecretFails ==
  /\ phase = "secret"
  /\ phase' = "done"
  /\ \E retryable \in BOOLEAN :
       result' = [result EXCEPT ![attempt] = Error(retryable)]
  /\ UNCHANGED <<job, attempt, pos, ids, kept, late, remote>>

\* After the answer to step pos: the next request, or the successful return.
Proceed ==
  IF pos < Len(Pipeline(job))
  THEN pos' = pos + 1 /\ UNCHANGED <<phase, result>>
  ELSE /\ phase' = "done"
       /\ result' = [result EXCEPT ![attempt] = Success]
       /\ UNCHANGED pos

Created ==
  /\ phase = "create"
  /\ Creatable(attempt, Waiting)
  /\ remote' = remote \cup {Entity(attempt, Waiting)}
  /\ ids' = [ids EXCEPT ![attempt] = @ \cup {Waiting}]
  /\ Proceed
  /\ UNCHANGED <<job, attempt, kept, late>>

\* An answer without an id: Meta and TikTok carry on with none, Google's
\* results[0] throws, as when the answer is lost.
CreatedWithoutId ==
  /\ phase = "create"
  /\ job.platform # "google"
  /\ Creatable(attempt, Waiting)
  /\ remote' = remote \cup {Entity(attempt, Waiting)}
  /\ Proceed
  /\ UNCHANGED <<job, attempt, ids, kept, late>>

\* The catch block: the error is kept, the removals begin.
\* (Faulty variant: what will be retried is not rolled back.)
FailUnlessRetryable(retryable) ==
  /\ result' = [result EXCEPT ![attempt] = Error(retryable)]
  /\ phase' = IF Undo(job, ids[attempt]) = <<>> \/ retryable THEN "done" ELSE "undo"
  /\ pos' = 1
Fail(retryable) ==
  /\ result' = [result EXCEPT ![attempt] = Error(retryable)]
  /\ phase' = IF Undo(job, ids[attempt]) = <<>> THEN "done" ELSE "undo"
  /\ pos' = 1

\* (Faulty variant: the status of the answer is not looked at.)
CreateFailsUnseen ==
  /\ phase = "create"
  /\ Proceed
  /\ UNCHANGED <<job, attempt, ids, kept, late, remote>>
\* An answer that is an error: 429 and 5xx are retryable. A 5xx does not say
\* that nothing was created.
CreateFails ==
  /\ phase = "create"
  /\ \E retryable \in BOOLEAN, made \in BOOLEAN :
       /\ made => retryable /\ Creatable(attempt, Waiting)
       /\ remote' = IF made THEN remote \cup {Entity(attempt, Waiting)} ELSE remote
       /\ Fail(retryable)
  /\ UNCHANGED <<job, attempt, ids, kept, late>>

\* fetch, or the reading of the body, rejects: no retryable property. The
\* platform may have the request all the same.
CreateLost ==
  /\ phase = "create"
  /\ late' = late \cup {[kind |-> "create", of |-> Entity(attempt, Waiting)]}
  /\ Fail(FALSE)
  /\ UNCHANGED <<job, attempt, ids, kept, remote>>

\* After a removal, whatever came of it: the next one, or the return.
ProceedUndo ==
  IF pos < Len(Undo(job, ids[attempt]))
  THEN pos' = pos + 1 /\ UNCHANGED phase
  ELSE phase' = "done" /\ UNCHANGED pos

Removed ==
  /\ phase = "undo"
  /\ remote' = IF Removable(attempt, Waiting)
               THEN remote \ RemovedWith(attempt, Waiting) ELSE remote
  /\ ProceedUndo
  /\ UNCHANGED <<job, attempt, ids, result, kept, late>>

\* (Faulty variant: a removal is tried until it succeeds.)
RemoveFailsAgain ==
  /\ phase = "undo"
  /\ kept' = [kept EXCEPT ![attempt] = @ \cup {Waiting}]
  /\ late' = late \cup {[kind |-> "remove", of |-> Entity(attempt, Waiting)]}
  /\ UNCHANGED <<job, attempt, phase, pos, ids, result, remote>>
\* Refused for the time being, or no answer; logged at most.
RemoveFails ==
  /\ phase = "undo"
  /\ kept' = [kept EXCEPT ![attempt] = @ \cup {Waiting}]
  /\ late' = late \cup {[kind |-> "remove", of |-> Entity(attempt, Waiting)]}
  /\ ProceedUndo
  /\ UNCHANGED <<job, attempt, ids, result, remote>>

\* The host's process ends, and what the run would have returned with it; the
\* request it waited for is on its way.
Crash ==
  /\ Running
  /\ phase' = "crashed"
  /\ result' = [result EXCEPT ![attempt] = NoResult]
  /\ late' = IF phase = "secret" THEN late
             ELSE late \cup {[kind |-> IF phase = "create" THEN "create" ELSE "remove",
                              of |-> Entity(attempt, Waiting)]}
  /\ UNCHANGED <<job, attempt, pos, ids, kept, remote>>

\* The platform gets to a request the node gave up on, or never does.
ProcessLate(q) ==
  LET a == q.of.attempt  s == q.of.step IN
    /\ late' = late \ {q}
    /\ \/ q.kind = "create" /\ Creatable(a, s) /\ remote' = remote \cup {q.of}
       \/ q.kind = "remove" /\ Removable(a, s) /\ remote' = remote \ RemovedWith(a, s)
       \/ UNCHANGED remote
    /\ UNCHANGED <<job, attempt, phase, pos, ids, result, kept>>

Settle ==
  \/ ResolveSecret \/ SecretFails
  \/ Created \/ CreatedWithoutId \/ CreateFails \/ CreateLost
  \/ Removed \/ RemoveFails

Next == Dispatch \/ Settle \/ Crash \/ \E q \in late : ProcessLate(q)

Spec == Init /\ [][Next]_vars

\* Every promise the node awaits settles: fetch has its own time limits.
FairSpec == Spec /\ WF_vars(Settle)

-----------------------------------------------------------------------------
(* Properties.                                                             *)

TypeOK ==
  /\ job \in Job
  /\ attempt \in 0..MaxAttempts
  /\ phase \in {"idle", "secret", "create", "undo", "done", "crashed"}
  /\ ids \in [Attempts -> SUBSET Entities]
  /\ kept \in [Attempts -> SUBSET Entities]
  /\ remote \subseteq [attempt: Attempts, step: Entities]
  /\ late \subseteq [kind: {"create", "remove"}, of: [attempt: Attempts, step: Entities]]
  /\ result \in [Attempts -> [status: {"none", "success", "error"}, retryable: BOOLEAN]]
  /\ phase = "secret" => pos \in 1..Secrets(job)
  /\ phase = "create" => pos \in 1..Len(Pipeline(job))
  /\ phase = "undo" => pos \in 1..Len(Undo(job, ids[attempt]))

Ended(a) == a < attempt \/ (a = attempt /\ phase = "done")
Left(a) == {s \in Entities : On(a, s)}
RollsBack == job.platform \in {"meta", "google"}

\* A failed run leaves nothing behind: when no removal failed and every entity of
\* the run is one the node was told of, the catch block removed them all, in an
\* order the platform accepts (adsPublishMeta, adsPublishGoogle).
RollbackComplete ==
  \A a \in Attempts :
    Ended(a) /\ result[a].status = "error" /\ RollsBack /\ kept[a] = {}
      /\ Left(a) \subseteq ids[a] => Left(a) = {}

\* A run that reported an error does not go on to deliver an ad, not even one
\* whose creation the node was never told of or the platform got to after the
\* rollback, unless the removal of the campaign itself failed.
Delivers(a) == {"campaign", "group", "ad"} \subseteq Left(a)
FailedPublishNeverDelivers ==
  \A a \in Attempts :
    Ended(a) /\ result[a].status = "error" /\ RollsBack /\ "campaign" \notin kept[a]
      => ~Delivers(a)

\* A run that reported success has its whole chain on the platform, and nothing
\* removes it, late removals of other runs included.
SuccessIsWhole ==
  \A a \in Attempts :
    Ended(a) /\ result[a].status = "success" =>
      \A i \in DOMAIN Pipeline(job) : On(a, Pipeline(job)[i])

\* Every run of the node ends, whatever the platform answers, unless the host
\* does.
EveryRunEnds == []<>(phase \in {"idle", "done", "crashed"})
=============================================================================
