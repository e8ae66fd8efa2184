-------------------------- MODULE AdPublishProofs --------------------------
(***************************************************************************)
(* Proofs about AdPublish, for any number of runs of the node. The          *)
(* strengthening says what a run has while it creates (Building), which      *)
(* requests may still be out (Outstanding), and what is gone of the          *)
(* entities whose removal is behind the run (Gone, BudgetGone).              *)
(***************************************************************************)
EXTENDS AdPublish, TLAPS

\* The entities a platform's catch block removes.
Removables ==
  IF job.platform = "meta" THEN {"campaign", "creative"}
  ELSE IF job.platform = "google" THEN {"ad", "group", "campaign", "budget"} ELSE {}

\* The steps before position n of the pipeline, and of the undo of run a.
StepsBefore(n) == {Pipeline(job)[i] : i \in 1..(n - 1)}
UndoneBefore(a, n) == {Undo(job, ids[a])[i] : i \in 1..(n - 1)}

LateOf(a) == {q \in late : q.of.attempt = a}

\* The removal of s is behind run a, however it went.
Behind(a, s) ==
  /\ result[a].status = "error"
  /\ s \in ids[a] \cap Removables
  /\ \/ a < attempt
     \/ a = attempt /\ phase = "done"
     \/ a = attempt /\ phase = "undo" /\ s \in UndoneBefore(a, pos)

\* A run that has asked for nothing yet.
Untouched(a) ==
  ids[a] = {} /\ kept[a] = {} /\ result[a] = NoResult /\ LateOf(a) = {}

Fresh == \A a \in Attempts : a > attempt \/ (a = attempt /\ phase = "secret") => Untouched(a)

Building ==
  phase = "create" =>
    /\ ids[attempt] \subseteq StepsBefore(pos)
    /\ kept[attempt] = {} /\ result[attempt] = NoResult /\ LateOf(attempt) = {}
    /\ \A s \in StepsBefore(pos) : On(attempt, s)

Verdicts ==
  /\ phase = "idle" <=> attempt = 0
  /\ phase = "undo" => result[attempt].status = "error"
  /\ phase = "crashed" => result[attempt] = NoResult

\* A request that names what was never told of was refused.
Linked == \A a \in Attempts :
  /\ On(a, "group") \/ "group" \in ids[a] => "campaign" \in ids[a]
  /\ On(a, "ad") => "group" \in ids[a]

\* A run knows entities of its platform only.
OfPlatform == {First[job.platform], "campaign", "group", "ad"}
Own == \A a \in Attempts : ids[a] \subseteq OfPlatform

\* Creations that are out were never told of; removals that are out were.
Outstanding == \A q \in late :
  IF q.kind = "create" THEN q.of.step \notin ids[q.of.attempt]
                       ELSE q.of.step \in ids[q.of.attempt]

Whole == \A a \in Attempts : result[a].status = "success" =>
  LateOf(a) = {} /\ \A i \in DOMAIN Pipeline(job) : On(a, Pipeline(job)[i])

\* What a removal that did not fail leaves behind; Google may have refused a budget.
Gone == \A a \in Attempts, s \in Entities : Behind(a, s) /\ s \notin kept[a] =>
  /\ s # "budget" => ~On(a, s)
  /\ job.platform = "meta" /\ s = "campaign" => ~On(a, "group") /\ ~On(a, "ad")

BudgetGone == \A a \in Attempts : Behind(a, "budget") /\ kept[a] = {} =>
  ~On(a, "budget") \/ (On(a, "campaign") /\ "campaign" \notin ids[a])

Inv ==
  /\ TypeOK /\ Fresh /\ Building /\ Verdicts
  /\ Linked /\ Own /\ Outstanding /\ Whole /\ Gone /\ BudgetGone

-----------------------------------------------------------------------------
(* Sequences.                                                               *)

\* What two lists hold together, one after the other.
LEMMA Joined ==
  ASSUME NEW s \in Seq(Entities), NEW t \in Seq(Entities)
  PROVE  /\ s \o t \in Seq(Entities) /\ Len(s \o t) = Len(s) + Len(t)
         /\ \A i \in 1..Len(s) : (s \o t)[i] = s[i]
         /\ \A i \in (Len(s) + 1)..Len(s \o t) :
              i - Len(s) \in 1..Len(t) /\ (s \o t)[i] = t[i - Len(s)]
         /\ \A i \in 1..Len(t) : (s \o t)[i + Len(s)] = t[i]
OBVIOUS

\* The pipeline is a list of different entities.
LEMMA PipelineIs ==
  ASSUME job \in Job
  PROVE  /\ Pipeline(job) \in Seq(Entities) /\ Len(Pipeline(job)) \in {3, 4}
         /\ \A i, k \in 1..Len(Pipeline(job)) : Pipeline(job)[i] = Pipeline(job)[k] => i = k
         /\ \A i \in 1..Len(Pipeline(job)) : Pipeline(job)[i] \in OfPlatform
<1>1. Chain \in Seq(Entities) /\ Len(Chain) = 3
      /\ Chain[1] = "campaign" /\ Chain[2] = "group" /\ Chain[3] = "ad"
  BY DEF Chain, Entities
<1>2. CASE Pipeline(job) = Chain
  <2>1. \A i \in 1..3 : i = 1 \/ i = 2 \/ i = 3
    OBVIOUS
  <2>2. \A i \in 1..3 : Chain[i] \in {"campaign", "group", "ad"}
    BY <1>1, <2>1
  <2> QED BY <1>1, <1>2, <2>1, <2>2 DEF OfPlatform
<1>3. CASE Pipeline(job) = <<First[job.platform]>> \o Chain
  <2>1. First[job.platform] \in {"creative", "budget", "image"}
    BY DEF Job, Platforms, First
  <2> DEFINE f == First[job.platform]
             l == <<f>>
  <2>2. l \in Seq(Entities) /\ Len(l) = 1 /\ l[1] = f
    BY <2>1 DEF Entities
  <2>3. f # "campaign" /\ f # "group" /\ f # "ad"
    BY <2>1
  <2> HIDE DEF f, l
  <2>4. l \o Chain \in Seq(Entities) /\ Len(l \o Chain) = 4
    <3>1. l \o Chain \in Seq(Entities) /\ Len(l \o Chain) = Len(l) + Len(Chain)
      BY <1>1, <2>2, Joined
    <3> QED BY <1>1, <2>2, <3>1
  <2>5. /\ \A i \in 1..Len(l) : (l \o Chain)[i] = l[i]
        /\ \A i \in 1..Len(Chain) : (l \o Chain)[i + Len(l)] = Chain[i]
    BY <1>1, <2>2, Joined
  <2> DEFINE m == l \o Chain
  <2> HIDE DEF m
  <2>6. m[1] = f /\ m[2] = "campaign" /\ m[3] = "group" /\ m[4] = "ad"
    <3>1. 1 \in 1..Len(l) /\ 1 \in 1..Len(Chain) /\ 2 \in 1..Len(Chain) /\ 3 \in 1..Len(Chain)
      BY <1>1, <2>2
    <3>2. m[1] = l[1] /\ m[1 + 1] = Chain[1] /\ m[2 + 1] = Chain[2] /\ m[3 + 1] = Chain[3]
      BY <2>2, <2>5, <3>1 DEF m
    <3> QED BY <1>1, <2>2, <3>2
  <2>7. \A i \in 1..4 : i = 1 \/ i = 2 \/ i = 3 \/ i = 4
    OBVIOUS
  <2>8. \A i, k \in 1..4 : m[i] = m[k] => i = k
    BY <2>3, <2>6, <2>7
  <2>9. \A i \in 1..4 : m[i] \in OfPlatform
    BY <2>6, <2>7 DEF OfPlatform, f
  <2> QED BY <1>3, <2>4, <2>8, <2>9 DEF f, l, m
<1> QED BY <1>2, <1>3 DEF Pipeline

\* Which entities a list holds.
Holds(s, set) == /\ s \in Seq(Entities)
                 /\ \A i \in 1..Len(s) : s[i] \in set
                 /\ \A e \in set : \E i \in 1..Len(s) : s[i] = e

LEMMA MeantHolds ==
  ASSUME NEW known, NEW e \in Entities
  PROVE  Holds(Meant(known, e), known \cap {e})
BY DEF Holds, Meant

LEMMA JoinedHolds ==
  ASSUME NEW s, NEW t, NEW a, NEW b, Holds(s, a), Holds(t, b)
  PROVE  Holds(s \o t, a \cup b)
<1>1. s \in Seq(Entities) /\ t \in Seq(Entities) /\ s \o t \in Seq(Entities)
      /\ Len(s) \in Nat /\ Len(t) \in Nat /\ Len(s \o t) = Len(s) + Len(t)
  BY Joined DEF Holds
<1>2. ASSUME NEW i \in 1..Len(s \o t) PROVE (s \o t)[i] \in a \cup b
  <2>1. CASE i \in 1..Len(s)
    BY <1>1, <2>1, Joined DEF Holds
  <2>2. CASE i \in (Len(s) + 1)..Len(s \o t)
    BY <1>1, <2>2, Joined DEF Holds
  <2> QED BY <1>1, <1>2, <2>1, <2>2
<1>3. ASSUME NEW e \in a \cup b PROVE \E i \in 1..Len(s \o t) : (s \o t)[i] = e
  <2>1. CASE e \in a
    <3>1. PICK i \in 1..Len(s) : s[i] = e
      BY <2>1 DEF Holds
    <3> QED BY <1>1, <3>1, Joined
  <2>2. CASE e \in b
    <3>1. PICK i \in 1..Len(t) : t[i] = e
      BY <2>2 DEF Holds
    <3>2. i + Len(s) \in 1..Len(s \o t) /\ (s \o t)[i + Len(s)] = e
      BY <1>1, <3>1, Joined
    <3> QED BY <3>2
  <2> QED BY <1>3, <2>1, <2>2
<1> QED BY <1>1, <1>2, <1>3 DEF Holds

\* The undo removes what is known and can be removed, a budget after its campaign.
LEMMA UndoIs ==
  ASSUME job \in Job, NEW known \in SUBSET Entities
  PROVE  /\ Holds(Undo(job, known), known \cap Removables)
         /\ \A i \in 1..Len(Undo(job, known)) :
              Undo(job, known)[i] = "budget" /\ "campaign" \in known =>
                \E k \in 1..(i - 1) : Undo(job, known)[k] = "campaign"
<1> DEFINE M(e) == Meant(known, e)
<1>0. /\ Holds(M("ad"), known \cap {"ad"}) /\ Holds(M("group"), known \cap {"group"})
      /\ Holds(M("campaign"), known \cap {"campaign"}) /\ Holds(M("budget"), known \cap {"budget"})
      /\ Holds(M("creative"), known \cap {"creative"})
  BY MeantHolds DEF Entities
<1>1. CASE job.platform = "meta"
  <2>1. Undo(job, known) = M("campaign") \o M("creative") /\ Removables = {"campaign", "creative"}
    BY <1>1 DEF Undo, Removables
  <2>2. Holds(Undo(job, known), (known \cap {"campaign"}) \cup (known \cap {"creative"}))
    BY <1>0, <2>1, JoinedHolds
  <2>3. (known \cap {"campaign"}) \cup (known \cap {"creative"}) = known \cap Removables
    BY <2>1
  <2>4. Holds(Undo(job, known), known \cap Removables)
    BY <2>2, <2>3
  <2>5. \A i \in 1..Len(Undo(job, known)) : Undo(job, known)[i] # "budget"
    BY <2>1, <2>4 DEF Holds
  <2> QED BY <2>4, <2>5
<1>2. CASE job.platform = "google"
  <2> DEFINE before == M("ad") \o M("group") \o M("campaign")
             set == known \cap {"ad", "group", "campaign"}
  <2>1. Undo(job, known) = before \o M("budget") /\ Removables = {"ad", "group", "campaign", "budget"}
    BY <1>2 DEF Undo, Removables
  <2>2. Holds(M("ad") \o M("group"), (known \cap {"ad"}) \cup (known \cap {"group"}))
    BY <1>0, JoinedHolds
  <2>3. Holds(before, ((known \cap {"ad"}) \cup (known \cap {"group"})) \cup (known \cap {"campaign"}))
    BY <1>0, <2>2, JoinedHolds
  <2>4. ((known \cap {"ad"}) \cup (known \cap {"group"})) \cup (known \cap {"campaign"}) = set
    OBVIOUS
  <2>5. Holds(before, set)
    BY <2>3, <2>4
  <2> HIDE DEF before, set, M
  <2>6. Holds(before \o M("budget"), set \cup (known \cap {"budget"}))
    BY <1>0, <2>5, JoinedHolds
  <2>7. set \cup (known \cap {"budget"}) = known \cap Removables
    BY <2>1 DEF set
  <2>8. Holds(Undo(job, known), known \cap Removables)
    BY <2>1, <2>6, <2>7
  <2>9. ASSUME NEW i \in 1..Len(Undo(job, known)), Undo(job, known)[i] = "budget", "campaign" \in known
        PROVE  \E k \in 1..(i - 1) : Undo(job, known)[k] = "campaign"
    <3>1. before \in Seq(Entities) /\ M("budget") \in Seq(Entities) /\ Len(before) \in Nat
      BY <1>0, <2>5 DEF Holds
    <3>2. PICK k \in 1..Len(before) : before[k] = "campaign"
      BY <2>5, <2>9 DEF Holds, set
    <3>3. \A n \in 1..Len(before) : Undo(job, known)[n] = before[n] /\ before[n] # "budget"
      <4>1. \A n \in 1..Len(before) : before[n] # "budget"
        BY <2>5 DEF Holds, set
      <4> QED BY <2>1, <3>1, <4>1, Joined
    <3>4. i \notin 1..Len(before)
      BY <2>9, <3>3
    <3>5. k \in 1..(i - 1)
      BY <3>1, <3>4
    <3> QED BY <3>2, <3>3, <3>5
  <2> QED BY <2>8, <2>9
<1>3. CASE job.platform = "tiktok"
  <2>1. Undo(job, known) = <<>> /\ Removables = {}
    BY <1>3 DEF Undo, Removables
  <2> QED BY <2>1 DEF Holds
<1> QED BY <1>1, <1>2, <1>3 DEF Job, Platforms

-----------------------------------------------------------------------------
(* What a step is at.                                                       *)

LEMMA EntityIs ==
  \A a, b, s, t : Entity(a, s) = Entity(b, t) <=> a = b /\ s = t
BY DEF Entity

\* A run that is on has a number.
LEMMA Numbered ==
  ASSUME TypeOK, Verdicts, phase # "idle"
  PROVE  attempt \in Attempts
BY AttemptsAssumption DEF TypeOK, Verdicts, Attempts

\* The step a creating run waits for is none of those before.
LEMMA WaitingCreate ==
  ASSUME TypeOK, phase = "create"
  PROVE  /\ Waiting \in Entities /\ Waiting = Pipeline(job)[pos] /\ Waiting \in OfPlatform
         /\ Waiting \notin StepsBefore(pos)
         /\ StepsBefore(pos + 1) = StepsBefore(pos) \cup {Waiting}
         /\ \A i \in DOMAIN Pipeline(job) : i < pos \/ i = pos \/ pos < Len(Pipeline(job))
<1> DEFINE p == Pipeline(job)
<1>1. /\ p \in Seq(Entities) /\ Len(p) \in Nat /\ pos \in 1..Len(p)
      /\ \A i, k \in 1..Len(p) : p[i] = p[k] => i = k
      /\ \A i \in 1..Len(p) : p[i] \in OfPlatform
  BY PipelineIs DEF TypeOK
<1>2. Waiting = p[pos] /\ StepsBefore(pos) = {p[i] : i \in 1..(pos - 1)}
      /\ StepsBefore(pos + 1) = {p[i] : i \in 1..((pos + 1) - 1)}
  BY DEF Waiting, StepsBefore
<1> HIDE DEF p
<1>3. 1..((pos + 1) - 1) = 1..(pos - 1) \cup {pos}
  BY <1>1
<1>4. Waiting \in Entities /\ Waiting \in OfPlatform
  BY <1>1, <1>2
<1>5. Waiting \notin StepsBefore(pos)
  BY <1>1, <1>2
<1>6. StepsBefore(pos + 1) = StepsBefore(pos) \cup {Waiting}
  BY <1>2, <1>3
<1>7. \A i \in DOMAIN p : i < pos \/ i = pos \/ pos < Len(p)
  BY <1>1
<1> QED BY <1>2, <1>4, <1>5, <1>6, <1>7 DEF p

\* The entity an undoing run waits for is known, and none waits for more than the last.
LEMMA WaitingUndo ==
  ASSUME TypeOK, phase = "undo", attempt \in Attempts
  PROVE  /\ Waiting \in ids[attempt] \cap Removables /\ Waiting \in Entities
         /\ UndoneBefore(attempt, pos + 1) = UndoneBefore(attempt, pos) \cup {Waiting}
         /\ ~(pos < Len(Undo(job, ids[attempt]))) =>
              ids[attempt] \cap Removables \subseteq UndoneBefore(attempt, pos + 1)
         /\ Waiting = "budget" /\ "campaign" \in ids[attempt] => "campaign" \in UndoneBefore(attempt, pos)
<1> DEFINE u == Undo(job, ids[attempt])
<1>1. ids[attempt] \in SUBSET Entities /\ job \in Job /\ pos \in 1..Len(u)
  BY DEF TypeOK
<1>2. /\ Holds(u, ids[attempt] \cap Removables)
      /\ \A i \in 1..Len(u) : u[i] = "budget" /\ "campaign" \in ids[attempt] =>
           \E k \in 1..(i - 1) : u[k] = "campaign"
  BY <1>1, UndoIs
<1>3. Waiting = u[pos] /\ UndoneBefore(attempt, pos) = {u[i] : i \in 1..(pos - 1)}
      /\ UndoneBefore(attempt, pos + 1) = {u[i] : i \in 1..((pos + 1) - 1)}
  BY DEF Waiting, UndoneBefore
<1> HIDE DEF u
<1>4. Len(u) \in Nat /\ 1..((pos + 1) - 1) = 1..(pos - 1) \cup {pos}
  BY <1>1, <1>2 DEF Holds
<1>5. Waiting \in ids[attempt] \cap Removables
  BY <1>1, <1>2, <1>3 DEF Holds
<1>6. UndoneBefore(attempt, pos + 1) = UndoneBefore(attempt, pos) \cup {Waiting}
  BY <1>3, <1>4
<1>7. ASSUME ~(pos < Len(u))
      PROVE  ids[attempt] \cap Removables \subseteq UndoneBefore(attempt, pos + 1)
  <2>1. (pos + 1) - 1 = Len(u)
    BY <1>1, <1>4, <1>7
  <2> QED BY <1>2, <1>3, <2>1 DEF Holds
<1>8. Waiting = "budget" /\ "campaign" \in ids[attempt] => "campaign" \in UndoneBefore(attempt, pos)
  BY <1>1, <1>2, <1>3
<1> QED BY <1>1, <1>5, <1>6, <1>7, <1>8 DEF u

\* Of nothing to undo, nothing is known.
LEMMA NothingToUndo ==
  ASSUME TypeOK, NEW a \in Attempts, Undo(job, ids[a]) = <<>>
  PROVE  ids[a] \cap Removables = {}
<1>1. ids[a] \in SUBSET Entities /\ job \in Job
  BY DEF TypeOK
<1>2. Holds(<<>>, ids[a] \cap Removables)
  BY <1>1, UndoIs
<1> QED BY <1>2 DEF Holds

\* What a creation needs.
LEMMA CreatableIs ==
  ASSUME NEW a, NEW s, Creatable(a, s)
  PROVE  /\ s = "group" => "campaign" \in ids[a] /\ On(a, "campaign")
         /\ s = "ad" => "group" \in ids[a] /\ On(a, "group")
<1>1. (s = "group" => "campaign" \in Names(s)) /\ (s = "ad" => "group" \in Names(s))
  BY DEF Names
<1> QED BY <1>1 DEF Creatable

\* For a run that a step is not about, what is behind it stays the same.
LEMMA BehindOthers ==
  ASSUME NEW a \in Attempts, NEW e \in Entities, a # attempt, UNCHANGED <<job, attempt>>,
         result'[a] = result[a], ids'[a] = ids[a]
  PROVE  Behind(a, e)' <=> Behind(a, e)
BY DEF Behind, Removables

\* What a run can return.
LEMMA Results ==
  /\ {NoResult, Success, Error(TRUE), Error(FALSE)}
       \subseteq [status: {"none", "success", "error"}, retryable: BOOLEAN]
  /\ NoResult.status = "none" /\ Success.status = "success"
  /\ \A b \in BOOLEAN : Error(b).status = "error"
BY DEF NoResult, Success, Error

\* A run's result is set.
LEMMA Reported ==
  ASSUME TypeOK, attempt \in Attempts,
         NEW v \in [status: {"none", "success", "error"}, retryable: BOOLEAN],
         result' = [result EXCEPT ![attempt] = v]
  PROVE  /\ result' \in [Attempts -> [status: {"none", "success", "error"}, retryable: BOOLEAN]]
         /\ result'[attempt] = v
         /\ \A a \in Attempts : a # attempt => result'[a] = result[a]
BY DEF TypeOK

-----------------------------------------------------------------------------
(* Steps.                                                                   *)

\* An entity was created and the node goes on, with its id or without.
LEMMA ProceedInv ==
  ASSUME Inv, phase = "create", Creatable(attempt, Waiting), Proceed,
         UNCHANGED <<job, attempt, kept, late>>,
         remote' = remote \cup {Entity(attempt, Waiting)},
         ids' = ids \/ ids' = [ids EXCEPT ![attempt] = @ \cup {Waiting}]
  PROVE  Inv'
<1> DEFINE w == Waiting
<1>1. /\ TypeOK /\ attempt \in Attempts /\ w \in Entities /\ w = Pipeline(job)[pos]
      /\ w \notin StepsBefore(pos) /\ StepsBefore(pos + 1) = StepsBefore(pos) \cup {w}
      /\ w \in OfPlatform
  BY Numbered, WaitingCreate DEF Inv
<1>2. /\ \A i \in DOMAIN Pipeline(job) : i < pos \/ i = pos \/ pos < Len(Pipeline(job))
      /\ Creatable(attempt, w)
      /\ remote' = remote \cup {Entity(attempt, w)}
      /\ ids' = ids \/ ids' = [ids EXCEPT ![attempt] = @ \cup {w}]
  BY <1>1, WaitingCreate
<1> HIDE DEF w
<1>3. /\ ids' \in [Attempts -> SUBSET Entities]
      /\ ids[attempt] \subseteq ids'[attempt] /\ ids'[attempt] \subseteq ids[attempt] \cup {w}
      /\ \A a \in Attempts : a # attempt => ids'[a] = ids[a]
  BY <1>1, <1>2 DEF TypeOK
<1>4. \A a, e : On(a, e)' <=> On(a, e) \/ (a = attempt /\ e = w)
  BY <1>2, EntityIs DEF On
<1>5. /\ ids[attempt] \subseteq StepsBefore(pos) /\ kept[attempt] = {} /\ LateOf(attempt) = {}
      /\ result[attempt] = NoResult /\ \A e \in StepsBefore(pos) : On(attempt, e)
  BY DEF Inv, Building
<1>6. /\ result' \in [Attempts -> [status: {"none", "success", "error"}, retryable: BOOLEAN]]
      /\ \A a \in Attempts : a # attempt => result'[a] = result[a]
      /\ result'[attempt] \in {NoResult, Success}
      /\ \/ phase' = "create" /\ pos' = pos + 1 /\ result'[attempt] = NoResult /\ pos < Len(Pipeline(job))
         \/ phase' = "done" /\ pos' = pos /\ ~(pos < Len(Pipeline(job)))
  <2>1. CASE pos < Len(Pipeline(job))
    BY <1>1, <1>5, <2>1 DEF Proceed, TypeOK
  <2>2. CASE ~(pos < Len(Pipeline(job)))
    <3>1. result' = [result EXCEPT ![attempt] = Success] /\ phase' = "done" /\ pos' = pos
      BY <2>2 DEF Proceed
    <3> QED BY <1>1, <2>2, <3>1, Results, Reported
  <2> QED BY <2>1, <2>2
<1>7. NoResult.status = "none" /\ Success.status = "success"
  BY Results
<1>8. \A a : LateOf(a)' = LateOf(a)
  BY DEF LateOf
<1>9. TypeOK'
  <2>1. Entity(attempt, w) \in [attempt: Attempts, step: Entities]
    BY <1>1 DEF Entity
  <2>2. pos \in 1..Len(Pipeline(job)) /\ Len(Pipeline(job)) \in Nat
    BY <1>1, PipelineIs DEF TypeOK
  <2>3. phase' = "create" => pos' \in 1..Len(Pipeline(job))
    BY <1>6, <2>2
  <2> QED BY <1>1, <1>2, <1>3, <1>6, <2>1, <2>3 DEF TypeOK
<1>10. Fresh'
  <2> SUFFICES ASSUME NEW a \in Attempts, a > attempt PROVE Untouched(a)'
    BY <1>6 DEF Fresh
  <2>1. Untouched(a) /\ a # attempt
    BY <1>1 DEF Inv, Fresh, Attempts
  <2> QED BY <1>3, <1>6, <1>8, <2>1 DEF Untouched, NoResult
<1>11. Building'
  <2> SUFFICES ASSUME phase' = "create"
               PROVE  /\ ids'[attempt] \subseteq StepsBefore(pos)'
                      /\ \A e \in StepsBefore(pos)' : On(attempt, e)'
    BY <1>5, <1>6, <1>8, <1>7 DEF Building, NoResult
  <2>1. StepsBefore(pos)' = StepsBefore(pos + 1)
    BY <1>6 DEF StepsBefore
  <2> QED BY <1>1, <1>3, <1>4, <1>5, <2>1
<1>12. Verdicts'
  BY <1>6 DEF Inv, Verdicts
<1>13. Linked' /\ Own'
  <2>1. Linked'
    BY <1>1, <1>2, <1>3, <1>4, CreatableIs DEF Inv, Linked
  <2>2. Own'
    BY <1>1, <1>3 DEF Inv, Own, OfPlatform
  <2> QED BY <2>1, <2>2
<1>14. Outstanding'
  BY <1>3, <1>5 DEF Inv, Outstanding, LateOf, TypeOK
<1>15. Whole'
  <2> SUFFICES ASSUME NEW a \in Attempts, result'[a].status = "success"
               PROVE  LateOf(a)' = {} /\ \A i \in DOMAIN Pipeline(job) : On(a, Pipeline(job)[i])'
    BY DEF Whole
  <2>1. CASE a # attempt
    BY <1>4, <1>6, <1>8, <2>1 DEF Inv, Whole
  <2>2. CASE a = attempt
    <3>1. ~(pos < Len(Pipeline(job)))
      BY <1>6, <1>7, <2>2
    <3>2. \A i \in DOMAIN Pipeline(job) : i < pos => Pipeline(job)[i] \in StepsBefore(pos)
      <4>1. DOMAIN Pipeline(job) = 1..Len(Pipeline(job)) /\ Len(Pipeline(job)) \in Nat /\ pos \in Nat
        BY <1>1, PipelineIs DEF TypeOK
      <4> QED BY <4>1 DEF StepsBefore
    <3> QED BY <1>1, <1>2, <1>4, <1>5, <1>8, <2>2, <3>1, <3>2
  <2> QED BY <2>1, <2>2
<1>16. \A a \in Attempts, e \in Entities : Behind(a, e)' => a # attempt /\ Behind(a, e)
  <2>1. \A e : ~Behind(attempt, e)'
    BY <1>6, <1>7 DEF Behind
  <2> QED BY <1>3, <1>6, <2>1, BehindOthers
<1>17. Gone'
  BY <1>4, <1>16 DEF Inv, Gone
<1>18. BudgetGone'
  <2>1. "budget" \in Entities
    BY DEF Entities
  <2> QED BY <1>3, <1>4, <1>16, <2>1 DEF Inv, BudgetGone
<1> QED BY <1>9, <1>10, <1>11, <1>12, <1>13, <1>14, <1>15, <1>17, <1>18 DEF Inv

\* A creation failed: the error is kept and the removals begin, or there are none.
LEMMA FailInv ==
  ASSUME Inv, phase = "create", NEW b \in BOOLEAN, Fail(b),
         UNCHANGED <<job, attempt, ids, kept>>,
         \/ remote' = remote
         \/ remote' = remote \cup {Entity(attempt, Waiting)} /\ Creatable(attempt, Waiting),
         \/ late' = late
         \/ late' = late \cup {[kind |-> "create", of |-> Entity(attempt, Waiting)]}
  PROVE  Inv'
<1> DEFINE w == Waiting
           q == [kind |-> "create", of |-> Entity(attempt, w)]
<1>1. /\ TypeOK /\ attempt \in Attempts /\ w \in Entities /\ w \notin StepsBefore(pos)
      /\ remote' = remote \/ (remote' = remote \cup {Entity(attempt, w)} /\ Creatable(attempt, w))
      /\ late' = late \/ late' = late \cup {q}
  BY Numbered, WaitingCreate DEF Inv
<1> HIDE DEF w
<1>2. ids[attempt] \subseteq StepsBefore(pos) /\ w \notin ids[attempt]
  BY <1>1 DEF Inv, Building
<1>3. /\ q.kind = "create" /\ q.of.attempt = attempt /\ q.of.step = w
      /\ Entity(attempt, w) \in [attempt: Attempts, step: Entities]
      /\ q \in [kind: {"create", "remove"}, of: [attempt: Attempts, step: Entities]]
  BY <1>1 DEF Entity
<1> HIDE DEF q
<1>4. \A a, e : On(a, e)' => On(a, e) \/ (a = attempt /\ e = w /\ Creatable(attempt, w))
  BY <1>1, EntityIs DEF On
<1>5. \A a, e : On(a, e) => On(a, e)'
  BY <1>1 DEF On
<1>6. /\ result' \in [Attempts -> [status: {"none", "success", "error"}, retryable: BOOLEAN]]
      /\ result'[attempt].status = "error"
      /\ \A a \in Attempts : a # attempt => result'[a] = result[a]
  <2>1. Error(b) \in [status: {"none", "success", "error"}, retryable: BOOLEAN] /\ Error(b).status = "error"
    BY Results
  <2>2. result' = [result EXCEPT ![attempt] = Error(b)]
    BY DEF Fail
  <2> QED BY <1>1, <2>1, <2>2, Reported
<1>7. /\ pos' = 1
      /\ \/ phase' = "done" /\ Undo(job, ids[attempt]) = <<>>
         \/ phase' = "undo" /\ Undo(job, ids[attempt]) # <<>>
  BY DEF Fail
<1>8. \A a \in Attempts : a # attempt => LateOf(a)' = LateOf(a)
  BY <1>1, <1>3 DEF LateOf
<1>9. TypeOK'
  <2>1. ids[attempt] \in SUBSET Entities
    BY <1>1 DEF TypeOK
  <2>2. Undo(job, ids[attempt]) \in Seq(Entities)
    BY <1>1, <2>1, UndoIs DEF Holds, TypeOK
  <2>3. phase' = "undo" => pos' \in 1..Len(Undo(job, ids[attempt]))
    BY <1>7, <2>2
  <2>4. remote' \subseteq [attempt: Attempts, step: Entities]
    BY <1>1, <1>3 DEF TypeOK
  <2>5. late' \subseteq [kind: {"create", "remove"}, of: [attempt: Attempts, step: Entities]]
    BY <1>1, <1>3 DEF TypeOK
  <2> QED BY <1>1, <1>6, <1>7, <2>3, <2>4, <2>5 DEF TypeOK
<1>10. Fresh'
  <2> SUFFICES ASSUME NEW a \in Attempts, a > attempt PROVE Untouched(a)'
    BY <1>7 DEF Fresh
  <2>1. Untouched(a) /\ a # attempt
    BY <1>1 DEF Inv, Fresh, Attempts
  <2> QED BY <1>6, <1>8, <2>1 DEF Untouched, NoResult
<1>11. Building' /\ Verdicts'
  BY <1>6, <1>7 DEF Inv, Building, Verdicts
<1>12. Linked' /\ Own'
  BY <1>1, <1>4, CreatableIs DEF Inv, Linked, Own, OfPlatform
<1>13. Outstanding'
  BY <1>1, <1>2, <1>3 DEF Inv, Outstanding
<1>14. Whole'
  BY <1>5, <1>6, <1>8 DEF Inv, Whole
<1>15. \A a \in Attempts, e \in Entities : Behind(a, e)' => a # attempt /\ Behind(a, e)
  <2>1. ASSUME NEW e, Behind(attempt, e)' PROVE FALSE
    <3>1. e \in ids[attempt] \cap Removables
      BY <2>1 DEF Behind, Removables
    <3>2. phase' # "done"
      BY <1>1, <1>7, <3>1, NothingToUndo
    <3>3. UndoneBefore(attempt, pos)' = {}
      BY <1>7 DEF UndoneBefore
    <3>4. attempt' = attempt /\ ~(attempt < attempt)
      BY <1>1 DEF Attempts
    <3> QED BY <2>1, <3>2, <3>3, <3>4 DEF Behind
  <2> QED BY <1>6, <2>1, BehindOthers
<1>16. Gone'
  BY <1>4, <1>15 DEF Inv, Gone
<1>17. BudgetGone'
  <2>1. "budget" \in Entities
    BY DEF Entities
  <2> QED BY <1>4, <1>5, <1>15, <2>1 DEF Inv, BudgetGone
<1> QED BY <1>9, <1>10, <1>11, <1>12, <1>13, <1>14, <1>16, <1>17 DEF Inv

\* A removal ended, one way or the other, and the next one begins or the run ends.
LEMMA UndoInv ==
  ASSUME Inv, phase = "undo", ProceedUndo, UNCHANGED <<job, attempt, ids, result>>,
         \/ /\ kept' = kept /\ late' = late
            /\ remote' = IF Removable(attempt, Waiting)
                         THEN remote \ RemovedWith(attempt, Waiting) ELSE remote
         \/ /\ kept' = [kept EXCEPT ![attempt] = @ \cup {Waiting}]
            /\ late' = late \cup {[kind |-> "remove", of |-> Entity(attempt, Waiting)]}
            /\ remote' = remote
  PROVE  Inv'
<1> DEFINE w == Waiting
           q == [kind |-> "remove", of |-> Entity(attempt, w)]
           A == /\ kept' = kept /\ late' = late
                /\ remote' = IF Removable(attempt, w) THEN remote \ RemovedWith(attempt, w) ELSE remote
           B == /\ kept' = [kept EXCEPT ![attempt] = @ \cup {w}] /\ late' = late \cup {q}
                /\ remote' = remote
<1>1. TypeOK /\ attempt \in Attempts
  BY Numbered DEF Inv
<1>2. /\ w \in ids[attempt] \cap Removables /\ w \in Entities
      /\ UndoneBefore(attempt, pos + 1) = UndoneBefore(attempt, pos) \cup {w}
      /\ ~(pos < Len(Undo(job, ids[attempt]))) =>
           ids[attempt] \cap Removables \subseteq UndoneBefore(attempt, pos + 1)
      /\ w = "budget" /\ "campaign" \in ids[attempt] => "campaign" \in UndoneBefore(attempt, pos)
      /\ A \/ B
  BY <1>1, WaitingUndo
<1> HIDE DEF w
<1>3. /\ q.kind = "remove" /\ q.of.attempt = attempt /\ q.of.step = w
      /\ q \in [kind: {"create", "remove"}, of: [attempt: Attempts, step: Entities]]
  BY <1>1, <1>2 DEF Entity
<1> HIDE DEF q
<1>4. result[attempt].status = "error"
  BY DEF Inv, Verdicts
<1>5. \A a, e : On(a, e)' => On(a, e)
  BY <1>2 DEF On
<1>6. \A a, e : a # attempt /\ On(a, e) => On(a, e)'
  BY <1>2, EntityIs DEF On, RemovedWith
<1>7. /\ \A a \in Attempts : kept[a] \subseteq kept'[a] /\ kept'[a] \subseteq Entities
      /\ \A a \in Attempts : a # attempt => kept'[a] = kept[a]
      /\ kept' \in [Attempts -> SUBSET Entities]
      /\ w \notin kept'[attempt] => A
  BY <1>1, <1>2 DEF TypeOK
<1>8. \A a \in Attempts : a # attempt => LateOf(a)' = LateOf(a)
  BY <1>2, <1>3 DEF LateOf
<1>9. \/ phase' = "undo" /\ pos' = pos + 1 /\ pos < Len(Undo(job, ids[attempt]))
      \/ phase' = "done" /\ ~(pos < Len(Undo(job, ids[attempt])))
  BY DEF ProceedUndo
<1>10. TypeOK'
  <2>1. ids[attempt] \in SUBSET Entities /\ pos \in 1..Len(Undo(job, ids[attempt]))
    BY <1>1 DEF TypeOK
  <2>2. Undo(job, ids[attempt]) \in Seq(Entities)
    BY <1>1, <2>1, UndoIs DEF Holds, TypeOK
  <2>3. phase' = "undo" => pos' \in 1..Len(Undo(job, ids[attempt]))
    BY <1>9, <2>1, <2>2
  <2>4. remote' \subseteq [attempt: Attempts, step: Entities]
    BY <1>1, <1>2 DEF TypeOK
  <2>5. late' \subseteq [kind: {"create", "remove"}, of: [attempt: Attempts, step: Entities]]
    BY <1>1, <1>2, <1>3 DEF TypeOK
  <2> QED BY <1>1, <1>7, <1>9, <2>3, <2>4, <2>5 DEF TypeOK
<1>11. Fresh'
  <2> SUFFICES ASSUME NEW a \in Attempts, a > attempt PROVE Untouched(a)'
    BY <1>9 DEF Fresh
  <2>1. Untouched(a) /\ a # attempt
    BY <1>1 DEF Inv, Fresh, Attempts
  <2> QED BY <1>7, <1>8, <2>1 DEF Untouched, NoResult
<1>12. Building' /\ Verdicts'
  BY <1>9 DEF Inv, Building, Verdicts
<1>13. Linked' /\ Own'
  BY <1>5 DEF Inv, Linked, Own, OfPlatform
<1>14. Outstanding'
  BY <1>2, <1>3 DEF Inv, Outstanding
<1>15. Whole'
  BY <1>4, <1>6, <1>8 DEF Inv, Whole
<1>16. \A a \in Attempts, e \in Entities : Behind(a, e)' => Behind(a, e) \/ (a = attempt /\ e = w)
  <2>1. ASSUME NEW e, Behind(attempt, e)', e # w PROVE Behind(attempt, e)
    <3>1. e \in ids[attempt] \cap Removables
      BY <2>1 DEF Behind, Removables
    <3>2. phase' = "undo" => e \in UndoneBefore(attempt, pos + 1)
      BY <1>1, <1>9, <2>1 DEF Behind, UndoneBefore, Attempts
    <3>3. e \in UndoneBefore(attempt, pos + 1)
      BY <1>2, <1>9, <3>1, <3>2
    <3> QED BY <1>2, <1>4, <2>1, <3>1, <3>3 DEF Behind
  <2> QED BY <2>1, BehindOthers
<1>17. Gone'
  <2> SUFFICES ASSUME NEW a \in Attempts, NEW e \in Entities, Behind(a, e)', e \notin kept'[a]
               PROVE  /\ e # "budget" => ~On(a, e)'
                      /\ job.platform = "meta" /\ e = "campaign" => ~On(a, "group")' /\ ~On(a, "ad")'
    BY DEF Gone
  <2>1. CASE Behind(a, e)
    BY <1>5, <1>7, <2>1 DEF Inv, Gone
  <2>2. CASE a = attempt /\ e = w
    <3>1. w # "budget" => remote' = remote \ RemovedWith(attempt, w)
      BY <1>7, <2>2 DEF Removable
    <3>2. /\ Entity(attempt, w) \in RemovedWith(attempt, w)
          /\ job.platform = "meta" /\ w = "campaign" =>
               {Entity(attempt, "group"), Entity(attempt, "ad")} \subseteq RemovedWith(attempt, w)
      BY DEF RemovedWith
    <3> QED BY <2>2, <3>1, <3>2 DEF On
  <2> QED BY <1>16, <2>1, <2>2
<1>18. BudgetGone'
  <2> SUFFICES ASSUME NEW a \in Attempts, Behind(a, "budget")', kept'[a] = {}
               PROVE  ~On(a, "budget")' \/ (On(a, "campaign")' /\ "campaign" \notin ids[a])
    BY DEF BudgetGone
  <2>1. CASE Behind(a, "budget")
    <3>1. ~On(a, "budget") \/ (On(a, "campaign") /\ "campaign" \notin ids[a])
      BY <1>7, <2>1 DEF Inv, BudgetGone
    <3>2. On(a, "campaign") /\ "campaign" \notin ids[a] => On(a, "campaign")'
      BY <1>2, EntityIs DEF On, RemovedWith
    <3> QED BY <1>5, <3>1, <3>2
  <2>2. CASE a = attempt /\ w = "budget"
    <3>1. A
      BY <1>7, <2>2
    <3>2. CASE Removable(attempt, w)
      <4>1. Entity(attempt, "budget") \in RemovedWith(attempt, w)
        BY <2>2 DEF RemovedWith
      <4> QED BY <2>2, <3>1, <3>2, <4>1 DEF On
    <3>3. CASE ~Removable(attempt, w)
      <4>1. On(attempt, "campaign") /\ On(attempt, "campaign")'
        BY <2>2, <3>1, <3>3 DEF Removable, On
      <4>2. "campaign" \in ids[attempt] => Behind(attempt, "campaign")
        BY <1>2, <1>4, <2>2 DEF Behind, Removables
      <4>3. "campaign" \in Entities /\ kept[attempt] = {}
        BY <1>7, <2>2 DEF Entities
      <4> QED BY <2>2, <4>1, <4>2, <4>3 DEF Inv, Gone
    <3> QED BY <3>2, <3>3
  <2>3. "budget" \in Entities
    BY DEF Entities
  <2> QED BY <1>16, <2>1, <2>2, <2>3
<1> QED BY <1>10, <1>11, <1>12, <1>13, <1>14, <1>15, <1>17, <1>18 DEF Inv

\* The host's process ended: the run returned nothing, its request is out.
LEMMA CrashInv ==
  ASSUME Inv, Crash
  PROVE  Inv'
<1>1. TypeOK /\ attempt \in Attempts
  BY Numbered DEF Inv, Crash, Running
<1>2. /\ phase' = "crashed" /\ UNCHANGED <<job, attempt, pos, ids, kept, remote>>
      /\ result' = [result EXCEPT ![attempt] = NoResult]
  BY DEF Crash
<1>3. /\ result' \in [Attempts -> [status: {"none", "success", "error"}, retryable: BOOLEAN]]
      /\ result'[attempt] = NoResult /\ NoResult.status = "none"
      /\ \A a \in Attempts : a # attempt => result'[a] = result[a]
  BY <1>1, <1>2, Results, Reported
<1>4. PICK q \in [kind: {"create", "remove"}, of: [attempt: Attempts, step: Entities]] :
        /\ late' \subseteq late \cup {q} /\ late \subseteq late'
        /\ q.of.attempt = attempt
        /\ late' # late => IF q.kind = "create" THEN q.of.step \notin ids[attempt]
                                                ELSE q.of.step \in ids[attempt]
  <2>1. CASE phase = "secret"
    <3>1. late' = late
      BY <2>1 DEF Crash
    <3> DEFINE any == [kind |-> "create", of |-> [attempt |-> attempt, step |-> "ad"]]
    <3>2. any \in [kind: {"create", "remove"}, of: [attempt: Attempts, step: Entities]] /\ any.of.attempt = attempt
      BY <1>1 DEF Entities
    <3> QED BY <3>1, <3>2
  <2>2. CASE phase = "create"
    <3> DEFINE w == Waiting
               new == [kind |-> "create", of |-> Entity(attempt, w)]
    <3>1. w \in Entities /\ w \notin ids[attempt] /\ late' = late \cup {new}
      BY <1>1, <2>2, WaitingCreate DEF Inv, Building, Crash
    <3> HIDE DEF w
    <3>2. /\ new \in [kind: {"create", "remove"}, of: [attempt: Attempts, step: Entities]]
          /\ new.kind = "create" /\ new.of.attempt = attempt /\ new.of.step = w
      BY <1>1, <3>1 DEF Entity
    <3> HIDE DEF new
    <3> QED BY <3>1, <3>2
  <2>3. CASE phase = "undo"
    <3> DEFINE w == Waiting
               new == [kind |-> "remove", of |-> Entity(attempt, w)]
    <3>1. w \in Entities /\ w \in ids[attempt] /\ late' = late \cup {new}
      BY <1>1, <2>3, WaitingUndo DEF Crash
    <3> HIDE DEF w
    <3>2. /\ new \in [kind: {"create", "remove"}, of: [attempt: Attempts, step: Entities]]
          /\ new.kind = "remove" /\ new.of.attempt = attempt /\ new.of.step = w
      BY <1>1, <3>1 DEF Entity
    <3> HIDE DEF new
    <3> QED BY <3>1, <3>2
  <2> QED BY <2>1, <2>2, <2>3 DEF Crash, Running
<1>5. \A a \in Attempts : a # attempt => LateOf(a)' = LateOf(a)
  BY <1>4 DEF LateOf
<1>6. TypeOK'
  BY <1>1, <1>2, <1>3, <1>4 DEF TypeOK
<1>7. Fresh'
  <2> SUFFICES ASSUME NEW a \in Attempts, a > attempt PROVE Untouched(a)'
    BY <1>2 DEF Fresh
  <2>1. Untouched(a) /\ a # attempt
    BY <1>1 DEF Inv, Fresh, Attempts
  <2> QED BY <1>2, <1>3, <1>5, <2>1 DEF Untouched, NoResult
<1>8. Building' /\ Verdicts'
  BY <1>2, <1>3 DEF Inv, Building, Verdicts, Crash, Running
<1>9. Linked' /\ Own'
  BY <1>2 DEF Inv, Linked, Own, OfPlatform, On
<1>10. Outstanding'
  BY <1>2, <1>4 DEF Inv, Outstanding
<1>11. Whole'
  BY <1>2, <1>3, <1>5 DEF Inv, Whole, On
<1>12. \A a \in Attempts, e \in Entities : Behind(a, e)' => a # attempt /\ Behind(a, e)
  <2>1. \A e : ~Behind(attempt, e)'
    BY <1>2, <1>3 DEF Behind
  <2> QED BY <1>2, <1>3, <2>1, BehindOthers
<1>13. Gone'
  BY <1>2, <1>12 DEF Inv, Gone, On
<1>14. BudgetGone'
  <2>1. "budget" \in Entities
    BY DEF Entities
  <2> QED BY <1>2, <1>12, <2>1 DEF Inv, BudgetGone, On
<1> QED BY <1>6, <1>7, <1>8, <1>9, <1>10, <1>11, <1>13, <1>14 DEF Inv

\* The platform got to a request nobody waits for.
LEMMA ProcessLateInv ==
  ASSUME Inv, NEW q \in late, ProcessLate(q)
  PROVE  Inv'
<1> DEFINE a == q.of.attempt
           s == q.of.step
           C == q.kind = "create" /\ Creatable(a, s) /\ remote' = remote \cup {Entity(a, s)}
           D == q.kind = "remove" /\ remote' = remote \ RemovedWith(a, s)
<1>1. /\ TypeOK /\ a \in Attempts /\ s \in Entities /\ q.of = Entity(a, s)
      /\ IF q.kind = "create" THEN s \notin ids[a] ELSE s \in ids[a]
      /\ q \in LateOf(a)
  BY DEF Inv, TypeOK, Outstanding, LateOf, Entity
<1>2. /\ late' = late \ {q} /\ UNCHANGED <<job, attempt, phase, pos, ids, result, kept>>
      /\ C \/ D \/ remote' = remote
  BY <1>1 DEF ProcessLate
<1> HIDE DEF a, s
<1>3. C => s \notin ids[a]
  BY <1>1
<1>4. D => s \in ids[a]
  BY <1>1
<1>5. \A b, e : On(b, e)' => On(b, e) \/ (C /\ b = a /\ e = s)
  BY <1>2, EntityIs DEF On
<1>6. \A b, e : On(b, e) => On(b, e)' \/ (D /\ b = a /\ (e = s \/ s = "campaign"))
  <2>1. \A b, e : Entity(b, e) \in RemovedWith(a, s) => b = a /\ (e = s \/ s = "campaign")
    BY EntityIs DEF RemovedWith
  <2>2. ASSUME NEW b, NEW e, On(b, e), ~On(b, e)'
        PROVE  D /\ b = a /\ (e = s \/ s = "campaign")
    <3>1. Entity(b, e) \in remote /\ Entity(b, e) \notin remote'
      BY <2>2 DEF On
    <3>2. remote' # remote /\ ~C
      BY <3>1
    <3>3. D
      BY <1>2, <3>2
    <3>4. Entity(b, e) \in RemovedWith(a, s)
      BY <3>1, <3>3
    <3> QED BY <2>1, <3>3, <3>4
  <2> QED BY <2>2
<1>7. \A b : LateOf(b)' \subseteq LateOf(b)
  BY <1>2 DEF LateOf
<1>8. TypeOK'
  <2>1. Entity(a, s) \in [attempt: Attempts, step: Entities]
    BY <1>1 DEF Entity
  <2>2. remote' \subseteq [attempt: Attempts, step: Entities]
    BY <1>1, <1>2, <2>1 DEF TypeOK
  <2> QED BY <1>1, <1>2, <2>2 DEF TypeOK
<1>9. Fresh' /\ Verdicts'
  BY <1>2, <1>7 DEF Inv, Fresh, Untouched, NoResult, Verdicts
<1>10. Building'
  <2> SUFFICES ASSUME phase = "create" PROVE Building'
    BY <1>2 DEF Building
  <2>1. LateOf(attempt) = {} /\ a # attempt
    BY <1>1 DEF Inv, Building
  <2>2. StepsBefore(pos)' = StepsBefore(pos)
    BY <1>2 DEF StepsBefore
  <2>3. \A e \in StepsBefore(pos) : On(attempt, e)'
    BY <1>2, <1>6, <2>1 DEF Inv, Building
  <2>4. LateOf(attempt)' = {}
    BY <1>2, <1>7, <2>1
  <2> QED BY <1>2, <2>2, <2>3, <2>4 DEF Inv, Building, NoResult
<1>11. Linked' /\ Own'
  <2>1. C => /\ s = "group" => "campaign" \in ids[a]
             /\ s = "ad" => "group" \in ids[a]
    BY CreatableIs
  <2>2. Own'
    BY <1>2 DEF Inv, Own, OfPlatform
  <2> QED BY <1>2, <1>5, <2>1, <2>2 DEF Inv, Linked
<1>12. Outstanding'
  BY <1>2 DEF Inv, Outstanding
<1>13. Whole'
  <2> SUFFICES ASSUME NEW b \in Attempts, result[b].status = "success"
               PROVE  LateOf(b)' = {} /\ \A i \in DOMAIN Pipeline(job) : On(b, Pipeline(job)[i])'
    BY <1>2 DEF Whole
  <2>1. LateOf(b) = {} /\ b # a
    BY <1>1 DEF Inv, Whole
  <2>2. \A e : On(b, e) => On(b, e)'
    BY <1>6, <2>1
  <2>3. \A i \in DOMAIN Pipeline(job) : On(b, Pipeline(job)[i])
    BY DEF Inv, Whole
  <2>4. Pipeline(job)' = Pipeline(job)
    BY <1>2
  <2> QED BY <1>7, <2>1, <2>2, <2>3, <2>4
<1>14. \A b \in Attempts, e \in Entities : Behind(b, e)' <=> Behind(b, e)
  BY <1>2 DEF Behind, UndoneBefore, Removables
<1>15. \A b, e : Behind(b, e) => e \in ids[b]
  BY DEF Behind
<1>16. Gone'
  <2> SUFFICES ASSUME NEW b \in Attempts, NEW e \in Entities, Behind(b, e), e \notin kept[b]
               PROVE  /\ e # "budget" => ~On(b, e)'
                      /\ job.platform = "meta" /\ e = "campaign" => ~On(b, "group")' /\ ~On(b, "ad")'
    BY <1>2, <1>14 DEF Gone
  <2>1. /\ e # "budget" => ~On(b, e)
        /\ job.platform = "meta" /\ e = "campaign" => ~On(b, "group") /\ ~On(b, "ad")
    BY DEF Inv, Gone
  <2>2. e # "budget" => ~On(b, e)'
    BY <1>3, <1>5, <1>15, <2>1
  <2>3. C => /\ s = "group" => On(a, "campaign")
             /\ s = "ad" => On(a, "group")
    BY CreatableIs
  <2>4. job.platform = "meta" /\ e = "campaign" => ~On(b, "group")' /\ ~On(b, "ad")'
    BY <1>5, <2>1, <2>3
  <2> QED BY <2>2, <2>4
<1>17. BudgetGone'
  <2> SUFFICES ASSUME NEW b \in Attempts, Behind(b, "budget"), kept[b] = {}
               PROVE  ~On(b, "budget")' \/ (On(b, "campaign")' /\ "campaign" \notin ids[b])
    BY <1>2, <1>14 DEF BudgetGone, Entities
  <2>1. ~On(b, "budget") \/ (On(b, "campaign") /\ "campaign" \notin ids[b])
    BY DEF Inv, BudgetGone
  <2> QED BY <1>3, <1>4, <1>5, <1>6, <1>15, <2>1
<1> QED BY <1>8, <1>9, <1>10, <1>11, <1>12, <1>13, <1>16, <1>17 DEF Inv

\* The host runs the node.
LEMMA DispatchInv ==
  ASSUME Inv, Dispatch
  PROVE  Inv'
<1> DEFINE n == attempt + 1
<1>1. /\ TypeOK /\ attempt \in Nat /\ n \in Attempts /\ attempt' = n /\ n > attempt
      /\ pos' = 1 /\ UNCHANGED <<job, ids, kept, late, remote>>
  BY AttemptsAssumption DEF Inv, TypeOK, Dispatch, Attempts
<1>2. Untouched(n)
  BY <1>1 DEF Inv, Fresh
<1>3. \/ phase' = "secret" /\ result' = result
      \/ phase' = "done" /\ result' = [result EXCEPT ![n] = Error(FALSE)]
  BY <1>1 DEF Dispatch
<1> HIDE DEF n
<1>4. /\ result' \in [Attempts -> [status: {"none", "success", "error"}, retryable: BOOLEAN]]
      /\ \A a \in Attempts : a # n => result'[a] = result[a]
      /\ result'[n] = NoResult \/ result'[n] = Error(FALSE)
      /\ phase' = "secret" => result'[n] = NoResult
  BY <1>1, <1>2, <1>3, Results DEF TypeOK, Untouched
<1>5. \A a : LateOf(a)' = LateOf(a)
  BY <1>1 DEF LateOf
<1>6. TypeOK'
  <2>1. 1 \in 1..Secrets(job) /\ attempt' \in 0..MaxAttempts
    BY <1>1, AttemptsAssumption DEF Secrets, Attempts
  <2> QED BY <1>1, <1>3, <1>4, <2>1 DEF TypeOK
<1>7. \A a \in Attempts : a > n => a > attempt /\ a # n
  BY <1>1 DEF Attempts
<1>8. Fresh'
  <2> SUFFICES ASSUME NEW a \in Attempts, a > n \/ (a = n /\ phase' = "secret") PROVE Untouched(a)'
    BY <1>1 DEF Fresh
  <2>1. Untouched(a)
    BY <1>2, <1>7 DEF Inv, Fresh
  <2> QED BY <1>1, <1>4, <1>5, <1>7, <2>1 DEF Untouched, NoResult
<1>9. Building' /\ Verdicts'
  <2>1. attempt' # 0
    BY <1>1, AttemptsAssumption DEF Attempts
  <2>2. phase' \in {"secret", "done"}
    BY <1>3
  <2> QED BY <2>1, <2>2 DEF Building, Verdicts
<1>10. Linked' /\ Own' /\ Outstanding'
  BY <1>1 DEF Inv, Linked, Own, OfPlatform, Outstanding, On
<1>11. Whole'
  <2>1. result'[n].status # "success"
    BY <1>4, Results
  <2> QED BY <1>1, <1>4, <1>5, <2>1 DEF Inv, Whole, On
<1>12. \A a \in Attempts, e \in Entities : Behind(a, e)' => Behind(a, e)
  <2> SUFFICES ASSUME NEW a \in Attempts, NEW e \in Entities, Behind(a, e)' PROVE Behind(a, e)
    OBVIOUS
  <2>1. e \in ids[a] /\ a # n
    BY <1>1, <1>2 DEF Behind, Untouched
  <2>2. result[a].status = "error" /\ e \in ids[a] \cap Removables /\ a < n
    BY <1>1, <1>4, <2>1 DEF Behind, Removables
  <2>3. a < attempt \/ a = attempt
    BY <1>1, <2>2 DEF n, Attempts
  <2>4. a = attempt => phase = "done"
    BY <2>2, Results DEF Dispatch, Inv, Verdicts, Attempts
  <2> QED BY <2>2, <2>3, <2>4 DEF Behind
<1>13. Gone'
  BY <1>1, <1>12 DEF Inv, Gone, On
<1>14. BudgetGone'
  BY <1>1, <1>12 DEF Inv, BudgetGone, On, Entities
<1> QED BY <1>6, <1>8, <1>9, <1>10, <1>11, <1>13, <1>14 DEF Inv

\* A secret was resolved, or was not.
LEMMA SecretInv ==
  ASSUME Inv, ResolveSecret \/ SecretFails
  PROVE  Inv'
<1>1. /\ TypeOK /\ attempt \in Attempts /\ phase = "secret" /\ Untouched(attempt)
      /\ UNCHANGED <<job, attempt, ids, kept, late, remote>>
  BY Numbered DEF Inv, Fresh, ResolveSecret, SecretFails
<1>2. /\ \/ phase' \in {"secret", "create"} /\ result' = result
         \/ phase' = "done" /\ \E b \in BOOLEAN : result' = [result EXCEPT ![attempt] = Error(b)]
      /\ phase' = "secret" => pos' \in 1..Secrets(job)
      /\ phase' = "create" => pos' = 1
  BY <1>1 DEF ResolveSecret, SecretFails, Secrets, TypeOK
<1>3. /\ result' \in [Attempts -> [status: {"none", "success", "error"}, retryable: BOOLEAN]]
      /\ \A a \in Attempts : a # attempt => result'[a] = result[a]
      /\ phase' # "done" => result'[attempt] = NoResult
      /\ result'[attempt].status # "success"
  <2>1. CASE result' = result
    BY <1>1, <1>2, <2>1, Results DEF Untouched, TypeOK
  <2>2. CASE phase' = "done"
    <3>1. PICK b \in BOOLEAN : result' = [result EXCEPT ![attempt] = Error(b)]
      BY <1>2, <2>2
    <3>2. Error(b) \in [status: {"none", "success", "error"}, retryable: BOOLEAN] /\ Error(b).status = "error"
      BY Results
    <3> QED BY <1>1, <2>2, <3>1, <3>2, Reported
  <2> QED BY <1>2, <2>1, <2>2
<1>4. \A a : LateOf(a)' = LateOf(a)
  BY <1>1 DEF LateOf
<1>5. TypeOK'
  <2>1. 1 \in 1..Len(Pipeline(job))
    BY <1>1, PipelineIs DEF TypeOK
  <2> QED BY <1>1, <1>2, <1>3, <2>1 DEF TypeOK
<1>6. Fresh'
  <2> SUFFICES ASSUME NEW a \in Attempts, a > attempt \/ (a = attempt /\ phase' = "secret") PROVE Untouched(a)'
    BY <1>1 DEF Fresh
  <2>1. Untouched(a) /\ (a > attempt => a # attempt)
    BY <1>1 DEF Inv, Fresh, Attempts
  <2> QED BY <1>1, <1>3, <1>4, <2>1 DEF Untouched, NoResult
<1>7. Building'
  <2>1. phase' = "create" => StepsBefore(pos)' = {}
    BY <1>2 DEF StepsBefore
  <2> QED BY <1>1, <1>3, <1>4, <2>1 DEF Building, Untouched, NoResult
<1>8. Verdicts'
  BY <1>1, <1>2 DEF Verdicts, Attempts
<1>9. Linked' /\ Own' /\ Outstanding'
  BY <1>1 DEF Inv, Linked, Own, OfPlatform, Outstanding, On
<1>10. Whole'
  BY <1>1, <1>3, <1>4 DEF Inv, Whole, On
<1>11. \A a \in Attempts, e \in Entities : Behind(a, e)' => Behind(a, e)
  <2>1. \A e : ~Behind(attempt, e)'
    BY <1>1 DEF Behind, Untouched
  <2> QED BY <1>1, <1>3, <2>1, BehindOthers
<1>12. Gone'
  BY <1>1, <1>11 DEF Inv, Gone, On
<1>13. BudgetGone'
  BY <1>1, <1>11 DEF Inv, BudgetGone, On, Entities
<1> QED BY <1>5, <1>6, <1>7, <1>8, <1>9, <1>10, <1>12, <1>13 DEF Inv

-----------------------------------------------------------------------------
(* The invariant.                                                           *)

LEMMA InitInv == Init => Inv
<1> SUFFICES ASSUME Init PROVE Inv
  OBVIOUS
<1>1. TypeOK
  BY AttemptsAssumption, Results DEF Init, TypeOK, NoResult
<1>2. Fresh /\ Building /\ Verdicts
  BY DEF Init, Fresh, Untouched, LateOf, Building, Verdicts
<1>3. Linked /\ Own /\ Outstanding
  BY DEF Init, Linked, Own, Outstanding, On
<1>4. \A a \in Attempts : result[a].status = "none"
  BY Results DEF Init
<1>5. Whole /\ Gone /\ BudgetGone
  BY <1>4 DEF Whole, Gone, BudgetGone, Behind
<1> QED BY <1>1, <1>2, <1>3, <1>5 DEF Inv

LEMMA StepInv == Inv /\ [Next]_vars => Inv'
<1> SUFFICES ASSUME Inv, [Next]_vars PROVE Inv'
  OBVIOUS
<1>1. CASE Dispatch
  BY <1>1, DispatchInv
<1>2. CASE ResolveSecret \/ SecretFails
  BY <1>2, SecretInv
<1>3. CASE Created
  BY <1>3, ProceedInv DEF Created
<1>4. CASE CreatedWithoutId
  BY <1>4, ProceedInv DEF CreatedWithoutId
<1>5. CASE CreateFails
  <2>1. PICK b \in BOOLEAN, made \in BOOLEAN :
          /\ made => b /\ Creatable(attempt, Waiting)
          /\ remote' = IF made THEN remote \cup {Entity(attempt, Waiting)} ELSE remote
          /\ Fail(b)
    BY <1>5 DEF CreateFails
  <2> QED BY <1>5, <2>1, FailInv DEF CreateFails
<1>6. CASE CreateLost
  BY <1>6, FailInv DEF CreateLost
<1>7. CASE Removed
  BY <1>7, UndoInv DEF Removed
<1>8. CASE RemoveFails
  BY <1>8, UndoInv DEF RemoveFails
<1>9. CASE Crash
  BY <1>9, CrashInv
<1>10. CASE \E q \in late : ProcessLate(q)
  BY <1>10, ProcessLateInv
<1>11. CASE UNCHANGED vars
  BY <1>11 DEF vars, Inv, TypeOK, Fresh, Untouched, LateOf, Building, StepsBefore, On, Verdicts, Linked, Own, OfPlatform,
               Outstanding, Whole, Gone, BudgetGone, Behind, UndoneBefore, Removables
<1> QED
  BY <1>1, <1>2, <1>3, <1>4, <1>5, <1>6, <1>7, <1>8, <1>9, <1>10, <1>11 DEF Next, Settle

LEMMA Invariant == Spec => []Inv
BY InitInv, StepInv, PTL DEF Spec

-----------------------------------------------------------------------------
(* Theorems.                                                                *)

\* Every part of the state keeps its type, the positions their lists.
THEOREM PublishTypeCorrect == Spec => []TypeOK
<1>1. Inv => TypeOK
  BY DEF Inv
<1> QED BY <1>1, Invariant, PTL

\* In the catch blocks of adsPublishMeta and adsPublishGoogle: a rollback in which no
\* removal failed leaves nothing of what the node was told of.
THEOREM RollbackIsComplete == Spec => []RollbackComplete
<1>1. Inv => RollbackComplete
  <2> SUFFICES ASSUME Inv, NEW a \in Attempts, Ended(a), result[a].status = "error", RollsBack,
                      kept[a] = {}, Left(a) \subseteq ids[a], NEW e \in Entities, On(a, e)
               PROVE  FALSE
    BY DEF RollbackComplete, Left
  <2>1. \A s \in Entities : On(a, s) => s \in ids[a]
    BY DEF Left
  <2>2. \A s \in ids[a] \cap Removables : Behind(a, s)
    BY DEF Ended, Behind
  <2>3. \A s \in ids[a] \cap Removables : s \in Entities /\ s \notin kept[a]
    BY DEF Inv, TypeOK
  <2>4. \A s \in ids[a] \cap Removables : s # "budget" => ~On(a, s)
    BY <2>2, <2>3 DEF Inv, Gone
  <2>5. {"campaign", "group", "budget"} \subseteq Entities
    BY DEF Entities
  <2>6. CASE job.platform = "meta"
    <3>1. "campaign" \in Removables /\ "creative" \in Removables
      BY <2>6 DEF Removables
    <3>2. ~On(a, "campaign") /\ ~On(a, "creative")
      BY <2>1, <2>4, <3>1 DEF Entities
    <3>3. On(a, "group") \/ On(a, "ad") => "campaign" \in ids[a]
      BY DEF Inv, Linked
    <3>4. ~On(a, "group") /\ ~On(a, "ad")
      BY <2>2, <2>3, <2>6, <3>1, <3>3 DEF Inv, Gone
    <3>5. ids[a] \subseteq {"creative", "campaign", "group", "ad"}
      BY <2>6 DEF Inv, Own, OfPlatform, First
    <3> QED BY <2>1, <3>2, <3>4, <3>5
  <2>7. CASE job.platform = "google"
    <3>1. Removables = {"ad", "group", "campaign", "budget"}
      BY <2>7 DEF Removables
    <3>2. ~On(a, "ad") /\ ~On(a, "group") /\ ~On(a, "campaign")
      BY <2>1, <2>4, <3>1 DEF Entities
    <3>3. ~On(a, "budget")
      BY <2>1, <2>2, <2>5, <3>1, <3>2 DEF Inv, BudgetGone
    <3>4. ids[a] \subseteq {"budget", "campaign", "group", "ad"}
      BY <2>7 DEF Inv, Own, OfPlatform, First
    <3> QED BY <2>1, <3>2, <3>3, <3>4
  <2> QED BY <2>6, <2>7 DEF RollsBack
<1> QED BY <1>1, Invariant, PTL

\* A publish that failed does not deliver later on, whatever the platform still gets to.
THEOREM FailedNeverDelivers == Spec => []FailedPublishNeverDelivers
<1>1. Inv => FailedPublishNeverDelivers
  <2> SUFFICES ASSUME Inv, NEW a \in Attempts, Ended(a), result[a].status = "error", RollsBack,
                      "campaign" \notin kept[a], Delivers(a)
               PROVE  FALSE
    BY DEF FailedPublishNeverDelivers
  <2>1. On(a, "campaign") /\ On(a, "group") /\ "campaign" \in Entities
    BY DEF Delivers, Left, Entities
  <2>2. "campaign" \in ids[a]
    BY <2>1 DEF Inv, Linked
  <2>3. "campaign" \in Removables
    BY DEF RollsBack, Removables
  <2>4. Behind(a, "campaign")
    BY <2>2, <2>3 DEF Ended, Behind
  <2> QED BY <2>1, <2>4 DEF Inv, Gone
<1> QED BY <1>1, Invariant, PTL

\* A publish that succeeded stays whole.
THEOREM SuccessStaysWhole == Spec => []SuccessIsWhole
<1>1. Inv => SuccessIsWhole
  BY DEF Inv, Whole, SuccessIsWhole
<1> QED BY <1>1, Invariant, PTL
=============================================================================
