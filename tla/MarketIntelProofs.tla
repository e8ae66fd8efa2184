------------------------- MODULE MarketIntelProofs -------------------------
(***************************************************************************)
(* Proofs about the market intelligence nodes, for any inputs and any       *)
(* replies of a model that hold lists where something is given for a list   *)
(* and numbers where something is given for a score (RepliesAssumption).    *)
(*   RunInv: a second call follows a reply without JSON only, and the       *)
(*   result is what the answers come to.  So the outputs are those of the   *)
(*   last reply, and each property is a lemma about one node's validator.   *)
(*   Summaries: the classes of a list part it, so their counts add up, and  *)
(*   sorting by a number rearranges a list (ListsProofs).                   *)
(***************************************************************************)
EXTENDS MarketIntel, ListsProofs

\* What a reply has for a list is a sequence.
LEMMA ListsAreSequences ==
  ASSUME NEW x, IsList(x)
  PROVE  AsList(x) \in Seq(Range(AsList(x)))
<1>1. <<>> \in Seq(Range(<<>>))
  BY EmptySeq
<1> QED BY <1>1 DEF IsList, AsList

-----------------------------------------------------------------------------
(* A run of a node. *)

\* A second call is made after a reply without JSON only, and the result is what
\* the answers come to.
RunInv ==
  /\ node \in Nodes
  /\ answers \in Seq(Replies(node) \cup {Prose, Thrown})
  /\ answers = <<>> \/ Len(answers) = 1 \/ (Len(answers) = 2 /\ answers[1] = Prose)
  /\ result = Outcome(node, in, answers)

\* A node that asks has no answer yet, or a reply without JSON.
LEMMA AskingIs ==
  ASSUME RunInv, result.status = "asking"
  PROVE  answers = <<>> \/ (Len(answers) = 1 /\ answers[1] = Prose)
<1>1. CASE node = "ai-discovery"
  BY <1>1 DEF RunInv, Outcome, AiDiscovery, Asked, Refused, Success, Error, MayRepair
<1>2. CASE node = "content-extraction"
  BY <1>2 DEF RunInv, Outcome, ContentExtraction, Asked, Refused, Success, Error, MayRepair
<1>3. CASE node = "voc-extraction"
  BY <1>3 DEF RunInv, Outcome, VocExtraction, Asked, Refused, Success, Error, MayRepair
<1>4. CASE node = "community-rank"
  BY <1>4 DEF RunInv, Outcome, CommunityRank, Asked, Refused, Success, Error, MayRepair
<1>5. CASE node = "query-builder"
  BY <1>5 DEF RunInv, Outcome, QueryBuilder, Asked, Refused, Success, Error, MayRepair
<1>6. CASE node = "thread-triage"
  BY <1>6 DEF RunInv, Outcome, ThreadTriage, Asked, Refused, Success, Error, MayRepair
<1>7. CASE node = "opportunity-scoring"
  BY <1>7 DEF RunInv, Outcome, OpportunityScoring, Asked, Refused, Success, Error, MayRepair
<1>8. CASE node = "ad-angles"
  BY <1>8 DEF RunInv, Outcome, AdAngles, Asked, Refused, Success, Error, MayRepair
<1>9. CASE node = "audience-targeting"
  BY <1>9 DEF RunInv, Outcome, AudienceTargeting, Asked, Refused, Success, Error, MayRepair
<1> QED BY <1>1, <1>2, <1>3, <1>4, <1>5, <1>6, <1>7, <1>8, <1>9 DEF RunInv, Nodes

\* What a node has come to in the end is made of its last reply.
LEMMA DoneIsValidated ==
  ASSUME RunInv, Done
  PROVE  /\ Raw \in Replies(node)
         /\ node = "ai-discovery" => Out = ValidateDiscovery(Raw)
         /\ node = "content-extraction" => Out = ValidateExtraction(Raw, in)
         /\ node = "voc-extraction" => Out = ValidateVoc(Raw)
         /\ node = "community-rank" => Out = ValidateRanking(Raw, in.candidates)
         /\ node = "query-builder" => Out = ValidateQueries(Raw)
         /\ node = "thread-triage" => Out = ValidateTriage(Raw)
         /\ node = "opportunity-scoring" => Out = ValidateOpportunities(Raw)
         /\ node = "ad-angles" => Out = ValidateBriefs(Raw)
         /\ node = "audience-targeting" => Out = ValidateTargeting(Raw)
<1> DEFINE last == answers[Len(answers)]
<1>0. Len(answers) = 1 \/ (Len(answers) = 2 /\ answers[1] = Prose) \/ answers = <<>>
  BY DEF RunInv
<1>1. CASE node = "ai-discovery"
  <2>1. result = AiDiscovery(in, answers)
    BY <1>1 DEF RunInv, Outcome
  <2>2. answers # <<>> /\ last \notin {Prose, Thrown} /\ result = Success(ValidateDiscovery(last))
    BY <1>0, <2>1 DEF Done, AiDiscovery, Asked, Refused, Asking, Success, Error, MayRepair
  <2>3. last \in Replies(node)
    BY <1>0, <2>2 DEF RunInv
  <2> QED BY <1>1, <2>2, <2>3 DEF Raw, Out, Success
<1>2. CASE node = "content-extraction"
  <2>1. result = ContentExtraction(in, answers)
    BY <1>2 DEF RunInv, Outcome
  <2>2. answers # <<>> /\ last \notin {Prose, Thrown} /\ result = Success(ValidateExtraction(last, in))
    BY <1>0, <2>1 DEF Done, ContentExtraction, Asked, Refused, Asking, Success, Error, MayRepair
  <2>3. last \in Replies(node)
    BY <1>0, <2>2 DEF RunInv
  <2> QED BY <1>2, <2>2, <2>3 DEF Raw, Out, Success
<1>3. CASE node = "voc-extraction"
  <2>1. result = VocExtraction(in, answers)
    BY <1>3 DEF RunInv, Outcome
  <2>2. answers # <<>> /\ last \notin {Prose, Thrown} /\ result = Success(ValidateVoc(last))
    BY <1>0, <2>1 DEF Done, VocExtraction, Asked, Refused, Asking, Success, Error, MayRepair
  <2>3. last \in Replies(node)
    BY <1>0, <2>2 DEF RunInv
  <2> QED BY <1>3, <2>2, <2>3 DEF Raw, Out, Success
<1>4. CASE node = "community-rank"
  <2>1. result = CommunityRank(in, answers)
    BY <1>4 DEF RunInv, Outcome
  <2>2. answers # <<>> /\ last \notin {Prose, Thrown} /\ result = Success(ValidateRanking(last, in.candidates))
    BY <1>0, <2>1 DEF Done, CommunityRank, Asked, Refused, Asking, Success, Error, MayRepair
  <2>3. last \in Replies(node)
    BY <1>0, <2>2 DEF RunInv
  <2> QED BY <1>4, <2>2, <2>3 DEF Raw, Out, Success
<1>5. CASE node = "query-builder"
  <2>1. result = QueryBuilder(in, answers)
    BY <1>5 DEF RunInv, Outcome
  <2>2. answers # <<>> /\ last \notin {Prose, Thrown} /\ result = Success(ValidateQueries(last))
    BY <1>0, <2>1 DEF Done, QueryBuilder, Asked, Refused, Asking, Success, Error, MayRepair
  <2>3. last \in Replies(node)
    BY <1>0, <2>2 DEF RunInv
  <2> QED BY <1>5, <2>2, <2>3 DEF Raw, Out, Success
<1>6. CASE node = "thread-triage"
  <2>1. result = ThreadTriage(in, answers)
    BY <1>6 DEF RunInv, Outcome
  <2>2. answers # <<>> /\ last \notin {Prose, Thrown} /\ result = Success(ValidateTriage(last))
    BY <1>0, <2>1 DEF Done, ThreadTriage, Asked, Refused, Asking, Success, Error, MayRepair
  <2>3. last \in Replies(node)
    BY <1>0, <2>2 DEF RunInv
  <2> QED BY <1>6, <2>2, <2>3 DEF Raw, Out, Success
<1>7. CASE node = "opportunity-scoring"
  <2>1. result = OpportunityScoring(in, answers)
    BY <1>7 DEF RunInv, Outcome
  <2>2. answers # <<>> /\ last \notin {Prose, Thrown} /\ result = Success(ValidateOpportunities(last))
    BY <1>0, <2>1 DEF Done, OpportunityScoring, Asked, Refused, Asking, Success, Error, MayRepair
  <2>3. last \in Replies(node)
    BY <1>0, <2>2 DEF RunInv
  <2> QED BY <1>7, <2>2, <2>3 DEF Raw, Out, Success
<1>8. CASE node = "ad-angles"
  <2>1. result = AdAngles(in, answers)
    BY <1>8 DEF RunInv, Outcome
  <2>2. answers # <<>> /\ last \notin {Prose, Thrown} /\ result = Success(ValidateBriefs(last))
    BY <1>0, <2>1 DEF Done, AdAngles, Asked, Refused, Asking, Success, Error, MayRepair
  <2>3. last \in Replies(node)
    BY <1>0, <2>2 DEF RunInv
  <2> QED BY <1>8, <2>2, <2>3 DEF Raw, Out, Success
<1>9. CASE node = "audience-targeting"
  <2>1. result = AudienceTargeting(in, answers)
    BY <1>9 DEF RunInv, Outcome
  <2>2. answers # <<>> /\ last \notin {Prose, Thrown} /\ result = Success(ValidateTargeting(last))
    BY <1>0, <2>1 DEF Done, AudienceTargeting, Asked, Refused, Asking, Success, Error, MayRepair
  <2>3. last \in Replies(node)
    BY <1>0, <2>2 DEF RunInv
  <2> QED BY <1>9, <2>2, <2>3 DEF Raw, Out, Success
<1> QED BY <1>1, <1>2, <1>3, <1>4, <1>5, <1>6, <1>7, <1>8, <1>9 DEF RunInv, Nodes

LEMMA RunInductive ==
  /\ Init => RunInv
  /\ RunInv /\ [Next]_vars => RunInv'
<1>1. ASSUME Init PROVE RunInv
  <2>1. answers \in Seq(Replies(node) \cup {Prose, Thrown})
    BY <1>1, EmptySeq DEF Init
  <2> QED BY <1>1, <2>1 DEF Init, RunInv
<1>2. ASSUME RunInv, NEW a \in Replies(node) \cup {Prose, Thrown}, Answered(a)
      PROVE  RunInv'
  <2>1. node' = node /\ in' = in /\ answers' = Append(answers, a) /\ result' = Outcome(node, in, answers')
    BY <1>2 DEF Answered
  <2>2. answers = <<>> \/ (Len(answers) = 1 /\ answers[1] = Prose)
    BY <1>2, AskingIs DEF Answered
  <2>3. answers \in Seq(Replies(node) \cup {Prose, Thrown})
    BY <1>2 DEF RunInv
  <2>4. /\ answers' \in Seq(Replies(node) \cup {Prose, Thrown})
        /\ Len(answers') = 1 \/ (Len(answers') = 2 /\ answers'[1] = Prose)
    BY <2>1, <2>2, <2>3
  <2> QED BY <1>2, <2>1, <2>4 DEF RunInv
<1>3. ASSUME RunInv, UNCHANGED vars PROVE RunInv'
  BY <1>3 DEF RunInv, vars
<1>4. ASSUME RunInv, Next PROVE RunInv'
  BY <1>2, <1>4 DEF Next, Parsed, Unparseable, CallThrows
<1> QED BY <1>1, <1>3, <1>4

\* What a run comes to is made of what it was asked and answered.
THEOREM RunInvariant == Spec => []RunInv
<1>1. Init => RunInv
  BY RunInductive
<1>2. RunInv /\ [Next]_vars => RunInv'
  BY RunInductive
<1> QED BY <1>1, <1>2, PTL DEF Spec

-----------------------------------------------------------------------------
(* What the summaries count. *)

SumOver(f) == Total(SetToSeq(DOMAIN f), LAMBDA v : f[v])

LEMMA ClassesAreFinite == IsFiniteSet(TagTypes) /\ IsFiniteSet(IntentStages)
<1> DEFINE T1 == {"pain"}
           T3 == {"pain", "desire", "objection"}
           T5 == {"pain", "desire", "objection", "trigger", "proof_request"}
           I1 == {"ready_now"}
           I3 == {"ready_now", "researching", "problem_aware"}
<1>1. IsFiniteSet(T1) /\ IsFiniteSet(I1)
  BY FS_Singleton
<1>2. /\ \A z : z \in T3 <=> z \in T1 \/ z = "desire" \/ z = "objection"
      /\ \A z : z \in T5 <=> z \in T3 \/ z = "trigger" \/ z = "proof_request"
      /\ \A z : z \in TagTypes <=> z \in T5 \/ z = "alternative" \/ z = "alternative"
  BY DEF TagTypes
<1>3. /\ \A z : z \in I3 <=> z \in I1 \/ z = "researching" \/ z = "problem_aware"
      /\ \A z : z \in IntentStages <=> z \in I3 \/ z = "unaware" \/ z = "unaware"
  BY DEF IntentStages
<1> HIDE DEF T1, T3, T5, I1, I3
<1>4. IsFiniteSet(T3)
  BY <1>1, <1>2, FiniteByTwo
<1>5. IsFiniteSet(T5)
  BY <1>2, <1>4, FiniteByTwo
<1>6. IsFiniteSet(I3)
  BY <1>1, <1>3, FiniteByTwo
<1>7. IsFiniteSet(TagTypes)
  BY <1>2, <1>5, FiniteByTwo
<1>8. IsFiniteSet(IntentStages)
  BY <1>3, <1>6, FiniteByTwo
<1> QED BY <1>7, <1>8

\* counts has, for each class of V, how many elements of s are of it.
IsCount(counts, s, V, of) == counts = [v \in V |-> Len(KeptAt(s, {i \in DOMAIN s : of[i] = v}))]

\* They add up to how many elements there are.
LEMMA ClassesAddUp ==
  ASSUME NEW T, NEW s \in Seq(T), NEW V, IsFiniteSet(V), NEW of, \A i \in DOMAIN s : of[i] \in V,
         NEW counts, IsCount(counts, s, V, of)
  PROVE  SumOver(counts) = Len(s)
<1> DEFINE q == SetToSeq(V)
           n == Cardinality(V)
           w == [k \in 1..n |-> counts[q[k]]]
           at == [k \in 1..n |-> {i \in DOMAIN s : of[i] = q[k]}]
<1>1. /\ n \in Nat /\ q \in [1..n -> V]
      /\ \A k, l \in DOMAIN q : q[k] = q[l] => k = l
      /\ \A v \in V : \E k \in DOMAIN q : q[k] = v
  BY SetAsSequence
<1>2. SumOver(counts) = SumOf(w)
  <2>1. DOMAIN counts = V /\ DOMAIN q = 1..n
    BY <1>1 DEF IsCount
  <2> HIDE DEF n
  <2> QED BY <2>1 DEF SumOver, Total, Each
<1> HIDE DEF q, n
<1>3. \A k \in 1..n : w[k] = Len(KeptAt(s, at[k])) /\ at[k] \in SUBSET DOMAIN s
  BY <1>1 DEF IsCount
<1>4. at \in [1..n -> SUBSET DOMAIN s] /\ \A k \in 1..n : \A i \in DOMAIN s : i \in at[k] <=> of[i] = q[k]
  OBVIOUS
<1>5. w \in Seq(Int) /\ DOMAIN w = 1..n
  <2>1. ASSUME NEW k \in 1..n PROVE w[k] \in Int
    <3> HIDE DEF w, at
    <3>1. KeptAt(s, at[k]) \in Seq(T)
      BY <1>3, KeptRange
    <3> QED BY <1>3, <3>1
  <2>2. w = [k \in 1..n |-> w[k]]
    OBVIOUS
  <2> HIDE DEF at, w
  <2> QED BY <1>1, <2>1, <2>2
<1> HIDE DEF w, at
<1>6. \A k \in DOMAIN w : w[k] = Len(KeptAt(s, at[k])) /\ \A i \in DOMAIN s : i \in at[k] <=> of[i] = q[k]
  BY <1>3, <1>4, <1>5
<1>7. \A k, l \in DOMAIN w : q[k] = q[l] => k = l
  BY <1>1, <1>5
<1>8. \A i \in DOMAIN s : \E k \in DOMAIN w : q[k] = of[i]
  BY <1>1, <1>5
<1>9. IsCounted(w, s, of, q, at)
  BY <1>4, <1>5, <1>6, <1>7, <1>8 DEF IsCounted
<1>10. SumOf(w) = Len(s)
  BY <1>5, <1>9, CountsAddUp
<1> QED BY <1>2, <1>10

\* The elements of a sequence of kept ones are those that are kept.
LEMMA KeptIs ==
  ASSUME NEW T, NEW s \in Seq(T), NEW I \in SUBSET DOMAIN s
  PROVE  \A r \in DOMAIN KeptAt(s, I) : \E i \in I : KeptAt(s, I)[r] = s[i]
<1> DEFINE k == KeptAt(s, I)
<1>1. k \in Seq(T) /\ Range(k) = {s[i] : i \in DOMAIN s \cap I}
  BY KeptRange
<1> HIDE DEF k
<1>2. \A r \in DOMAIN k : k[r] \in Range(k)
  BY DEF Range
<1> QED BY <1>1, <1>2 DEF k

\* What is counted of a list is no more than the list is long.
LEMMA KeptAtMost ==
  ASSUME NEW T, NEW s \in Seq(T), NEW I \in SUBSET DOMAIN s
  PROVE  Len(KeptAt(s, I)) <= Len(s)
<1>1. DOMAIN s = 1..Len(s) /\ Len(s) \in Nat
  OBVIOUS
<1> DEFINE n == Len(s)
<1>2. IsFiniteSet(1..n) /\ Cardinality(1..n) = n
  <2>1. n \in Nat
    BY <1>1
  <2> HIDE DEF n
  <2> QED BY <2>1, FS_Interval
<1>3. Cardinality(I) <= n
  <2>1. I \in SUBSET (1..n)
    BY <1>1
  <2> HIDE DEF n
  <2> QED BY <1>2, <2>1, FS_Subset
<1> QED BY <1>3, KeptLength

LEMMA VocCounts ==
  ASSUME NEW raw, WellFormed("voc-extraction", raw), NEW out, out = ValidateVoc(raw)
  PROVE  /\ SumOver(out.summary.tagDistribution) = Len(out.records)
         /\ SumOver(out.summary.intentDistribution) = Len(out.records)
         /\ out.summary.highConfidenceCount <= Len(out.records)
<1> DEFINE entries == AsList(raw.records)
           I == {i \in DOMAIN entries : UsableRecord(entries[i])}
           k == KeptAt(entries, I)
           s == out.records
<1>1. entries \in Seq(Range(entries))
  BY ListsAreSequences DEF ReplyLists, WellFormed
<1>2. Only(entries, UsableRecord) = k
  BY DEF Only, KeptAt
<1>3. k \in Seq(Range(entries)) /\ \A r \in DOMAIN k : UsableRecord(k[r])
  <2>1. \A i \in I : UsableRecord(entries[i])
    OBVIOUS
  <2>2. I \in SUBSET DOMAIN entries
    OBVIOUS
  <2> HIDE DEF entries, I
  <2> QED BY <1>1, <2>1, <2>2, KeptRange, KeptIs
<1> HIDE DEF k
<1>4. s = [i \in DOMAIN k |-> [id |-> k[i].id, tagType |-> k[i].tagType, intentStage |-> k[i].intentStage,
                              confidence |-> Clamp(0, 10, k[i].confidence, 5)]]
  BY <1>2 DEF ValidateVoc, Each
<1>5. s \in Seq(Range(s)) /\ DOMAIN s = DOMAIN k
  <2>1. s = [i \in DOMAIN k |-> s[i]] /\ \A i \in DOMAIN k : s[i] \in Range(s)
    BY <1>4 DEF Range
  <2> HIDE DEF s
  <2> QED BY <1>3, <2>1, SamePlaces
<1>6. \A i \in DOMAIN s : s[i].tagType \in TagTypes /\ s[i].intentStage \in IntentStages
  BY <1>3, <1>4 DEF UsableRecord
<1>7. /\ out.summary.tagDistribution = CountBy(s, TagTypes, LAMBDA r : r.tagType)
      /\ out.summary.intentDistribution = CountBy(s, IntentStages, LAMBDA r : r.intentStage)
      /\ out.summary.highConfidenceCount = Len(Only(s, LAMBDA r : r.confidence >= 7))
  BY DEF ValidateVoc
<1> HIDE DEF s
<1>8. SumOver(out.summary.tagDistribution) = Len(s)
  <2> DEFINE of == [i \in DOMAIN s |-> s[i].tagType]
  <2>1. IsCount(out.summary.tagDistribution, s, TagTypes, of)
    BY <1>7 DEF CountBy, Only, KeptAt, IsCount
  <2>2. \A i \in DOMAIN s : of[i] \in TagTypes
    BY <1>6
  <2> HIDE DEF of
  <2> QED BY <1>5, <2>1, <2>2, ClassesAreFinite, ClassesAddUp
<1>9. SumOver(out.summary.intentDistribution) = Len(s)
  <2> DEFINE of == [i \in DOMAIN s |-> s[i].intentStage]
  <2>1. IsCount(out.summary.intentDistribution, s, IntentStages, of)
    BY <1>7 DEF CountBy, Only, KeptAt, IsCount
  <2>2. \A i \in DOMAIN s : of[i] \in IntentStages
    BY <1>6
  <2> HIDE DEF of
  <2> QED BY <1>5, <2>1, <2>2, ClassesAreFinite, ClassesAddUp
<1>10. out.summary.highConfidenceCount <= Len(s)
  <2> DEFINE H == {i \in DOMAIN s : s[i].confidence >= 7}
  <2>1. Only(s, LAMBDA r : r.confidence >= 7) = KeptAt(s, H)
    BY DEF Only, KeptAt
  <2>2. H \in SUBSET DOMAIN s
    OBVIOUS
  <2> HIDE DEF H
  <2>3. Len(KeptAt(s, H)) <= Len(s)
    BY <1>5, <2>2, KeptAtMost
  <2> QED BY <1>7, <2>1, <2>3
<1> QED BY <1>8, <1>9, <1>10 DEF s

\* What is kept and sorted by relevance is a sequence of communities with a relevance.
LEMMA SelectedIs ==
  ASSUME NEW raw, NEW candidates, WellFormed("community-rank", raw),
         NEW s, s = ValidateRanking(raw, candidates).selected
  PROVE  s \in Seq(Range(s)) /\ \A i \in DOMAIN s : s[i].relevance \in Int
<1> DEFINE entries == AsList(raw.selected)
           I == {i \in DOMAIN entries : UsableSelected(entries[i])}
           k == KeptAt(entries, I)
           e == [i \in DOMAIN k |-> ValidateSelectedCommunity(k[i])]
           upTo == [i \in DOMAIN e |-> {j \in DOMAIN e : MoreRelevant(e[j], e[i])
                                                         \/ (~MoreRelevant(e[i], e[j]) /\ j <= i)}]
           a == [i \in DOMAIN e |-> e[i].relevance]
           b == [i \in DOMAIN e |-> 0]
<1>1. entries \in Seq(Range(entries))
  BY ListsAreSequences DEF ReplyLists, WellFormed
<1>2. \A c \in Range(entries) : c # Missing => IsNumber(c.relevance)
  BY DEF WellFormed
<1>3. k \in Seq(Range(entries)) /\ \A r \in DOMAIN k : UsableSelected(k[r])
  <2>1. \A i \in I : UsableSelected(entries[i])
    OBVIOUS
  <2>2. I \in SUBSET DOMAIN entries
    OBVIOUS
  <2> HIDE DEF entries, I
  <2> QED BY <1>1, <2>1, <2>2, KeptRange, KeptIs
<1>4. s = Placed(e, upTo)
  <2>1. Only(entries, UsableSelected) = k
    BY DEF Only, KeptAt
  <2> HIDE DEF k
  <2> QED BY <2>1 DEF ValidateRanking, StableSort, Each
<1> HIDE DEF k
<1>5. DOMAIN e = DOMAIN k /\ \A i \in DOMAIN e : e[i].relevance \in Int
  <2>1. \A i \in DOMAIN k : k[i] # Missing /\ k[i] \in Range(entries)
    <3> HIDE DEF entries
    <3> QED BY <1>3 DEF UsableSelected
  <2>2. \A i \in DOMAIN k : IsNumber(k[i].relevance)
    <3> HIDE DEF entries
    <3> QED BY <1>2, <2>1
  <2> QED BY <2>2 DEF IsNumber, Clamp, ValidateSelectedCommunity
<1>6. e \in Seq(Range(e))
  <2>1. e = [i \in DOMAIN k |-> e[i]] /\ \A i \in DOMAIN k : e[i] \in Range(e)
    BY DEF Range
  <2> HIDE DEF e
  <2> QED BY <1>3, <2>1, SamePlaces
<1>7. PICK p : IsDescending(p, e, a, Placed(e, upTo))
  <2>1. upTo \in [DOMAIN e -> SUBSET DOMAIN e]
    <3> HIDE DEF e
    <3> QED OBVIOUS
  <2>2. a \in [DOMAIN e -> Int] /\ b \in [DOMAIN e -> Int]
    <3> HIDE DEF e
    <3> QED BY <1>5
  <2>3. \A i, j \in DOMAIN e : j \in upTo[i] <=>
           \/ a[j] > a[i] \/ (a[j] = a[i] /\ b[j] > b[i])
           \/ ~(a[i] > a[j] \/ (a[i] = a[j] /\ b[i] > b[j])) /\ j <= i
    <3> HIDE DEF e
    <3> QED BY <1>5 DEF MoreRelevant
  <2> HIDE DEF e, upTo, a, b
  <2> QED BY <1>6, <2>1, <2>2, <2>3, SortedByNumbers
<1> HIDE DEF e, upTo, a
<1>8. s = [r \in 1..Len(e) |-> e[p[r]]] /\ \A r \in 1..Len(e) : p[r] \in DOMAIN e
  <2>1. s = [r \in 1..Len(e) |-> e[p[r]]] /\ IsRearrangement(p, Len(e))
    BY <1>4, <1>7 DEF IsDescending
  <2>2. DOMAIN e = 1..Len(e)
    BY <1>6
  <2>3. \A r \in 1..Len(e) : p[r] \in 1..Len(e)
    BY <2>1 DEF IsRearrangement
  <2> QED BY <2>1, <2>2, <2>3
<1>9. s \in Seq(Range(s))
  <2>1. DOMAIN e = 1..Len(e)
    BY <1>6
  <2>2. s = [r \in DOMAIN e |-> s[r]] /\ DOMAIN s = DOMAIN e
    BY <1>8, <2>1
  <2>3. \A r \in DOMAIN e : s[r] \in Range(s)
    BY <2>2 DEF Range
  <2> QED BY <1>6, <2>2, <2>3, SamePlaces
<1> QED BY <1>5, <1>8, <1>9

\* An average of numbers is a number.
LEMMA AverageIsNumber ==
  ASSUME NEW T, NEW u \in Seq(T), \A i \in DOMAIN u : u[i].relevance \in Int
  PROVE  Average(Total(u, LAMBDA c : c.relevance), Len(u)) \in Int
<1> DEFINE w == [i \in DOMAIN u |-> u[i].relevance]
           n == Len(u)
           sum == SumOf(w)
<1>1. DOMAIN u = 1..n /\ n \in Nat
  OBVIOUS
<1>2. w \in Seq(Int)
  <2> HIDE DEF n
  <2> QED BY <1>1
<1>3. Total(u, LAMBDA c : c.relevance) = sum
  BY DEF Total, Each
<1> HIDE DEF w
<1>4. sum \in Int
  BY <1>2, SumIs
<1> HIDE DEF sum, n
<1>5. n # 0 => (2000 * sum + n) \div (2 * n) \in Int
  <2> DEFINE x == 2000 * sum + n
             d == 2 * n
  <2>1. n # 0 => x \in Int /\ d \in Int /\ d > 0
    BY <1>1, <1>4
  <2> HIDE DEF x, d
  <2>2. n # 0 => x \div d \in Int
    BY <2>1
  <2> QED BY <2>2 DEF x, d
<1>6. Average(sum, n) \in Int
  BY <1>5 DEF Average
<1> QED BY <1>3, <1>6 DEF n

\* The communities of a platform.
OfPlatform(s, v) == KeptAt(s, {i \in DOMAIN s : s[i].platform = v})

\* rows has the coverage of n platforms, those of q, each with the numbers it is
\* sorted by.
IsCoverage(rows, s, q, n) ==
  /\ rows = [k \in 1..n |-> rows[k]]
  /\ \A k \in 1..n : /\ rows[k].platform = q[k] /\ rows[k].count = Len(OfPlatform(s, q[k]))
                     /\ rows[k].count \in Int /\ rows[k].avg \in Int

\* q lists the platforms of s, each of them once.
ListsPlatforms(q, s, n) ==
  /\ \A k, l \in 1..n : q[k] = q[l] => k = l
  /\ \A i \in DOMAIN s : \E k \in 1..n : q[k] = s[i].platform

\* The rows add up to the communities.
LEMMA CoverageAddsUp ==
  ASSUME NEW T, NEW s \in Seq(T), NEW n \in Nat, NEW q, NEW rows,
         IsCoverage(rows, s, q, n), ListsPlatforms(q, s, n)
  PROVE  Total(rows, LAMBDA c : c.count) = Len(s)
<1> DEFINE w == [r \in 1..n |-> rows[r].count]
           of == [i \in DOMAIN s |-> s[i].platform]
           at == [r \in 1..n |-> {i \in DOMAIN s : s[i].platform = q[r]}]
<1>1. Total(rows, LAMBDA c : c.count) = SumOf(w)
  <2>1. DOMAIN rows = 1..n
    BY DEF IsCoverage
  <2> QED BY <2>1 DEF Total, Each
<1>2. \A r \in 1..n : w[r] = Len(KeptAt(s, at[r])) /\ w[r] \in Int
  BY DEF IsCoverage, OfPlatform
<1>3. w \in Seq(Int) /\ DOMAIN w = 1..n
  <2>1. w = [r \in 1..n |-> w[r]] /\ n \in Nat
    OBVIOUS
  <2> HIDE DEF w, of, at
  <2> QED BY <1>2, <2>1
<1>4. at \in [1..n -> SUBSET DOMAIN s] /\ \A r \in 1..n : \A i \in DOMAIN s : i \in at[r] <=> of[i] = q[r]
  OBVIOUS
<1>5. \A r, l \in 1..n : q[r] = q[l] => r = l
  BY DEF ListsPlatforms
<1>6. \A i \in DOMAIN s : \E r \in 1..n : q[r] = of[i]
  BY DEF ListsPlatforms
<1> HIDE DEF w, of, at
<1>7. IsCounted(w, s, of, q, at)
  BY <1>2, <1>3, <1>4, <1>5, <1>6 DEF IsCounted
<1> QED BY <1>1, <1>3, <1>7, CountsAddUp

\* cov is made of such rows, the most covered first.
IsMadeOf(cov, s, n, q, rows) ==
  n \in Nat /\ IsCoverage(rows, s, q, n) /\ ListsPlatforms(q, s, n) /\ cov = StableSort(rows, MoreCovered)

\* The rows are made in the order the platforms appear, and then sorted.
LEMMA CoverageIsMade ==
  ASSUME NEW T, NEW s \in Seq(T), \A i \in DOMAIN s : s[i].relevance \in Int
  PROVE  \E n, q, rows : IsMadeOf(PlatformCoverage(s), s, n, q, rows)
<1> DEFINE places == [i \in DOMAIN s |-> i]
           F == {i \in DOMAIN s : \A j \in 1..(i - 1) : s[j].platform # s[i].platform}
           firsts == KeptAt(places, F)
           q == [k \in DOMAIN firsts |-> s[firsts[k]].platform]
           rows == [k \in DOMAIN firsts |-> Coverage(q[k], OfPlatform(s, q[k]))]
           n == Len(firsts)
<1>1. DOMAIN s = 1..Len(s) /\ Len(s) \in Nat
  OBVIOUS
<1>2. PlatformCoverage(s) = StableSort(rows, MoreCovered)
  <2> DEFINE Of(p) == Only(s, LAMBDA c : c.platform = p)
  <2>1. \A v : Of(v) = OfPlatform(s, v)
    BY DEF Only, KeptAt, OfPlatform
  <2>2. Only(places, LAMBDA i : \A j \in 1..(i - 1) : s[j].platform # s[i].platform) = firsts
    BY DEF Only, KeptAt
  <2> HIDE DEF firsts
  <2>3. PlatformCoverage(s) = StableSort(Each(firsts, LAMBDA i : Coverage(s[i].platform, Of(s[i].platform))), MoreCovered)
    BY <2>2 DEF PlatformCoverage
  <2> HIDE DEF Of
  <2>4. Each(firsts, LAMBDA i : Coverage(s[i].platform, Of(s[i].platform))) = rows
    BY <2>1 DEF Each
  <2> QED BY <2>3, <2>4
<1>3. /\ firsts \in Seq(Nat) /\ n \in Nat /\ DOMAIN firsts = 1..n
      /\ \A k \in 1..n : firsts[k] \in F
      /\ \A i \in F : \E k \in 1..n : firsts[k] = i
      /\ \A k, l \in 1..n : firsts[k] = firsts[l] => k = l
  <2>1. places \in Seq(Nat) /\ DOMAIN places = DOMAIN s /\ \A i \in DOMAIN places : places[i] = i
    BY <1>1
  <2>2. F \in SUBSET DOMAIN places
    BY <2>1
  <2> HIDE DEF places, F
  <2>3. firsts \in Seq(Nat) /\ Range(firsts) = {places[i] : i \in DOMAIN places \cap F}
    BY <2>1, KeptRange
  <2>4. \A k, l \in DOMAIN firsts : firsts[k] = firsts[l] => k = l
    BY <2>1, <2>2, KeptInjective
  <2> HIDE DEF firsts
  <2>5. DOMAIN firsts = 1..n /\ n \in Nat
    BY <2>3
  <2>6. Range(firsts) = F
    BY <2>1, <2>2, <2>3
  <2> QED BY <2>3, <2>4, <2>5, <2>6 DEF Range
<1> HIDE DEF firsts, n
<1>4. ListsPlatforms(q, s, n)
  <2>1. ASSUME NEW k \in 1..n, NEW l \in 1..n, q[k] = q[l]
        PROVE  k = l
    <3>1. /\ firsts[k] \in DOMAIN s /\ firsts[l] \in DOMAIN s /\ s[firsts[k]].platform = s[firsts[l]].platform
          /\ \A j \in 1..(firsts[k] - 1) : s[j].platform # s[firsts[k]].platform
          /\ \A j \in 1..(firsts[l] - 1) : s[j].platform # s[firsts[l]].platform
      BY <1>3, <2>1
    <3> DEFINE x == firsts[k]
               y == firsts[l]
    <3>2. /\ x \in 1..Len(s) /\ y \in 1..Len(s) /\ Len(s) \in Nat /\ s[x].platform = s[y].platform
          /\ \A j \in 1..(x - 1) : s[j].platform # s[x].platform
          /\ \A j \in 1..(y - 1) : s[j].platform # s[y].platform
      BY <1>1, <3>1
    <3> HIDE DEF x, y
    <3>3. x \notin 1..(y - 1) /\ y \notin 1..(x - 1)
      BY <3>2
    <3>4. x = y
      BY <3>2, <3>3
    <3>5. firsts[k] = firsts[l]
      BY <3>4 DEF x, y
    <3> QED BY <1>3, <3>5
  <2>2. ASSUME NEW i \in DOMAIN s
        PROVE  \E k \in 1..n : q[k] = s[i].platform
    <3> DEFINE S == {j \in DOMAIN s : s[j].platform = s[i].platform}
    <3>1. S \in SUBSET Nat /\ S # {}
      BY <1>1
    <3>2. PICK f \in S : \A j \in S : f <= j
      <4> HIDE DEF S
      <4> QED BY <3>1, NatLeast
    <3>3. f \in F
      BY <1>1, <3>2
    <3>4. PICK k \in 1..n : firsts[k] = f
      BY <1>3, <3>3
    <3> QED BY <1>3, <3>2, <3>4
  <2> QED BY <2>1, <2>2 DEF ListsPlatforms
<1> HIDE DEF q
<1>5. ASSUME NEW k \in 1..n
      PROVE  /\ rows[k].platform = q[k] /\ rows[k].count = Len(OfPlatform(s, q[k]))
             /\ rows[k].count \in Int /\ rows[k].avg \in Int
  <2> DEFINE I == {i \in DOMAIN s : s[i].platform = q[k]}
             u == KeptAt(s, I)
  <2>1. rows[k] = Coverage(q[k], u)
    BY <1>3 DEF OfPlatform
  <2>2. I \in SUBSET DOMAIN s
    OBVIOUS
  <2>6. OfPlatform(s, q[k]) = u
    BY DEF OfPlatform
  <2> HIDE DEF I, rows
  <2>3. u \in Seq(T) /\ \A r \in DOMAIN u : u[r].relevance \in Int
    <3>1. u \in Seq(T)
      BY KeptRange
    <3>2. \A r \in DOMAIN u : \E i \in I : u[r] = s[i]
      BY <2>2, KeptIs
    <3> HIDE DEF u
    <3> QED BY <2>2, <3>1, <3>2
  <2> HIDE DEF u
  <2>4. Average(Total(u, LAMBDA c : c.relevance), Len(u)) \in Int
    BY <2>3, AverageIsNumber
  <2>5. rows[k].platform = q[k] /\ rows[k].count = Len(u) /\ rows[k].avg \in Int
    BY <2>1, <2>4 DEF Coverage
  <2> QED BY <2>3, <2>5, <2>6
<1>6. DOMAIN rows = 1..n /\ rows = [k \in 1..n |-> rows[k]]
  BY <1>3
<1> HIDE DEF rows
<1>7. IsCoverage(rows, s, q, n)
  BY <1>5, <1>6 DEF IsCoverage
<1>8. IsMadeOf(PlatformCoverage(s), s, n, q, rows)
  BY <1>2, <1>3, <1>4, <1>7 DEF IsMadeOf
<1> QED BY <1>8

\* The coverage counts the communities of every platform once, the most covered first.
LEMMA CoverageIs ==
  ASSUME NEW T, NEW s \in Seq(T), \A i \in DOMAIN s : s[i].relevance \in Int,
         NEW cov, cov = PlatformCoverage(s)
  PROVE  /\ Total(cov, LAMBDA c : c.count) = Len(s)
         /\ \A i \in DOMAIN cov : cov[i].count <= cov[1].count
         /\ \A c, d \in DOMAIN cov : c # d => cov[c].platform # cov[d].platform
<1>1. PICK n, q, rows : IsMadeOf(cov, s, n, q, rows)
  BY CoverageIsMade
<1> DEFINE upTo == [i \in DOMAIN rows |-> {j \in DOMAIN rows : MoreCovered(rows[j], rows[i])
                                                           \/ (~MoreCovered(rows[i], rows[j]) /\ j <= i)}]
           a == [i \in DOMAIN rows |-> rows[i].count]
           b == [i \in DOMAIN rows |-> rows[i].avg]
<1>2. n \in Nat /\ IsCoverage(rows, s, q, n) /\ ListsPlatforms(q, s, n) /\ cov = Placed(rows, upTo)
  BY <1>1 DEF IsMadeOf, StableSort
<1>3. rows = [k \in 1..n |-> rows[k]] /\ DOMAIN rows = 1..n
  BY <1>2 DEF IsCoverage
<1>4. \A k \in 1..n : rows[k].count \in Int /\ rows[k].avg \in Int
  BY <1>2 DEF IsCoverage
<1>5. rows \in Seq(Range(rows)) /\ Len(rows) = n
  <2>1. \A k \in 1..n : rows[k] \in Range(rows)
    BY <1>3 DEF Range
  <2> HIDE DEF upTo, a, b
  <2> QED BY <1>2, <1>3, <2>1
<1>6. PICK p : IsDescending(p, rows, a, Placed(rows, upTo))
  <2>1. upTo \in [DOMAIN rows -> SUBSET DOMAIN rows]
    OBVIOUS
  <2>2. a \in [DOMAIN rows -> Int] /\ b \in [DOMAIN rows -> Int]
    BY <1>3, <1>4
  <2>3. \A i, j \in DOMAIN rows : j \in upTo[i] <=>
           \/ a[j] > a[i] \/ (a[j] = a[i] /\ b[j] > b[i])
           \/ ~(a[i] > a[j] \/ (a[i] = a[j] /\ b[i] > b[j])) /\ j <= i
    BY DEF MoreCovered
  <2> HIDE DEF upTo, a, b
  <2> QED BY <1>5, <2>1, <2>2, <2>3, SortedByNumbers
<1> HIDE DEF upTo, b
<1>7. /\ cov = [r \in 1..n |-> rows[p[r]]] /\ DOMAIN cov = 1..n /\ \A r \in 1..n : cov[r] = rows[p[r]]
      /\ \A r \in 1..n : p[r] \in 1..n
      /\ \A r, l \in 1..n : p[r] = p[l] => r = l
      /\ \A i \in 1..n : \E r \in 1..n : p[r] = i
      /\ \A r, l \in 1..n : r < l => a[p[r]] >= a[p[l]]
  <2> HIDE DEF a
  <2>1. cov = [r \in 1..n |-> rows[p[r]]]
    BY <1>2, <1>5, <1>6 DEF IsDescending
  <2>2. DOMAIN cov = 1..n /\ \A r \in 1..n : cov[r] = rows[p[r]]
    BY <2>1
  <2>3. /\ \A r \in 1..n : p[r] \in 1..n
        /\ \A r, l \in 1..n : p[r] = p[l] => r = l
        /\ \A i \in 1..n : \E r \in 1..n : p[r] = i
        /\ \A r, l \in 1..n : r < l => a[p[r]] >= a[p[l]]
    BY <1>5, <1>6 DEF IsDescending, IsRearrangement
  <2> QED BY <2>1, <2>2, <2>3
<1> DEFINE q1 == [r \in 1..n |-> q[p[r]]]
<1>8. ListsPlatforms(q1, s, n)
  <2>1. \A r \in 1..n : q1[r] = q[p[r]]
    OBVIOUS
  <2> HIDE DEF q1
  <2>2. ASSUME NEW r \in 1..n, NEW l \in 1..n, q1[r] = q1[l]
        PROVE  r = l
    <3>1. p[r] \in 1..n /\ p[l] \in 1..n
      BY <1>7
    <3>2. q[p[r]] = q[p[l]]
      BY <2>1, <2>2
    <3>3. p[r] = p[l]
      BY <1>2, <3>1, <3>2 DEF ListsPlatforms
    <3> QED BY <1>7, <3>3
  <2>3. ASSUME NEW i \in DOMAIN s PROVE \E r \in 1..n : q1[r] = s[i].platform
    <3>1. PICK k \in 1..n : q[k] = s[i].platform
      BY <1>2 DEF ListsPlatforms
    <3>2. PICK r \in 1..n : p[r] = k
      BY <1>7
    <3> QED BY <2>1, <3>1, <3>2
  <2> QED BY <2>2, <2>3 DEF ListsPlatforms
<1>9. IsCoverage(cov, s, q1, n)
  <2>1. cov = [r \in 1..n |-> cov[r]]
    BY <1>7
  <2>2. ASSUME NEW r \in 1..n
        PROVE  /\ cov[r].platform = q1[r] /\ cov[r].count = Len(OfPlatform(s, q1[r]))
               /\ cov[r].count \in Int /\ cov[r].avg \in Int
    <3>1. p[r] \in 1..n /\ cov[r] = rows[p[r]] /\ q1[r] = q[p[r]]
      BY <1>7
    <3> HIDE DEF q1
    <3> QED BY <1>2, <3>1 DEF IsCoverage
  <2> HIDE DEF q1
  <2> QED BY <2>1, <2>2 DEF IsCoverage
<1> HIDE DEF q1
<1>10. Total(cov, LAMBDA c : c.count) = Len(s)
  BY <1>2, <1>8, <1>9, CoverageAddsUp
<1>11. ASSUME NEW i \in DOMAIN cov PROVE cov[i].count <= cov[1].count
  <2>1. i \in 1..n /\ 1 \in 1..n /\ (i = 1 \/ 1 < i)
    BY <1>2, <1>7
  <2>2. a[p[i]] = cov[i].count /\ a[p[1]] = cov[1].count /\ cov[i].count \in Int /\ cov[1].count \in Int
    BY <1>3, <1>4, <1>7, <2>1
  <2>3. i = 1 \/ a[p[1]] >= a[p[i]]
    BY <1>7, <2>1
  <2> HIDE DEF a
  <2> QED BY <2>2, <2>3
<1>12. ASSUME NEW c \in DOMAIN cov, NEW d \in DOMAIN cov, cov[c].platform = cov[d].platform
       PROVE  c = d
  <2>1. c \in 1..n /\ d \in 1..n
    BY <1>7
  <2>2. q1[c] = q1[d]
    BY <1>9, <1>12, <2>1 DEF IsCoverage
  <2> QED BY <1>8, <2>1, <2>2 DEF ListsPlatforms
<1> QED BY <1>10, <1>11, <1>12

LEMMA RankingCounts ==
  ASSUME NEW raw, NEW candidates, WellFormed("community-rank", raw),
         NEW out, out = ValidateRanking(raw, candidates)
  PROVE  /\ Total(out.platformCoverage, LAMBDA p : p.count) = Len(out.selected)
         /\ \A i \in DOMAIN out.platformCoverage : out.platformCoverage[i].count <= out.platformCoverage[1].count
         /\ \A c, d \in DOMAIN out.platformCoverage :
              c # d => out.platformCoverage[c].platform # out.platformCoverage[d].platform
<1> DEFINE s == out.selected
           cov == out.platformCoverage
<1>1. s \in Seq(Range(s)) /\ \A i \in DOMAIN s : s[i].relevance \in Int
  BY SelectedIs
<1>2. cov = PlatformCoverage(s)
  BY DEF ValidateRanking
<1> HIDE DEF s, cov
<1>3. /\ Total(cov, LAMBDA c : c.count) = Len(s)
      /\ \A i \in DOMAIN cov : cov[i].count <= cov[1].count
      /\ \A c, d \in DOMAIN cov : c # d => cov[c].platform # cov[d].platform
  BY <1>1, <1>2, CoverageIs
<1> QED BY <1>3 DEF s, cov

\* The texts of a list are so many.
LEMMA TextsAreSoMany ==
  ASSUME NEW x, IsList(x)
  PROVE  Len(Texts(x)) \in Nat
<1> DEFINE e == AsList(x)
           I == {i \in DOMAIN e : e[i] # Missing /\ e[i] # ""}
<1>1. e \in Seq(Range(e))
  BY ListsAreSequences
<1>2. Texts(x) = KeptAt(e, I)
  BY DEF Texts, Only, KeptAt
<1> HIDE DEF e, I
<1>3. KeptAt(e, I) \in Seq(Range(e))
  BY <1>1, KeptRange
<1>4. Len(KeptAt(e, I)) \in Nat
  BY <1>3
<1> QED BY <1>2, <1>4

\* Numbers that are 1 at least add up to their number at least, and numbers that
\* are not negative to one that is not.
LEMMA EachAtLeastOne ==
  ASSUME NEW w \in Seq(Int), \A n \in DOMAIN w : w[n] >= 1
  PROVE  Len(w) <= SumOf(w)
<1> DEFINE N == Len(w)
           c == [n \in 0..N |-> n]
<1>1. N \in Nat /\ DOMAIN w = 1..N
  OBVIOUS
<1>2. \A n \in 1..N : w[n] \in Int /\ w[n] >= 1
  OBVIOUS
<1> HIDE DEF N
<1>3. c \in [0..N -> Int] /\ c[0] = 0 /\ c[N] = N
  BY <1>1
<1>4. \A n \in 1..N : c[n] <= c[n - 1] + w[n]
  BY <1>1, <1>2
<1> HIDE DEF c
<1>5. c[N] <= SumOf(w)
  BY <1>3, <1>4, SumAtLeast DEF N
<1> QED BY <1>3, <1>5 DEF N

LEMMA NoneBelowZero ==
  ASSUME NEW w \in Seq(Int), \A n \in DOMAIN w : w[n] >= 0
  PROVE  0 <= SumOf(w)
<1> DEFINE N == Len(w)
           c == [n \in 0..N |-> 0]
<1>1. N \in Nat /\ DOMAIN w = 1..N
  OBVIOUS
<1>2. \A n \in 1..N : w[n] \in Int /\ w[n] >= 0
  OBVIOUS
<1> HIDE DEF N
<1>3. c \in [0..N -> Int] /\ c[0] = 0 /\ c[N] = 0
  BY <1>1
<1>4. \A n \in 1..N : c[n] <= c[n - 1] + w[n]
  BY <1>1, <1>2
<1> HIDE DEF c
<1>5. c[N] <= SumOf(w)
  BY <1>3, <1>4, SumAtLeast DEF N
<1> QED BY <1>3, <1>5 DEF N

\* The groups are counted by the intent they have, and each has a query of its own.
LEMMA GroupsCount ==
  ASSUME NEW raw, WellFormed("query-builder", raw), NEW out, out = ValidateQueries(raw)
  PROVE  /\ SumOver(out.summary.queriesByIntent) = Len(out.groups)
         /\ Total(out.groups, LAMBDA g : 1 + Len(g.variations)) >= Len(out.groups)
         /\ Total(out.groups, LAMBDA g : 1 + Len(g.variations)) \in Int /\ Len(out.groups) \in Int
<1> DEFINE entries == AsList(raw.groups)
           I == {i \in DOMAIN entries : UsableGroup(entries[i])}
           k == KeptAt(entries, I)
           s == out.groups
<1>1. entries \in Seq(Range(entries))
  BY ListsAreSequences DEF ReplyLists, WellFormed
<1>2. \A g \in Range(entries) : g # Missing => IsList(g.variations)
  BY DEF WellFormed
<1>3. k \in Seq(Range(entries)) /\ \A r \in DOMAIN k : UsableGroup(k[r])
  <2>1. \A i \in I : UsableGroup(entries[i])
    OBVIOUS
  <2>2. I \in SUBSET DOMAIN entries
    OBVIOUS
  <2> HIDE DEF entries, I
  <2> QED BY <1>1, <2>1, <2>2, KeptRange, KeptIs
<1>4. s = [i \in DOMAIN k |-> ValidateQueryGroup(k[i])]
  <2>1. Only(entries, UsableGroup) = k
    BY DEF Only, KeptAt
  <2> HIDE DEF k
  <2> QED BY <2>1 DEF ValidateQueries, Each
<1>5. out.summary.queriesByIntent = CountBy(s, IntentStages, LAMBDA g : g.intentStage)
  BY DEF ValidateQueries
<1> HIDE DEF k, s
<1>6. s \in Seq(Range(s)) /\ DOMAIN s = DOMAIN k /\ Len(s) = Len(k)
  <2>1. s = [i \in DOMAIN k |-> s[i]] /\ \A i \in DOMAIN k : s[i] \in Range(s)
    BY <1>4 DEF Range
  <2> QED BY <1>3, <2>1, SamePlaces
<1>7. \A i \in DOMAIN s : Len(s[i].variations) \in Nat
  <2>1. ASSUME NEW i \in DOMAIN k PROVE Len(Texts(k[i].variations)) \in Nat
    <3>1. k[i] # Missing /\ k[i] \in Range(entries)
      <4> HIDE DEF entries
      <4> QED BY <1>3 DEF UsableGroup
    <3>2. IsList(k[i].variations)
      <4> HIDE DEF entries
      <4> QED BY <1>2, <3>1
    <3> QED BY <3>2, TextsAreSoMany
  <2>2. ASSUME NEW i \in DOMAIN k PROVE s[i].variations = Texts(k[i].variations)
    BY <1>4 DEF ValidateQueryGroup
  <2> QED BY <1>6, <2>1, <2>2
<1>8. \A i \in DOMAIN s : s[i].intentStage \in IntentStages
  BY <1>4 DEF ValidateQueryGroup, PickEnum, IntentStages
<1>9. SumOver(out.summary.queriesByIntent) = Len(s)
  <2> DEFINE of == [i \in DOMAIN s |-> s[i].intentStage]
  <2>1. IsCount(out.summary.queriesByIntent, s, IntentStages, of)
    BY <1>5 DEF CountBy, Only, KeptAt, IsCount
  <2>2. \A i \in DOMAIN s : of[i] \in IntentStages
    BY <1>8
  <2> HIDE DEF of
  <2> QED BY <1>6, <2>1, <2>2, ClassesAreFinite, ClassesAddUp
<1> DEFINE w == [i \in DOMAIN s |-> 1 + Len(s[i].variations)]
<1>10. w \in Seq(Int) /\ Len(w) = Len(s) /\ \A i \in DOMAIN w : w[i] >= 1
  <2>1. \A i \in DOMAIN s : w[i] \in Int /\ w[i] >= 1
    BY <1>7
  <2>2. w = [i \in DOMAIN s |-> w[i]]
    OBVIOUS
  <2> HIDE DEF w
  <2> QED BY <1>6, <2>1, <2>2, SamePlaces
<1>11. Total(s, LAMBDA g : 1 + Len(g.variations)) = SumOf(w)
  BY DEF Total, Each
<1> HIDE DEF w
<1>12. SumOf(w) >= Len(s) /\ SumOf(w) \in Int /\ Len(s) \in Int
  <2>1. Len(s) \in Int
    BY <1>6
  <2>2. SumOf(w) \in Int /\ Len(w) <= SumOf(w)
    BY <1>10, SumIs, EachAtLeastOne
  <2> QED BY <1>10, <2>1, <2>2
<1> QED BY <1>9, <1>11, <1>12 DEF s

\* The queries about competitors are none or more.
LEMMA CompetitorsCount ==
  ASSUME NEW raw, WellFormed("query-builder", raw), NEW out, out = ValidateQueries(raw)
  PROVE  LET all == Total(out.competitors, LAMBDA c : Len(c.comparison) + Len(c.switching) + Len(c.alternative))
         IN all \in Int /\ all >= 0
<1> DEFINE entries == AsList(raw.competitors)
           I == {i \in DOMAIN entries : UsableCompetitor(entries[i])}
           k == KeptAt(entries, I)
           s == out.competitors
           w == [i \in DOMAIN s |-> Len(s[i].comparison) + Len(s[i].switching) + Len(s[i].alternative)]
<1>1. entries \in Seq(Range(entries))
  BY ListsAreSequences DEF ReplyLists, WellFormed
<1>2. \A c \in Range(entries) : c # Missing => IsList(c.comparison) /\ IsList(c.switching) /\ IsList(c.alternative)
  BY DEF WellFormed
<1>3. k \in Seq(Range(entries)) /\ \A r \in DOMAIN k : UsableCompetitor(k[r])
  <2>1. \A i \in I : UsableCompetitor(entries[i])
    OBVIOUS
  <2>2. I \in SUBSET DOMAIN entries
    OBVIOUS
  <2> HIDE DEF entries, I
  <2> QED BY <1>1, <2>1, <2>2, KeptRange, KeptIs
<1>4. s = [i \in DOMAIN k |-> ValidateCompetitorGroup(k[i])]
  <2>1. Only(entries, UsableCompetitor) = k
    BY DEF Only, KeptAt
  <2> HIDE DEF k
  <2> QED BY <2>1 DEF ValidateQueries, Each
<1> HIDE DEF k, s
<1>5. ASSUME NEW i \in DOMAIN k PROVE w[i] \in Int /\ w[i] >= 0
  <2>1. k[i] # Missing /\ k[i] \in Range(entries)
    <3> HIDE DEF entries
    <3> QED BY <1>3 DEF UsableCompetitor
  <2>2. IsList(k[i].comparison) /\ IsList(k[i].switching) /\ IsList(k[i].alternative)
    <3> HIDE DEF entries
    <3> QED BY <1>2, <2>1
  <2>3. Len(Texts(k[i].comparison)) \in Nat /\ Len(Texts(k[i].switching)) \in Nat /\ Len(Texts(k[i].alternative)) \in Nat
    BY <2>2, TextsAreSoMany
  <2> DEFINE x == Len(Texts(k[i].comparison))
             y == Len(Texts(k[i].switching))
             z == Len(Texts(k[i].alternative))
  <2>4. w[i] = x + y + z
    BY <1>4 DEF ValidateCompetitorGroup
  <2> HIDE DEF w, x, y, z
  <2>5. x + y + z \in Int /\ x + y + z >= 0
    BY <2>3 DEF x, y, z
  <2> QED BY <2>4, <2>5
<1>6. w = [i \in DOMAIN k |-> w[i]]
  BY <1>4
<1>7. Total(s, LAMBDA c : Len(c.comparison) + Len(c.switching) + Len(c.alternative)) = SumOf(w)
  BY DEF Total, Each
<1> HIDE DEF w, k, entries, I
<1>8. w \in Seq(Int) /\ DOMAIN w = DOMAIN k
  BY <1>3, <1>5, <1>6, SamePlaces
<1>9. SumOf(w) \in Int /\ SumOf(w) >= 0
  <2>1. SumOf(w) \in Int /\ 0 <= SumOf(w)
    BY <1>5, <1>8, SumIs, NoneBelowZero
  <2> QED BY <2>1
<1> QED BY <1>7, <1>9 DEF s

LEMMA QueriesCount ==
  ASSUME NEW raw, WellFormed("query-builder", raw), NEW out, out = ValidateQueries(raw)
  PROVE  /\ SumOver(out.summary.queriesByIntent) = Len(out.groups)
         /\ out.summary.totalQueries >= Len(out.groups)
<1> DEFINE a == Total(out.groups, LAMBDA g : 1 + Len(g.variations))
           b == Total(out.competitors, LAMBDA c : Len(c.comparison) + Len(c.switching) + Len(c.alternative))
<1>1. out.summary.totalQueries = a + b
  BY DEF ValidateQueries
<1>2. a \in Int /\ a >= Len(out.groups) /\ Len(out.groups) \in Int /\ SumOver(out.summary.queriesByIntent) = Len(out.groups)
  BY GroupsCount
<1>3. b \in Int /\ b >= 0
  BY CompetitorsCount
<1> HIDE DEF a, b
<1> QED BY <1>1, <1>2, <1>3

\* A score is a number, whatever the model gives for one.
LEMMA ScoreIsNumber ==
  ASSUME NEW s, s # Missing => /\ IsNumber(s.total) /\ IsNumber(s.volume) /\ IsNumber(s.intensity)
                               /\ IsNumber(s.commercialIntent) /\ IsNumber(s.clarity) /\ IsNumber(s.uniqueness)
  PROVE  ValidateScoreBreakdown(s) \in Int
<1>1. \A v : IsNumber(v) => ClampScore(v) \in Int
  BY DEF IsNumber, ClampScore, Clamp
<1>2. CASE s = Missing
  BY <1>2 DEF ValidateScoreBreakdown
<1>3. CASE s # Missing /\ s.total # Missing /\ s.total >= 0
  BY <1>3 DEF ValidateScoreBreakdown, IsNumber
<1>4. CASE s # Missing /\ ~(s.total # Missing /\ s.total >= 0)
  <2> DEFINE v == ClampScore(s.volume)
             i == ClampScore(s.intensity)
             c == ClampScore(s.commercialIntent)
             l == ClampScore(s.clarity)
             u == ClampScore(s.uniqueness)
  <2>1. v \in Int /\ i \in Int /\ c \in Int /\ l \in Int /\ u \in Int
    BY <1>1, <1>4
  <2>2. ValidateScoreBreakdown(s) = 20 * v + 25 * i + 30 * c + 15 * l + 10 * u
    BY <1>4 DEF ValidateScoreBreakdown
  <2> HIDE DEF v, i, c, l, u
  <2>3. 20 * v + 25 * i + 30 * c + 15 * l + 10 * u \in Int
    BY <2>1
  <2> QED BY <2>2, <2>3
<1> QED BY <1>2, <1>3, <1>4

LEMMA BriefsCount ==
  ASSUME NEW raw, WellFormed("ad-angles", raw), NEW out, out = ValidateBriefs(raw)
  PROVE  SumOver(out.segmentBreakdown) = Len(out.briefs)
<1> DEFINE entries == AsList(raw.briefs)
           I == {i \in DOMAIN entries : UsableBrief(entries[i])}
           k == KeptAt(entries, I)
           Brief(b) == [id |-> b.id, segment |-> PickEnum(b.segment, IntentStages, "researching"),
                        hooks |-> Texts(b.hooks), total |-> ValidateScoreBreakdown(b.score)]
           e == [i \in DOMAIN k |-> Brief(k[i])]
           upTo == [i \in DOMAIN e |-> {j \in DOMAIN e : e[j].total > e[i].total
                                                         \/ (~(e[i].total > e[j].total) /\ j <= i)}]
           a == [i \in DOMAIN e |-> e[i].total]
           b == [i \in DOMAIN e |-> 0]
           s == out.briefs
<1>1. entries \in Seq(Range(entries))
  BY ListsAreSequences DEF ReplyLists, WellFormed
<1>2. \A c \in Range(entries) : c # Missing => ValidateScoreBreakdown(c.score) \in Int
  <2>1. ASSUME NEW c \in Range(entries), c # Missing, c.score # Missing
        PROVE  /\ IsNumber(c.score.total) /\ IsNumber(c.score.volume) /\ IsNumber(c.score.intensity)
               /\ IsNumber(c.score.commercialIntent) /\ IsNumber(c.score.clarity) /\ IsNumber(c.score.uniqueness)
    BY <2>1 DEF WellFormed
  <2> HIDE DEF entries
  <2> QED BY <2>1, ScoreIsNumber
<1>3. k \in Seq(Range(entries)) /\ \A r \in DOMAIN k : UsableBrief(k[r])
  <2>1. \A i \in I : UsableBrief(entries[i])
    OBVIOUS
  <2>2. I \in SUBSET DOMAIN entries
    OBVIOUS
  <2> HIDE DEF entries, I
  <2> QED BY <1>1, <2>1, <2>2, KeptRange, KeptIs
<1>4. s = Placed(e, upTo)
  <2>1. Only(entries, UsableBrief) = k
    BY DEF Only, KeptAt
  <2> HIDE DEF k
  <2>2. s = StableSort(Each(k, Brief), LAMBDA x, y : x.total > y.total)
    BY <2>1 DEF ValidateBriefs
  <2> HIDE DEF s, Brief
  <2>3. Each(k, Brief) = e
    BY DEF Each
  <2> HIDE DEF e
  <2> QED BY <2>2, <2>3 DEF StableSort
<1>5. out.segmentBreakdown = CountBy(s, IntentStages, LAMBDA x : x.segment)
  BY DEF ValidateBriefs
<1> HIDE DEF k, s
<1>6. DOMAIN e = DOMAIN k /\ \A i \in DOMAIN e : e[i].total \in Int /\ e[i].segment \in IntentStages
  <2>1. ASSUME NEW i \in DOMAIN k PROVE ValidateScoreBreakdown(k[i].score) \in Int
    <3> HIDE DEF entries
    <3>1. k[i] # Missing /\ k[i] \in Range(entries)
      BY <1>3 DEF UsableBrief, Named
    <3> QED BY <1>2, <3>1
  <2>2. \A v : PickEnum(v, IntentStages, "researching") \in IntentStages
    BY DEF PickEnum, IntentStages
  <2> QED BY <2>1, <2>2
<1>7. e \in Seq(Range(e))
  <2>1. e = [i \in DOMAIN k |-> e[i]] /\ \A i \in DOMAIN k : e[i] \in Range(e)
    BY DEF Range
  <2> HIDE DEF e
  <2> QED BY <1>3, <2>1, SamePlaces
<1> HIDE DEF e
<1>8. PICK p : IsDescending(p, e, a, Placed(e, upTo))
  <2>1. upTo \in [DOMAIN e -> SUBSET DOMAIN e]
    OBVIOUS
  <2>2. a \in [DOMAIN e -> Int] /\ b \in [DOMAIN e -> Int]
    BY <1>6
  <2>3. \A i, j \in DOMAIN e : j \in upTo[i] <=>
           \/ a[j] > a[i] \/ (a[j] = a[i] /\ b[j] > b[i])
           \/ ~(a[i] > a[j] \/ (a[i] = a[j] /\ b[i] > b[j])) /\ j <= i
    BY <1>6
  <2> HIDE DEF upTo, a, b
  <2> QED BY <1>7, <2>1, <2>2, <2>3, SortedByNumbers
<1> HIDE DEF upTo, a
<1>9. s = [r \in 1..Len(e) |-> e[p[r]]] /\ \A r \in 1..Len(e) : p[r] \in DOMAIN e
  <2>1. s = [r \in 1..Len(e) |-> e[p[r]]] /\ IsRearrangement(p, Len(e))
    BY <1>4, <1>8 DEF IsDescending
  <2>2. DOMAIN e = 1..Len(e)
    BY <1>7
  <2>3. \A r \in 1..Len(e) : p[r] \in 1..Len(e)
    BY <2>1 DEF IsRearrangement
  <2> QED BY <2>1, <2>2, <2>3
<1>10. s \in Seq(Range(s)) /\ \A i \in DOMAIN s : s[i].segment \in IntentStages
  <2>1. DOMAIN e = 1..Len(e)
    BY <1>7
  <2>2. s = [r \in DOMAIN e |-> s[r]] /\ DOMAIN s = DOMAIN e
    BY <1>9, <2>1
  <2>3. \A r \in DOMAIN e : s[r] \in Range(s)
    BY <2>2 DEF Range
  <2>4. s \in Seq(Range(s))
    BY <1>7, <2>2, <2>3, SamePlaces
  <2> QED BY <1>6, <1>9, <2>1, <2>2, <2>4
<1> DEFINE of == [i \in DOMAIN s |-> s[i].segment]
<1>11. IsCount(out.segmentBreakdown, s, IntentStages, of)
  BY <1>5 DEF CountBy, Only, KeptAt, IsCount
<1>12. \A i \in DOMAIN s : of[i] \in IntentStages
  BY <1>10
<1> HIDE DEF of
<1>13. SumOver(out.segmentBreakdown) = Len(s)
  BY <1>10, <1>11, <1>12, ClassesAreFinite, ClassesAddUp
<1> QED BY <1>13 DEF s

LEMMA SummariesNow == RunInv => SummariesCountOutputs
<1> SUFFICES ASSUME RunInv, Done PROVE SummariesCountOutputs
  BY DEF SummariesCountOutputs
<1>1. WellFormed(node, Raw)
  BY DoneIsValidated, RepliesAssumption DEF RunInv
<1>2. ASSUME node = "voc-extraction"
      PROVE  /\ SumOver(Out.summary.tagDistribution) = Len(Out.records)
             /\ SumOver(Out.summary.intentDistribution) = Len(Out.records)
             /\ Out.summary.highConfidenceCount <= Len(Out.records)
  BY <1>1, <1>2, DoneIsValidated, VocCounts
<1>3. ASSUME node = "community-rank"
      PROVE  /\ Total(Out.platformCoverage, LAMBDA p : p.count) = Len(Out.selected)
             /\ \A i \in DOMAIN Out.platformCoverage :
                  Out.platformCoverage[i].count <= Out.platformCoverage[1].count
             /\ \A c, d \in DOMAIN Out.platformCoverage :
                  c # d => Out.platformCoverage[c].platform # Out.platformCoverage[d].platform
  BY <1>1, <1>3, DoneIsValidated, RankingCounts
<1>4. ASSUME node = "query-builder"
      PROVE  /\ SumOver(Out.summary.queriesByIntent) = Len(Out.groups)
             /\ Out.summary.totalQueries >= Len(Out.groups)
  BY <1>1, <1>4, DoneIsValidated, QueriesCount
<1>5. ASSUME node = "ad-angles" PROVE SumOver(Out.segmentBreakdown) = Len(Out.briefs)
  BY <1>1, <1>5, DoneIsValidated, BriefsCount
<1> QED BY <1>2, <1>3, <1>4, <1>5 DEF SummariesCountOutputs, SumOver

\* A summary counts what is in the outputs, for every reply.
THEOREM SummariesAreCounts == Spec => []SummariesCountOutputs
BY RunInvariant, SummariesNow, PTL
=============================================================================
