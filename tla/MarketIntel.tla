---------------------------- MODULE MarketIntel ----------------------------
(***************************************************************************)
(* The nine market intelligence nodes.  Each checks its inputs, asks a     *)
(* model once, asks once more when the reply is not JSON, and turns what   *)
(* the reply holds into outputs: entries that lack what they need are left *)
(* out, fields that are not usable get a default, lists are ranked and     *)
(* summaries counted again.                                                *)
(*                                                                         *)
(* A reply is a record of lists; Missing stands for a value that is absent *)
(* or not of the type the code expects.  Texts are kept as the class the   *)
(* code tells apart.  Scores between 0 and 1 are in tenths, averages in    *)
(* ten-thousandths, totals of a score in hundredths.                       *)
(***************************************************************************)
EXTENDS Lists

CONSTANTS
  Missing,        \* no value, or a value of another type
  Thrown,         \* a call that threw
  Prose,          \* a reply without JSON in it
  Inputs(_),      \* the inputs a node may be run with
  Replies(_)      \* the parsed replies a model may give to a node

VARIABLES
  node,     \* the node that runs
  in,       \* its inputs
  answers,  \* what the calls of the model have given so far
  result    \* what the node has come to: asking, or its result

vars == <<node, in, answers, result>>

-----------------------------------------------------------------------------
(* What the validators share. *)

AsList(x) == IF x = Missing THEN <<>> ELSE x
PickEnum(v, valid, fallback) == IF v \in valid THEN v ELSE fallback
Clamp(lo, hi, v, fallback) ==
  IF v = Missing THEN fallback ELSE IF v < lo THEN lo ELSE IF v > hi THEN hi ELSE v
Texts(x) == Only(AsList(x), LAMBDA t : t # Missing /\ t # "")

Warning(list, at, why) == [list |-> list, at |-> at, why |-> why]
DropWarnings(list, s, Ok(_)) == {Warning(list, i, "dropped") : i \in {j \in DOMAIN s : ~Ok(s[j])}}
ListWarning(list, x) == IF x = Missing THEN {Warning(list, 0, "no list")} ELSE {}
FromModel(raw) == {Warning("model", i, "said") : i \in DOMAIN AsList(raw.warnings)}

\* Rounded to four digits, from n scores in tenths.
Average(sum, n) == IF n = 0 THEN 0 ELSE (2000 * sum + n) \div (2 * n)

Platforms == {"reddit", "hackernews", "stackexchange", "quora", "twitter", "other"}
CommunityPlatforms == {"reddit", "hackernews", "stackexchange", "forum", "reviews", "other"}
IntentStages == {"ready_now", "researching", "problem_aware", "unaware"}
TagTypes == {"pain", "desire", "objection", "trigger", "proof_request", "alternative"}
ContentTypes == {"discussion", "article", "review", "question", "comment_thread", "documentation", "other"}
AdPlatforms == {"meta", "google", "linkedin", "tiktok", "reddit", "x"}
Priorities == {"critical", "high", "medium", "low", "skip"}

MoreRelevant(a, b) == a.relevance > b.relevance

CountBy(s, values, Of(_)) == [v \in values |-> Len(Only(s, LAMBDA x : Of(x) = v))]

-----------------------------------------------------------------------------
(* market-intel.ai-discovery *)

IsValidUrl(u) == u \in {"http", "subreddit"}
UsableCommunity(c) == c # Missing /\ c.name = "given" /\ c.url = "given"
ValidateCommunity(c) ==
  [id |-> c.id, platform |-> PickEnum(c.platform, Platforms, "other"), relevance |-> Clamp(0, 10, c.relevance, 5)]

ValidateDiscovery(raw) ==
  LET urls == AsList(raw.urls)
      communities == AsList(raw.communities)
  IN [urls |-> Only(urls, IsValidUrl),
      communities |-> StableSort(Each(Only(communities, UsableCommunity), ValidateCommunity),
                                 MoreRelevant),
      searchQueries |-> Texts(raw.searchQueries),
      warnings |-> DropWarnings("urls", urls, IsValidUrl)
                     \cup DropWarnings("communities", communities, UsableCommunity)]

-----------------------------------------------------------------------------
(* market-intel.content-extraction *)

ValidateExtraction(raw, input) ==
  LET quotes == AsList(raw.quotes)
      kept == Only(quotes, LAMBDA q : q = "long")
      Said(condition, what) == IF condition THEN {Warning(what, 0, "default")} ELSE {}
  IN [title |-> PickEnum(raw.title, {"given"}, ""),
      content |-> PickEnum(raw.content, {"given"}, ""),
      contentType |-> PickEnum(raw.contentType, ContentTypes, "other"),
      publishedAt |-> PickEnum(raw.publishedAt, {"date"}, Missing),
      tags |-> Texts(raw.tags),
      quotes |-> kept,
      wasTruncated |-> input.html = "long",
      warnings |-> FromModel(raw)
        \cup Said(raw.title # "given", "title")
        \cup Said(raw.content # "given", "content")
        \cup Said(raw.contentType \notin ContentTypes \cup {Missing}, "contentType")
        \cup Said(Len(kept) < Len(quotes), "quotes")
        \cup Said(raw.publishedAt = "text", "publishedAt")
        \cup Said(input.html = "long", "truncated")]

-----------------------------------------------------------------------------
(* market-intel.voc-extraction *)

UsableRecord(r) ==
  r # Missing /\ r.quote = "long" /\ r.tagType \in TagTypes /\ r.intentStage \in IntentStages

ValidateVoc(raw) ==
  LET entries == AsList(raw.records)
      records == Each(Only(entries, UsableRecord), LAMBDA r :
        [id |-> r.id, tagType |-> r.tagType, intentStage |-> r.intentStage,
         confidence |-> Clamp(0, 10, r.confidence, 5)])
  IN [records |-> records,
      summary |-> [totalQuotesFound |-> Len(records),
                   highConfidenceCount |-> Len(Only(records, LAMBDA r : r.confidence >= 7)),
                   tagDistribution |-> CountBy(records, TagTypes, LAMBDA r : r.tagType),
                   intentDistribution |-> CountBy(records, IntentStages, LAMBDA r : r.intentStage)],
      \* without a list the warnings of the model are left out too
      warnings |-> IF raw.records = Missing THEN ListWarning("records", Missing)
        ELSE FromModel(raw) \cup DropWarnings("records", entries, UsableRecord)
               \cup {Warning("records", i, "default") :
                       i \in {j \in DOMAIN entries : UsableRecord(entries[j]) /\ entries[j].confidence = Missing}}]

-----------------------------------------------------------------------------
(* market-intel.community-rank *)

UsableSelected(c) == c # Missing /\ c.id # Missing /\ c.name = "given"
ValidateSelectedCommunity(c) ==
  [id |-> c.id, platform |-> PickEnum(c.platform, CommunityPlatforms, "other"),
   relevance |-> Clamp(0, 10, c.relevance, 5)]
UsableRejected(r) == r # Missing /\ r.id # Missing

MoreCoveredByScore(a, b) == a.avg > b.avg \/ (a.avg = b.avg /\ a.count > b.count) \* Faulty variant: the better average first
MoreCovered(a, b) == a.count > b.count \/ (a.count = b.count /\ a.avg > b.avg)

Coverage(p, communities) ==
  [platform |-> p, count |-> Len(communities),
   avg |-> Average(Total(communities, LAMBDA c : c.relevance), Len(communities))]

\* Counted from the communities that were kept, platforms in the order they first appear.
PlatformCoverage(selected) ==
  LET Of(p) == Only(selected, LAMBDA c : c.platform = p)
      firsts == Only([i \in DOMAIN selected |-> i],
                     LAMBDA i : \A j \in 1..(i - 1) : selected[j].platform # selected[i].platform)
  IN StableSort(Each(firsts, LAMBDA i : Coverage(selected[i].platform, Of(selected[i].platform))), MoreCovered)

ValidateRanking(raw, candidates) ==
  LET entries == AsList(raw.selected)
      selected == StableSort(Each(Only(entries, UsableSelected), ValidateSelectedCommunity),
                             MoreRelevant)
      coverage == PlatformCoverage(selected)
  IN [selected |-> selected,
      rejected |-> Only(AsList(raw.rejected), UsableRejected),
      platformCoverage |-> coverage,
      summary |-> [totalCandidates |-> candidates, totalSelected |-> Len(selected),
                   avg |-> Average(Total(selected, LAMBDA c : c.relevance), Len(selected)),
                   topPlatform |-> IF coverage = <<>> THEN "other" ELSE coverage[1].platform],
      warnings |-> FromModel(raw) \cup ListWarning("selected", raw.selected)
                     \cup DropWarnings("selected", entries, UsableSelected)]

-----------------------------------------------------------------------------
(* market-intel.query-builder *)

UsableGroup(g) == g # Missing /\ g.primaryQuery = "given"
UsableCompetitor(c) == c # Missing /\ c.competitor = "given"
ValidateQueryGroup(g) ==
  [intentStage |-> PickEnum(g.intentStage, IntentStages, "researching"), variations |-> Texts(g.variations)]
ValidateCompetitorGroup(c) ==
  [comparison |-> Texts(c.comparison), switching |-> Texts(c.switching), alternative |-> Texts(c.alternative)]

ValidateQueries(raw) ==
  LET groups == Each(Only(AsList(raw.groups), UsableGroup), ValidateQueryGroup)
      competitors == Each(Only(AsList(raw.competitors), UsableCompetitor), ValidateCompetitorGroup)
  IN [groups |-> groups,
      competitors |-> competitors,
      summary |-> [totalQueries |-> Total(groups, LAMBDA g : 1 + Len(g.variations))
                     + Total(competitors, LAMBDA c : Len(c.comparison) + Len(c.switching) + Len(c.alternative)),
                   queriesByIntent |-> CountBy(groups, IntentStages, LAMBDA g : g.intentStage),
                   competitorCoverage |-> Len(competitors)],
      warnings |-> FromModel(raw) \cup ListWarning("groups", raw.groups)
                     \cup DropWarnings("groups", AsList(raw.groups), UsableGroup)
                     \cup DropWarnings("competitors", AsList(raw.competitors), UsableCompetitor)]

-----------------------------------------------------------------------------
(* market-intel.thread-triage *)

UsableThread(t) == t # Missing /\ t.id # Missing /\ t.title # Missing
ValidateThread(t) ==
  [id |-> t.id, priority |-> PickEnum(t.priority, Priorities, "medium"),
   value |-> Clamp(0, 10, t.value, 5),
   tokens |-> IF t.tokens = Missing THEN 2000 ELSE IF t.tokens < 0 THEN 0 ELSE t.tokens]

ValidateTriage(raw) ==
  LET entries == AsList(raw.threads)
      threads == Each(Only(entries, UsableThread), ValidateThread)
      worthIt == Only(threads, LAMBDA t : t.priority # "skip")
      \* the queue of the model is taken as it is, whatever ids it names
      queue == IF raw.queue # Missing THEN Only(raw.queue, LAMBDA id : id # Missing)
               ELSE Each(StableSort(worthIt, LAMBDA a, b : a.value > b.value), LAMBDA t : t.id)
      skipped == Only(AsList(raw.skipped), LAMBDA s : s # Missing /\ s.id # Missing)
  IN [threads |-> threads, queue |-> queue, skipped |-> skipped,
      summary |-> [totalCandidates |-> Len(threads), totalSelected |-> Len(queue), totalSkipped |-> Len(skipped),
                   tokens |-> Total(worthIt, LAMBDA t : t.tokens),
                   avg |-> Average(Total(worthIt, LAMBDA t : t.value), Len(worthIt))],
      warnings |-> FromModel(raw) \cup ListWarning("threads", raw.threads)
                     \cup DropWarnings("threads", entries, UsableThread)]

-----------------------------------------------------------------------------
(* market-intel.opportunity-scoring and market-intel.ad-angles *)

ClampScore(v) == Clamp(1, 10, v, 5)
\* The total of the model when it gives one, else the weighted sum; not bounded above.
ValidateScoreBreakdown(s) ==
  IF s = Missing THEN 500
  ELSE IF s.total # Missing /\ s.total >= 0 THEN s.total
  ELSE 20 * ClampScore(s.volume) + 25 * ClampScore(s.intensity) + 30 * ClampScore(s.commercialIntent)
         + 15 * ClampScore(s.clarity) + 10 * ClampScore(s.uniqueness)

Named(x) == x # Missing /\ x.name = "given"
ScoreWarnings(list, entries) ==
  {Warning(list, i, "default") : i \in {j \in DOMAIN entries : Named(entries[j]) /\ entries[j].score = Missing}}

ValidateOpportunities(raw) ==
  LET communities == AsList(raw.communities)
      angles == AsList(raw.angles)
      Angle(i) == [segment |-> PickEnum(angles[i].segment, IntentStages, "researching"),
                   total |-> ValidateScoreBreakdown(angles[i].score),
                   priority |-> Clamp(1, 10, angles[i].priority, i), at |-> i]
  IN [communities |-> StableSort(Each(Only(communities, Named),
                                      LAMBDA c : [id |-> c.id, total |-> ValidateScoreBreakdown(c.score)]),
                                 LAMBDA a, b : a.total > b.total),
      angles |-> StableSort(Each(Only([i \in DOMAIN angles |-> i], LAMBDA i : Named(angles[i])), Angle),
                            LAMBDA a, b : a.priority < b.priority),
      warnings |-> FromModel(raw)
        \cup ListWarning("communities", raw.communities) \cup ListWarning("angles", raw.angles)
        \cup DropWarnings("communities", communities, Named) \cup DropWarnings("angles", angles, Named)
        \cup ScoreWarnings("communities", communities) \cup ScoreWarnings("angles", angles)]

UsableBrief(b) == Named(b) /\ b.corePain = "given"
ValidateBriefs(raw) ==
  LET entries == AsList(raw.briefs)
      briefs == StableSort(Each(Only(entries, UsableBrief), LAMBDA b :
                             [id |-> b.id, segment |-> PickEnum(b.segment, IntentStages, "researching"),
                              hooks |-> Texts(b.hooks), total |-> ValidateScoreBreakdown(b.score)]),
                           LAMBDA a, b : a.total > b.total)
  IN [briefs |-> briefs,
      segmentBreakdown |-> CountBy(briefs, IntentStages, LAMBDA b : b.segment),
      testingPriority |-> Only(AsList(raw.testing), LAMBDA t : t # Missing /\ t.id # Missing /\ t.reason # Missing),
      warnings |-> IF raw.briefs = Missing THEN ListWarning("briefs", Missing)
        ELSE FromModel(raw) \cup DropWarnings("briefs", entries, UsableBrief)
               \cup {Warning("briefs", i, "no hooks") :
                       i \in {j \in DOMAIN entries : UsableBrief(entries[j]) /\ Texts(entries[j].hooks) = <<>>}}]

-----------------------------------------------------------------------------
(* market-intel.audience-targeting *)

OnPlatform(x) == x # Missing /\ x.platform \in AdPlatforms
ValidateTarget(x, fallback) == [name |-> x.name, platform |-> PickEnum(x.platform, AdPlatforms, fallback)]
ValidatePlatformPack(p) ==
  LET Targets(x, fallback) == Each(Only(AsList(x), Named), LAMBDA t : ValidateTarget(t, fallback))
  IN [platform |-> p.platform,
      interests |-> Targets(p.interests, "meta"), keywords |-> Targets(p.keywords, "google"),
      communities |-> Targets(p.communities, "reddit"), audiences |-> Targets(p.audiences, "meta")]

\* A step without a phase gets the number of the next step that is kept.
TestingSequence(x) ==
  StableSort(FoldLeft(LAMBDA kept, s :
      IF ~OnPlatform(s) THEN kept
      ELSE Append(kept, [platform |-> s.platform,
                         phase |-> IF s.phase = Missing THEN Len(kept) + 1 ELSE IF s.phase < 1 THEN 1 ELSE s.phase]),
    <<>>, AsList(x)), LAMBDA a, b : a.phase < b.phase)

ValidateTargeting(raw) ==
  [packs |-> Each(Only(AsList(raw.packs), OnPlatform), ValidatePlatformPack),
   testingSequence |-> TestingSequence(raw.testing),
   budget |-> Each(Only(AsList(raw.budget), LAMBDA b : OnPlatform(b) /\ b.percentage # Missing),
                   LAMBDA b : [platform |-> b.platform, percentage |-> Clamp(0, 100, b.percentage, 0)]),
   warnings |-> FromModel(raw) \cup ListWarning("packs", raw.packs)
                  \cup DropWarnings("packs", AsList(raw.packs), OnPlatform)]

-----------------------------------------------------------------------------
(* A run of a node. *)

Error(code, retryable) == [status |-> "error", code |-> code, retryable |-> retryable]
Refused == Error("INVALID_INPUTS", FALSE)
Asking == [status |-> "asking"]
Success(outputs) == [status |-> "success", outputs |-> outputs]

MayRepair(ans) == Len(ans) = 1

\* What the node is at after the answers it has had: the inputs are checked
\* first, a reply that is not JSON is asked for once more, and the answers
\* are no more than two.  A second call that throws is a reply that is not JSON.
Asked(accepted, failure, ans, Outputs(_)) ==
  IF ~accepted THEN Refused
  ELSE IF ans = <<>> THEN Asking
  ELSE IF ans[1] = Thrown THEN Error(failure, TRUE)
  ELSE IF ans[1] # Prose THEN Success(Outputs(ans[1]))
  ELSE IF MayRepair(ans) THEN Asking
  ELSE IF ans[2] \in {Thrown, Prose} THEN Error("AI_OUTPUT_UNPARSEABLE", TRUE)
  ELSE Success(Outputs(ans[2]))

InContext(input) == input.icp = "given" /\ input.product = "given"

AiDiscovery(i, ans) == Asked(i.topic # "", "AI_DISCOVERY_FAILED", ans, ValidateDiscovery)
ContentExtraction(i, ans) ==
  Asked(i.html # "" /\ i.url # "", "CONTENT_EXTRACTION_FAILED", ans, LAMBDA raw : ValidateExtraction(raw, i))
VocExtraction(i, ans) == Asked(i.content # "" /\ InContext(i), "VOC_EXTRACTION_FAILED", ans, ValidateVoc)
CommunityRank(i, ans) ==
  Asked(i.candidates > 0 /\ InContext(i), "COMMUNITY_RANK_FAILED", ans, LAMBDA raw : ValidateRanking(raw, i.candidates))
QueryBuilder(i, ans) == Asked(InContext(i), "QUERY_BUILDER_FAILED", ans, ValidateQueries)
ThreadTriage(i, ans) == Asked(i.candidates > 0 /\ InContext(i), "THREAD_TRIAGE_FAILED", ans, ValidateTriage)
OpportunityScoring(i, ans) ==
  Asked(i.records > 0 /\ i.candidates > 0 /\ InContext(i), "OPPORTUNITY_SCORING_FAILED", ans, ValidateOpportunities)
AdAngles(i, ans) == Asked(InContext(i) /\ i.quotes > 0, "AD_ANGLES_FAILED", ans, ValidateBriefs)
AudienceTargeting(i, ans) ==
  Asked(i.platforms # {} /\ i.platforms \subseteq AdPlatforms /\ InContext(i), "AUDIENCE_TARGETING_FAILED", ans,
        ValidateTargeting)

Nodes == {"ai-discovery", "content-extraction", "voc-extraction", "community-rank", "query-builder",
          "thread-triage", "opportunity-scoring", "ad-angles", "audience-targeting"}

Outcome(n, i, ans) ==
  IF n = "ai-discovery" THEN AiDiscovery(i, ans)
  ELSE IF n = "content-extraction" THEN ContentExtraction(i, ans)
  ELSE IF n = "voc-extraction" THEN VocExtraction(i, ans)
  ELSE IF n = "community-rank" THEN CommunityRank(i, ans)
  ELSE IF n = "query-builder" THEN QueryBuilder(i, ans)
  ELSE IF n = "thread-triage" THEN ThreadTriage(i, ans)
  ELSE IF n = "opportunity-scoring" THEN OpportunityScoring(i, ans)
  ELSE IF n = "ad-angles" THEN AdAngles(i, ans)
  ELSE AudienceTargeting(i, ans)

Init ==
  /\ node \in Nodes /\ in \in Inputs(node) /\ answers = <<>>
  /\ result = Outcome(node, in, answers)

Answered(a) ==
  /\ result.status = "asking"
  /\ answers' = Append(answers, a)
  /\ result' = Outcome(node, in, answers')
  /\ UNCHANGED <<node, in>>

Parsed == \E raw \in Replies(node) : Answered(raw)
Unparseable == Answered(Prose)
CallThrows == Answered(Thrown)

Next == Parsed \/ Unparseable \/ CallThrows

Spec == Init /\ [][Next]_vars

-----------------------------------------------------------------------------
(* Properties. *)

Done == result.status = "success"
Raw == answers[Len(answers)]
Out == result.outputs

\* The lists whose entries a node checks one by one.
ReplyLists ==
  {<<"ai-discovery", "urls">>, <<"ai-discovery", "communities">>, <<"voc-extraction", "records">>,
   <<"community-rank", "selected">>, <<"query-builder", "groups">>, <<"query-builder", "competitors">>,
   <<"thread-triage", "threads">>, <<"opportunity-scoring", "communities">>, <<"opportunity-scoring", "angles">>,
   <<"ad-angles", "briefs">>, <<"audience-targeting", "packs">>}

\* A reply has lists where it has something for a list, and numbers where it has
\* something for a score or a relevance.
IsList(x) == x = Missing \/ x \in Seq(Range(x))
IsNumber(x) == x = Missing \/ x \in Int
WellFormed(n, raw) ==
  /\ \A l \in ReplyLists : l[1] = n => IsList(raw[l[2]])
  /\ n = "community-rank" => \A c \in Range(AsList(raw.selected)) : c # Missing => IsNumber(c.relevance)
  /\ n = "ad-angles" =>
       \A b \in Range(AsList(raw.briefs)) : b # Missing /\ b.score # Missing =>
         \A x \in {b.score.total, b.score.volume, b.score.intensity, b.score.commercialIntent, b.score.clarity, b.score.uniqueness} :
           IsNumber(x)
  /\ n = "query-builder" =>
       /\ \A g \in Range(AsList(raw.groups)) : g # Missing => IsList(g.variations)
       /\ \A c \in Range(AsList(raw.competitors)) : c # Missing =>
            IsList(c.comparison) /\ IsList(c.switching) /\ IsList(c.alternative)

ASSUME RepliesAssumption == \A n \in Nodes : \A raw \in Replies(n) : WellFormed(n, raw)

\* A summary counts what is in the outputs, not what the model claims or gave.
SummariesCountOutputs ==
  LET Sum(f) == Total(SetToSeq(DOMAIN f), LAMBDA v : f[v])
  IN Done =>
    /\ node = "voc-extraction" =>
         /\ Sum(Out.summary.tagDistribution) = Len(Out.records)
         /\ Sum(Out.summary.intentDistribution) = Len(Out.records)
         /\ Out.summary.highConfidenceCount <= Len(Out.records)
    /\ node = "community-rank" =>
         /\ Total(Out.platformCoverage, LAMBDA p : p.count) = Len(Out.selected)
         /\ \A i \in DOMAIN Out.platformCoverage :
              Out.platformCoverage[i].count <= Out.platformCoverage[1].count
         /\ \A c, d \in DOMAIN Out.platformCoverage :
              c # d => Out.platformCoverage[c].platform # Out.platformCoverage[d].platform
    /\ node = "query-builder" =>
         /\ Sum(Out.summary.queriesByIntent) = Len(Out.groups)
         /\ Out.summary.totalQueries >= Len(Out.groups)
    /\ node = "ad-angles" => Sum(Out.segmentBreakdown) = Len(Out.briefs)
=============================================================================
