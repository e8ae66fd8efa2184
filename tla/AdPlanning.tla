----------------------------- MODULE AdPlanning -----------------------------
(***************************************************************************)
(* The planning nodes of the ads studio, which call nothing: a brief is    *)
(* extracted from a page and built up, a plan of variants is created and   *)
(* expanded, a storyboard is checked and corrected, metrics are imported   *)
(* and the winners of tests summed up.  A step runs one node; the next     *)
(* step may feed its result to the node a workflow runs after it.          *)
(*                                                                         *)
(* A text is the sequence of its words, so a blank text is <<>>; a value   *)
(* of an axis, which ends up in a name, also holds its blanks and signs.   *)
(* An object is a function of the fields it has.  Missing stands for an    *)
(* absent or unusable value.  Durations are seconds, text scales           *)
(* hundredths.                                                             *)
(***************************************************************************)
EXTENDS Lists

CONSTANTS
  Missing,      \* no value, or a value of another type
  Inputs(_),    \* the inputs a node may be run with
  Lower(_),     \* a word in lower case
  Upper(_),     \* a word in upper case
  Title(_),     \* a word with its first letter in upper case
  Holds(_, _),  \* the letters of a word hold those of another one
  MaxRuns       \* bound on the nodes run one after the other

VARIABLE done   \* the nodes run so far: their names, inputs and outputs

Nodes == {"ads.brief.extract", "ads.brief.build", "ads.variant.plan", "ads.video.qa",
          "ads.winner.synthesize", "ads.metrics.import"}

Error(code) == [status |-> "error", code |-> code]
Get(r, f, default) == IF f \in DOMAIN r THEN r[f] ELSE default
Given(v, default) == IF v = Missing THEN default ELSE v
Lacks(r, f) == Get(r, f, <<>>) = <<>>
\* {...under, ...over}
Over(over, under) == [f \in DOMAIN over \cup DOMAIN under |-> IF f \in DOMAIN over THEN over[f] ELSE under[f]]
FlatEach(s, F(_)) == FlattenSeq(Each(s, F))
LowerCase(text) == Each(text, Lower)

\* Array.prototype.slice(0, n)
Slice(s, n) == SubSeq(s, 1, IF n < 0 THEN Len(s) + n ELSE IF n < Len(s) THEN n ELSE Len(s))

-----------------------------------------------------------------------------
(* ads.brief.extract *)

\* Texts that differ in case only are one; the first of them stays.
BriefDedupe(texts) ==
  LET New(i) == texts[i] # <<>> /\ \A j \in 1..i - 1 : LowerCase(texts[j]) # LowerCase(texts[i])
      at == Only([i \in DOMAIN texts |-> i], New)
  IN Each(at, LAMBDA i : texts[i])

TextField(content, field) == IF Lacks(content, field) THEN <<>> ELSE <<content[field]>>
TextFields(content, fields) == FlatEach(fields, LAMBDA f : TextField(content, f))
Objects(list) == Only(list, LAMBDA item : item # Missing)
ArrayItems(list, fields) == FlatEach(Objects(list), LAMBDA item : TextFields(item, fields))
\* content.plans || content.items: an array that is there counts, an empty one too.
OwnOrItems(content, own) == Get(content, own, Get(content, "items", <<>>))

BulletPoints(type, content) ==
  CASE type = "features" ->
         ArrayItems(Get(content, "features", <<>>), <<"title", "description">>)
           \o ArrayItems(Get(content, "items", <<>>), <<"title", "description">>)
    [] type = "pricing" ->
         FlatEach(Objects(OwnOrItems(content, "plans")),
                  LAMBDA plan : ArrayItems(Get(plan, "features", <<>>), <<"text", "name">>))
    [] type = "faq" -> ArrayItems(Get(content, "items", <<>>), <<"question">>)
    [] OTHER -> <<>>

Descriptions(type, content) ==
  TextFields(content, <<"subheadline", "subtitle", "description", "bodyText">>)
    \o (IF type = "hero" THEN TextField(content, "tagline") ELSE <<>>)

Quotes(section) ==
  IF section.type # "testimonials" THEN <<>> ELSE
    FlatEach(Objects(OwnOrItems(section.content, "testimonials")),
             LAMBDA t : (IF "quote" \in DOMAIN t THEN <<t.quote>> ELSE <<>>)
                          \o (IF "text" \in DOMAIN t THEN <<t.text>> ELSE <<>>))

Stats(section) ==
  LET Value(s) == Get(s, "value", Get(s, "number", Missing))
      Label(s) == Get(s, "label", Get(s, "title", Missing))
      whole == Only(Objects(OwnOrItems(section.content, "stats")),
                         LAMBDA s : Value(s) # Missing /\ Label(s) # Missing)
  IN IF section.type # "stats" THEN <<>> ELSE Each(whole, LAMBDA s : Value(s) \o Label(s))

RawContent(sections) ==
  [headlines |-> BriefDedupe(FlatEach(sections, LAMBDA s : TextFields(s.content, <<"headline", "title">>))),
   sellingPoints |-> BriefDedupe(FlatEach(sections, LAMBDA s : BulletPoints(s.type, s.content))
                                   \o FlatEach(sections, LAMBDA s : Descriptions(s.type, s.content))),
   stats |-> FlatEach(sections, Stats),
   testimonials |-> FlatEach(sections, Quotes)]

Quoted(text) == <<"quoted">> \o text
SellingPoints(raw) == Slice(BriefDedupe(raw.sellingPoints \o raw.stats \o Each(raw.testimonials, Quoted)), 10)

DefaultAngles(raw, objective, count) ==
  LET When(condition, angle) == IF condition THEN <<angle>> ELSE <<>>
  IN Slice(When(raw.headlines # <<>>, "Value Proposition")
             \o When(raw.testimonials # <<>>, "Social Proof")
             \o When(raw.stats # <<>>, "Authority/Data")
             \o When(objective \in {"conversions", "sales"}, "Urgency/Scarcity")
             \o When(Len(raw.sellingPoints) > 2, "Problem/Solution"), count)

InferTone(raw, context) ==
  LET Says(words) == \E i \in DOMAIN (raw.headlines \o raw.sellingPoints) :
                       LET text == LowerCase((raw.headlines \o raw.sellingPoints)[i])
                       IN \E j \in DOMAIN text : \E w \in words : Holds(text[j], w)
  IN CASE ~Lacks(context, "brandVoice") -> context.brandVoice
       [] OTHER -> IF Says({"free", "limited", "now"}) THEN <<"urgent">>
                   ELSE IF Says({"enterprise", "professional", "trusted"}) THEN <<"professional">>
                   ELSE IF Says({"fun", "easy", "simple"}) THEN <<"casual">> ELSE <<"professional">>

BriefExtract(in) ==
  IF ~in.pageId \/ in.sections = Missing THEN Error("INVALID_INPUTS")
  ELSE IF in.sections = <<>> THEN Error("EMPTY_SECTIONS")
  ELSE
    LET raw == RawContent(in.sections)
        objective == Given(in.objective, "conversions")
        audience == Get(in.contentContext, "targetAudience", <<>>)
    IN [status |-> "success",
        brief |-> [sellingPoints |-> SellingPoints(raw),
                   targetAudience |-> IF audience = <<>> THEN <<"General audience">> ELSE audience,
                   tone |-> InferTone(raw, in.contentContext),
                   goal |-> objective,
                   angles |-> DefaultAngles(raw, objective, Given(in.angleCount, Given(in.defaultAngleCount, 3)))]]

-----------------------------------------------------------------------------
(* ads.brief.build *)

OptionalFields == {"icp", "offer", "positioning", "messageRules", "assetRefs", "platformTargets", "primaryKpis"}

FieldDefaults ==
  [icp |-> [painPoints |-> <<>>, desiredOutcomes |-> <<>>, objections |-> <<>>],
   offer |-> [promise |-> <<>>, proofPoints |-> <<>>, deliverables |-> <<>>, ctaPrimary |-> <<"Learn More">>],
   positioning |-> [angleName |-> <<>>, differentiators |-> <<>>],
   messageRules |-> [tone |-> <<"professional">>, taboos |-> <<>>, doSay |-> <<>>, dontSay |-> <<>>,
                     claimsPolicy |-> <<"default">>],
   assetRefs |-> [logos |-> <<>>, screenshots |-> <<>>, productImages |-> <<>>, icons |-> <<>>]]

ResolvedFields(given) ==
  [f \in OptionalFields \cap DOMAIN given |->
     IF f \in DOMAIN FieldDefaults THEN Over(given[f], FieldDefaults[f]) ELSE given[f]]

FromExtraction(base, given) == Over(ResolvedFields(given), base)
MergeEverything(existing, partial) == Over(partial, existing) \* Faulty variant: whatever the input holds replaces the brief
Merge(existing, partial) == Over([f \in OptionalFields \cap DOMAIN partial |-> partial[f]], existing)

Manual(given) ==
  Over(ResolvedFields(given),
       [sellingPoints |-> given.sellingPoints,
        targetAudience |-> Get(given, "targetAudience", <<>>),
        tone |-> Get(given, "tone", <<"professional">>),
        goal |-> Get(given, "goal", Missing),
        angles |-> Get(given, "angles", <<>>)])

Issue(condition, field, severity) == IF condition THEN {<<field, severity>>} ELSE {}

ValidateBrief(brief) ==
  LET Part(f) == Get(brief, f, <<>>)
  IN UNION {Issue(Lacks(brief, "sellingPoints"), "sellingPoints", "error"),
            Issue(Lacks(brief, "targetAudience"), "targetAudience", "error"),
            Issue(Lacks(brief, "angles"), "angles", "warning"),
            Issue("offer" \in DOMAIN brief /\ Lacks(Part("offer"), "promise"), "offer.promise", "error"),
            Issue("offer" \in DOMAIN brief /\ Lacks(Part("offer"), "ctaPrimary"), "offer.ctaPrimary", "warning"),
            Issue("icp" \in DOMAIN brief /\ Lacks(Part("icp"), "personaName"), "icp.personaName", "warning"),
            Issue("icp" \in DOMAIN brief /\ Lacks(Part("icp"), "painPoints"), "icp.painPoints", "warning"),
            Issue("platformTargets" \in DOMAIN brief /\ Lacks(brief, "platformTargets"), "platformTargets", "warning")}

Built(brief, validate) ==
  [status |-> "success", brief |-> brief, issues |-> IF validate THEN ValidateBrief(brief) ELSE {}]
NotBuilt(field) == [status |-> "success", issues |-> {<<field, "none">>}]

BriefBuild(in) ==
  LET given == Given(in.briefInput, <<>>)
  IN IF in.mode = "extraction" /\ in.baseBrief # Missing
       THEN Built(FromExtraction(in.baseBrief, given), in.validateOutput)
     ELSE IF in.mode = "merge" /\ in.baseBrief # Missing
       THEN Built(Merge(in.baseBrief, given), in.validateOutput)
     ELSE IF in.briefInput = Missing THEN NotBuilt("briefInput")
     ELSE IF "sellingPoints" \notin DOMAIN given THEN NotBuilt("_executor")
     ELSE Built(Manual(given), in.validateOutput)

-----------------------------------------------------------------------------
(* ads.variant.plan.  A combination maps dimensions to values. *)

CreateVariantPlan(in) ==
  [axes |-> in.axes,
   maxVariantsTotal |-> Given(in.maxVariants, 20),
   strategy |-> Given(in.strategy, "balanced"),
   focusAxis |-> in.focusAxis,
   naming |-> Over(in.namingConvention, [pattern |-> "dimension_values", separator |-> "_", caseStyle |-> "lowercase"]),
   constraints |-> in.constraints]

\* Each value of an axis in front of each of the combinations, which keep the dimensions they have.
WithAxis(axis, combos) ==
  FlatEach(axis.values, LAMBDA v : Each(combos, LAMBDA combo : Over(combo, [d \in {axis.dimension} |-> v])))
\* The first axis varies slowest; of two axes with one dimension the later one counts.
CartesianProduct(axes) ==
  LET product[n \in 0..Len(axes)] ==  \* of the last n axes
        IF n = 0 THEN << <<>> >> ELSE WithAxis(axes[Len(axes) - n + 1], product[n - 1])
  IN product[Len(axes)]

CountCombinations(axes) ==
  LET count[n \in 0..Len(axes)] ==  \* of the first n axes
        IF n = 0 THEN 1 ELSE count[n - 1] * (IF axes[n].values = <<>> THEN 1 ELSE Len(axes[n].values))
  IN IF axes = <<>> THEN 0 ELSE count[Len(axes)]

Incompatible(c, combo) ==
  /\ c.type = "incompatible" /\ c.values # Missing /\ Len(c.axes) >= 2
  /\ \A i \in DOMAIN c.axes : Contains(c.values, Get(combo, c.axes[i], <<>>))
RequirementReversed(c, combo) == c.type = "requires" /\ Len(c.axes) >= 2 /\ Len(Given(c.values, <<>>)) >= 2 /\ Get(combo, c.axes[2], Missing) = c.values[2] /\ Get(combo, c.axes[1], Missing) # c.values[1] \* Faulty variant: the two axes swapped
RequiredIsMissing(c, combo) ==
  /\ c.type = "requires" /\ Len(c.axes) >= 2 /\ c.values # Missing /\ Len(Given(c.values, <<>>)) >= 2
  /\ Get(combo, c.axes[1], Missing) = c.values[1]
  /\ Get(combo, c.axes[2], Missing) # c.values[2]
ApplyConstraints(combos, constraints) ==
  Only(combos, LAMBDA combo : \A i \in DOMAIN constraints :
                      ~Incompatible(constraints[i], combo) /\ ~RequiredIsMissing(constraints[i], combo))

\* The first value of each dimension, of the last axis that has the dimension and any value.
ControlValues(axes) ==
  LET With(d) == {i \in DOMAIN axes : axes[i].values # <<>> /\ axes[i].dimension = d}
      dims == {axes[i].dimension : i \in {k \in DOMAIN axes : axes[k].values # <<>>}}
  IN [d \in dims |-> Head(axes[Max(With(d))].values)]
FocusOnlyVariation(combo, focus, control) == \A d \in DOMAIN combo \ {focus} : combo[d] = control[d]
FocusedStrategy(combos, focus, axes) ==
  LET Focused(combo) == FocusOnlyVariation(combo, focus, ControlValues(axes))
  IN Only(combos, Focused) \o Only(combos, LAMBDA combo : ~Focused(combo))

\* How often the values of a combination have been chosen already.
Used(combo, chosen) == Cardinality({p \in (DOMAIN combo) \X (DOMAIN chosen) : chosen[p[2]][p[1]] = combo[p[1]]})
TruncateFromTheFront(combos, max) == Slice(combos, max) \* Faulty variant: keeps the first ones
\* The place of the first of the combinations left whose values are used least.
NextPlace(combos, places) ==
  LET left == DOMAIN combos \ Range(places)
      Score(k) == Used(combos[k], Each(places, LAMBDA i : combos[i]))
  IN CHOOSE k \in left : \A j \in left : Score(k) < Score(j) \/ (Score(k) = Score(j) /\ k <= j)
BalancedTruncate(combos, max) ==
  LET places[n \in 0..Len(combos)] ==
        IF n = 0 THEN <<>> ELSE Append(places[n - 1], NextPlace(combos, places[n - 1]))
  IN IF Len(combos) <= max THEN combos ELSE Each(places[IF max < 0 THEN 0 ELSE max], LAMBDA i : combos[i])

DimensionsInOrder(axes) ==
  LET at == Only([i \in DOMAIN axes |-> i], LAMBDA i : \A j \in 1..i - 1 : axes[j].dimension # axes[i].dimension)
  IN Each(at, LAMBDA i : axes[i].dimension)

\* Of a run of signs like t only the first stays.
Squeezed(text, t) == FlattenSeq([i \in DOMAIN text |-> IF i > 1 /\ text[i] = t /\ text[i - 1] = t THEN <<>> ELSE <<text[i]>>])
Replaced(text, t, by) == Each(text, LAMBDA x : IF x = t THEN by ELSE x)
Joined(combo, dims, separator) ==
  FlattenSeq([i \in DOMAIN dims |-> IF i = 1 THEN combo[dims[i]] ELSE <<separator>> \o combo[dims[i]]])
\* A word behind an underscore does not begin a word to a regular expression.
Cased(text, style) ==
  CASE style \in {"lowercase", "kebab"} -> LowerCase(text)
    [] style = "uppercase" -> Each(text, Upper)
    [] style = "titlecase" -> [i \in DOMAIN text |-> IF i > 1 /\ text[i - 1] = "_" THEN text[i] ELSE Title(text[i])]
    [] OTHER -> text

SlugOfAllButTheLast(combo, dims, naming) == Squeezed(Replaced(Squeezed(Cased(Joined(combo, Slice(dims, -1), naming.separator), naming.caseStyle), " "), " ", naming.separator), naming.separator) \* Faulty variant: the last value is left out
\* The pattern is the values of the combination, joined by the separator, or the value of one dimension.
Slug(combo, dims, naming) ==
  LET text == IF naming.pattern = "dimension_values" THEN Joined(combo, dims, naming.separator)
              ELSE Get(combo, naming.pattern, <<naming.pattern>>)
      cased == Squeezed(Cased(text, naming.caseStyle), " ")
      blank == IF naming.caseStyle = "kebab" THEN "-" ELSE naming.separator
  IN Squeezed(Replaced(cased, " ", blank), naming.separator)

GenerateVariantMatrix(plan) ==
  LET allowed == ApplyConstraints(CartesianProduct(plan.axes), plan.constraints)
      ordered == IF plan.strategy = "focused" /\ plan.focusAxis # Missing
                 THEN FocusedStrategy(allowed, plan.focusAxis, plan.axes) ELSE allowed
      kept == IF Len(ordered) <= plan.maxVariantsTotal THEN ordered
              ELSE IF plan.strategy = "balanced" THEN BalancedTruncate(ordered, plan.maxVariantsTotal)
              ELSE Slice(ordered, plan.maxVariantsTotal)
      dims == DimensionsInOrder(plan.axes)
  IN IF plan.axes = <<>> THEN <<>>
     ELSE Each(kept, LAMBDA combo : [axisValues |-> combo, slug |-> Slug(combo, dims, plan.naming)])

PlanIssues(plan) ==
  LET dims == {plan.axes[i].dimension : i \in DOMAIN plan.axes}
  IN UNION {Issue(plan.axes = <<>>, "variantAxes", "error"),
            Issue("" \in dims, "variantAxes.dimension", "error"),
            Issue(\E i \in DOMAIN plan.axes : Len(plan.axes[i].values) < 2, "variantAxes.values", "warning"),
            Issue(Cardinality(dims) < Len(plan.axes), "variantAxes.duplicate", "error"),
            Issue(plan.maxVariantsTotal < 1, "maxVariantsTotal", "error"),
            Issue(plan.strategy = "focused" /\ plan.focusAxis \notin dims, "focusAxis", "error"),
            Issue(\E i \in DOMAIN plan.constraints : \E j \in DOMAIN plan.constraints[i].axes :
                    plan.constraints[i].axes[j] \notin dims, "constraints", "warning"),
            Issue(CountCombinations(plan.axes) > 1000, "variantAxes.many", "warning")}
ValidateVariantPlan(plan) ==
  LET count == CountCombinations(plan.axes)
  IN [valid |-> \A issue \in PlanIssues(plan) : issue[2] # "error", issues |-> PlanIssues(plan),
      estimatedVariantCount |-> IF count < plan.maxVariantsTotal THEN count ELSE plan.maxVariantsTotal]

WithValidation(plan) == Over([status |-> "success", plan |-> plan], ValidateVariantPlan(plan))
VariantPlan(in) ==
  IF in.mode = "generate" THEN
    IF in.plan = Missing THEN [status |-> "success", variants |-> <<>>, error |-> "plan is required"]
    ELSE IF in.plan.naming.separator = "" /\ GenerateVariantMatrix(in.plan) # <<>>  \* no regular expression for it
      THEN Error("VARIANT_PLAN_FAILED")
    ELSE [status |-> "success", plan |-> in.plan, variants |-> GenerateVariantMatrix(in.plan)]
  ELSE IF in.mode = "validate" THEN
    IF in.plan = Missing THEN [status |-> "success", valid |-> FALSE] ELSE WithValidation(in.plan)
  ELSE IF ~in.briefId \/ in.axes = Missing THEN [status |-> "success", plan |-> Missing, error |-> "axes are required"]
  ELSE WithValidation(CreateVariantPlan(in))

-----------------------------------------------------------------------------
(* ads.video.qa.  A check names what it looked at, whether it passed, how bad that is, and its fix. *)

Check(name, scene, passed, severity, fix) ==
  [name |-> name, scene |-> scene, passed |-> passed, severity |-> severity, fix |-> fix]
Passed(name, scene) == Check(name, scene, TRUE, "info", Missing)
Fails(condition, name, scene, severity, fix) ==
  IF condition THEN <<Check(name, scene, FALSE, severity, fix)>> ELSE <<>>
OrPassed(checks, name) == IF checks = <<>> THEN <<Passed(name, 0)>> ELSE checks

PacingFixRoundedDown(words) == words \div 4 \* Faulty variant: the slowest pace that is too fast, rounded down
PacingFix(words) == (words + 2) \div 3

SceneLegibility(scene, i, minScale) ==
  IF scene.overlay = Missing THEN <<>> ELSE
    (IF scene.overlay.words > 4 * scene.duration
       THEN <<Check("Text reading speed", i, FALSE, "warning", [type |-> "editPacing", value |-> PacingFix(scene.overlay.words)])>>
       ELSE <<Passed("Text reading speed", i)>>)
    \o (IF scene.scale = Missing THEN <<>> ELSE
          Fails(scene.scale < minScale, "Text scale", i, "warning", [type |-> "editTextScale", value |-> minScale]))

CheckLegibility(storyboard, options) ==
  FlattenSeq([i \in DOMAIN storyboard.scenes |->
                SceneLegibility(storyboard.scenes[i], i, Given(options.minTextScaleRatio, 4))])

CheckSafeZones(storyboard, options) ==
  LET bottom == \E z \in options.safeZones : z.top >= 70
      top == \E z \in options.safeZones : z.top <= 15 /\ z.height >= 10
      Scene(i) ==
        LET scene == storyboard.scenes[i]
        IN Fails(scene.contentType = "cta" /\ scene.overlay # Missing /\ bottom, "CTA safe zone", i, "warning", Missing)
             \o Fails(i = 1 /\ scene.overlay # Missing /\ top, "Opening text safe zone", i, "info", Missing)
  IN IF options.safeZones = {} THEN <<>>
     ELSE OrPassed(FlattenSeq([i \in DOMAIN storyboard.scenes |-> Scene(i)]), "Safe zone compliance")

Shorten(to) == [type |-> "shortenDuration", value |-> to]
CheckDuration(storyboard, options) ==
  LET spec == options.videoSpec
      total == storyboard.totalDuration
  IN IF spec = Missing THEN <<>> ELSE
       (IF total < spec.minDuration THEN <<Check("Minimum duration", 0, FALSE, "error", Missing)>>
        ELSE IF total > spec.maxDuration THEN <<Check("Maximum duration", 0, FALSE, "error", Shorten(spec.maxDuration))>>
        ELSE <<Passed("Duration compliance", 0)>>)
       \o Fails(Given(spec.recommendedDuration, 0) > 0 /\ 2 * total > 3 * Given(spec.recommendedDuration, 0),
                "Recommended duration", 0, "warning", Shorten(spec.recommendedDuration))

Parts(scene) == Only(<<scene.overlay, scene.voiceover>>, LAMBDA part : part # Missing)
CheckTextDensity(storyboard, options) ==
  LET Scene(i) ==
        LET parts == Parts(storyboard.scenes[i])
        IN Fails(Total(parts, LAMBDA p : p.chars) > Given(options.maxCharsPerScene, 120), "Text character count", i, "warning", Missing)
             \o Fails(Len(parts) > Given(options.maxTextBlocksPerScene, 2), "Text block count", i, "warning", Missing)
  IN OrPassed(FlattenSeq([i \in DOMAIN storyboard.scenes |-> Scene(i)]), "Text density")

\* The host's checker finds the claims of each part; what is to be blocked is fixed by emptying the overlay.
CheckClaims(storyboard, options) ==
  LET Issues(i) == Only(Parts(storyboard.scenes[i]), LAMBDA p : p.claim # "none")
      Scene(i) == Each(Issues(i), LAMBDA p :
                    IF p.claim = "block" THEN Check("Claims", i, FALSE, "error", [type |-> "updateText", value |-> 0])
                    ELSE Check("Claims", i, FALSE, "warning", Missing))
  IN IF ~options.claimsChecked THEN <<>>
     ELSE OrPassed(FlattenSeq([i \in DOMAIN storyboard.scenes |-> Scene(i)]), "Claims compliance")

Score(checks) ==
  LET passed == Len(Only(checks, LAMBDA c : c.passed))
      Failed(severity) == Len(Only(checks, LAMBDA c : ~c.passed /\ c.severity = severity))
      points == 100 * passed - 20 * Failed("error") - 5 * Failed("warning")
      rounded == (2 * points + Len(checks)) \div (2 * Len(checks))
  IN IF checks = <<>> THEN 100 ELSE IF rounded < 0 THEN 0 ELSE rounded

RunVideoQA(storyboard, options) ==
  LET checks == CheckLegibility(storyboard, options) \o CheckSafeZones(storyboard, options)
                  \o CheckDuration(storyboard, options) \o CheckTextDensity(storyboard, options)
                  \o CheckClaims(storyboard, options)
  IN [status |-> "success", checks |-> checks, overallScore |-> Score(checks),
      passed |-> \A i \in DOMAIN checks : checks[i].passed \/ checks[i].severity # "error"]

VideoQA(in) ==
  IF in.storyboard = Missing THEN Error("MISSING_STORYBOARD") ELSE RunVideoQA(in.storyboard, in.options)

\* What an editor does with a suggested fix.
ApplyFix(storyboard, check) ==
  LET i == check.scene
      scene == storyboard.scenes[i]
  IN IF check.fix.type = "editPacing"
       THEN [storyboard EXCEPT !.scenes[i].duration = check.fix.value, !.totalDuration = @ + check.fix.value - scene.duration]
     ELSE IF check.fix.type = "editTextScale" THEN [storyboard EXCEPT !.scenes[i].scale = check.fix.value]
     ELSE IF check.fix.type = "updateText" THEN [storyboard EXCEPT !.scenes[i].overlay = Missing]
     ELSE [storyboard EXCEPT !.totalDuration = check.fix.value]

-----------------------------------------------------------------------------
(* ads.winner.synthesize *)

DimensionMetrics == [copy |-> "ctr", creative |-> "ctr", targeting |-> "conversion_rate", combined |-> "roas"]
DefaultDimensions == <<"copy", "creative", "targeting", "combined">>
TestTotals == {"totalImpressions", "totalClicks", "totalConversions", "totalSpend"}

AggregateStats(tests) ==
  LET won == Only(tests, LAMBDA t : t.improvement # Missing)
  IN [totals |-> [f \in TestTotals |-> Total(tests, LAMBDA t : t.totals[f])],
      totalTests |-> Len(tests),
      testsWithWinner |-> Len(won),
      testsWithoutWinner |-> Len(tests) - Len(won),
      improvements |-> Total(won, LAMBDA t : t.improvement)]

\* The average improvement, averaged over the tests that have a winner, is more than n percent.
AverageAbove(stats, n) == stats.improvements > n * stats.testsWithWinner

SynthesisInsights(tests, stats) ==
  LET Insight(condition, type) == IF condition THEN <<type>> ELSE <<>>
  IN Insight(stats.testsWithWinner > 0, "winner")
       \o Insight(stats.testsWithoutWinner > 0, "no_winner")
       \o Insight(\E i \in DOMAIN tests : tests[i].recommendation = "needs_more_data", "low_data")
       \o Insight(AverageAbove(stats, 20), "trend")
       \o Insight(stats.improvements > 0 /\ ~AverageAbove(stats, 5), "efficiency")

Has(list, dim) == \E i \in DOMAIN list : list[i].dimension = dim
Suggest(list, dim, platform) ==
  Append(list, [dimension |-> dim, metric |-> Get(DimensionMetrics, dim, Missing), priority |-> Len(list) + 1, platform |-> platform])
SuggestNextTests(stats, platform, priority) ==
  LET first == IF stats.testsWithWinner > 0 THEN <<>>
               ELSE Suggest(<<>>, IF priority = <<>> THEN "copy" ELSE Head(priority), platform)
      suggested[n \in 0..Len(priority)] ==
        IF n = 0 THEN first
        ELSE IF Len(suggested[n - 1]) >= 3 \/ Has(suggested[n - 1], priority[n]) THEN suggested[n - 1]
        ELSE Suggest(suggested[n - 1], priority[n], platform)
      ordered == suggested[Len(priority)]
  IN IF AverageAbove(stats, 10) /\ ~Has(ordered, "combined") THEN Suggest(ordered, "combined", platform) ELSE ordered

Synthesize(in) ==
  LET stats == AggregateStats(in.testResults)
  IN [status |-> "success", stats |-> stats, insights |-> SynthesisInsights(in.testResults, stats),
      nextTests |-> SuggestNextTests(stats, IF in.platforms = <<>> THEN Missing ELSE Head(in.platforms),
                                     Given(in.dimensionPriority, DefaultDimensions))]

\* The list of platforms is read before anything is checked of it.
WinnerSynthesize(in) ==
  IF in.testResults = Missing \/ in.testResults = <<>> THEN Error("MISSING_TEST_RESULTS")
  ELSE IF in.platforms = Missing THEN [status |-> "thrown"]
  ELSE Synthesize(in)

-----------------------------------------------------------------------------
(* ads.metrics.import *)

CoreMetrics == {"spend", "impressions", "clicks", "conversions", "conversionValue"}
EntityTypes == {"campaign", "ad", "variant"}
ClampNonNeg(v) == IF v = Missing \/ Given(v, 0) < 0 THEN 0 ELSE v

UsableSnapshot(s) == s # Missing /\ s.entityId \notin {Missing, ""} /\ s.platform \notin {Missing, ""}
ValidateSnapshot(s) ==
  [s EXCEPT !.metrics = [m \in CoreMetrics |-> ClampNonNeg(Get(s.metrics, m, Missing))],
            !.entityType = IF @ \in EntityTypes THEN @ ELSE "ad"]

FilterByStartOnly(snapshots, in) == Only(snapshots, LAMBDA s : s.entityId \in in.platformAdIds /\ (in.platform = Missing \/ s.platform = in.platform) /\ (in.dateRange.start = "" \/ s.dateRange.start = in.dateRange.start)) \* Faulty variant: the end of the range is not compared
FilterByAdIds(snapshots, in) ==
  Only(snapshots, LAMBDA s :
    /\ s.entityId \in in.platformAdIds
    /\ in.platform = Missing \/ s.platform = in.platform
    /\ \/ in.dateRange.start = "" \/ in.dateRange.end = ""
       \/ s.dateRange.start = in.dateRange.start /\ s.dateRange.end = in.dateRange.end)

\* A rate is kept as what is divided by what, and is 0 when there is nothing to divide by.
Rate(a, b) == IF b > 0 THEN <<a, b>> ELSE <<0, 1>>
Aggregate(snapshots) ==
  LET total == [m \in CoreMetrics |-> Total(snapshots, LAMBDA s : s.metrics[m])]
  IN [total |-> total,
      overallCtr |-> Rate(100 * total["clicks"], total["impressions"]),
      overallCpc |-> Rate(total["spend"], total["clicks"]),
      overallRoas |-> Rate(total["conversionValue"], total["spend"]),
      overallConversionRate |-> Rate(100 * total["conversions"], total["clicks"]),
      byPlatform |-> [p \in {snapshots[i].platform : i \in DOMAIN snapshots} |->
                       snapshots[Max({i \in DOMAIN snapshots : snapshots[i].platform = p})]]]

MetricsImport(in) ==
  LET snapshots == Given(in.snapshots, <<>>)
      validated == Each(Only(snapshots, UsableSnapshot), ValidateSnapshot)
      matched == FilterByAdIds(validated, in)
      Imported(kept, dropped, warnings) ==
        [status |-> "success", snapshots |-> kept, aggregated |-> Aggregate(kept), matchedCount |-> Len(kept),
         droppedCount |-> dropped, warnings |-> warnings]
  IN IF snapshots = <<>> THEN Imported(<<>>, 0, {0})
     ELSE IF in.platformAdIds = {} THEN Error("INVALID_INPUTS")
     ELSE Imported(matched, Len(validated) - Len(matched), {i \in DOMAIN snapshots : ~UsableSnapshot(snapshots[i])})

-----------------------------------------------------------------------------
Outcome(n, in) ==
  IF n = "ads.brief.extract" THEN BriefExtract(in)
  ELSE IF n = "ads.brief.build" THEN BriefBuild(in)
  ELSE IF n = "ads.variant.plan" THEN VariantPlan(in)
  ELSE IF n = "ads.video.qa" THEN VideoQA(in)
  ELSE IF n = "ads.winner.synthesize" THEN WinnerSynthesize(in)
  ELSE MetricsImport(in)

\* What a node is handed is made of what its schema says it is.
IsTextList(texts) == texts \in Seq(Range(texts)) /\ \A text \in Range(texts) : text \in Seq(Range(text))
IsAxes(axes) ==
  /\ axes \in Seq(Range(axes))
  /\ \A axis \in Range(axes) : axis.dimension # Missing /\ IsTextList(axis.values)
IsPlan(plan) == IsAxes(plan.axes) /\ plan.maxVariantsTotal \in Int
IsScene(scene) ==
  /\ scene = [overlay |-> scene.overlay, voiceover |-> scene.voiceover, duration |-> scene.duration,
              scale |-> scene.scale, contentType |-> scene.contentType]
  /\ scene.overlay = Missing \/ scene.overlay.words \in Nat
  /\ scene.duration \in Nat
IsStoryboard(storyboard) ==
  /\ storyboard = [scenes |-> storyboard.scenes, totalDuration |-> storyboard.totalDuration]
  /\ storyboard.scenes \in Seq(Range(storyboard.scenes)) /\ \A scene \in Range(storyboard.scenes) : IsScene(scene)
IsVideoSpec(spec) == spec.maxDuration \in Int /\ spec.recommendedDuration \in Int \cup {Missing}
IsSnapshot(s) ==
  /\ s = [entityId |-> s.entityId, platform |-> s.platform, entityType |-> s.entityType, dateRange |-> s.dateRange,
          metrics |-> s.metrics]
  /\ \A m \in DOMAIN s.metrics : s.metrics[m] \in Int \cup {Missing}

IsInput(n, in) ==
  /\ n = "ads.brief.build" =>
       /\ in = [mode |-> in.mode, baseBrief |-> in.baseBrief, briefInput |-> in.briefInput, validateOutput |-> in.validateOutput]
       /\ in.mode \in {"manual", "extraction", "merge"}
  /\ n = "ads.variant.plan" =>
       \/ in.mode \in {"generate", "validate"} /\ (in.plan = Missing \/ IsPlan(in.plan))
       \/ /\ in.mode = "create"
          /\ ~in.briefId \/ in.axes = Missing \/ (IsAxes(in.axes) /\ in.maxVariants \in Int \cup {Missing})
  /\ n = "ads.video.qa" =>
       /\ in = [storyboard |-> in.storyboard, options |-> in.options]
       /\ in.storyboard = Missing \/ IsStoryboard(in.storyboard)
       /\ in.options.minTextScaleRatio \in Int \cup {Missing}
       /\ in.options.videoSpec = Missing \/ IsVideoSpec(in.options.videoSpec)
  /\ n = "ads.winner.synthesize" =>
       /\ in.testResults = Missing \/ in.testResults \in Seq(Range(in.testResults))
       /\ in.dimensionPriority = Missing \/ in.dimensionPriority \in Seq(Range(in.dimensionPriority))
  /\ n = "ads.metrics.import" =>
       \/ in.snapshots = Missing
       \/ /\ in.snapshots \in Seq(Range(in.snapshots))
          /\ \A s \in Range(in.snapshots) : s = Missing \/ IsSnapshot(s)
ASSUME InputsAssumption == \A n \in Nodes : \A in \in Inputs(n) : IsInput(n, in)

Run(n, in) == done' = Append(done, [node |-> n, in |-> in, out |-> Outcome(n, in)])
Previous == done[Len(done)]
After(n) == done # <<>> /\ Len(done) < MaxRuns /\ Previous.node = n /\ Previous.out.status = "success"

Init == done = <<>>

RunNode == done = <<>> /\ \E n \in Nodes : \E in \in Inputs(n) : Run(n, in)

\* The brief of a page is built up with the fields a user gives.
BuildOnPage ==
  /\ After("ads.brief.extract")
  /\ \E in \in Inputs("ads.brief.build") :
       in.mode # "manual" /\ Run("ads.brief.build", [in EXCEPT !.baseBrief = Previous.out.brief])

\* A plan that was created is expanded, whatever its validation said.
ExpandPlan ==
  /\ After("ads.variant.plan") /\ Previous.in.mode = "create" /\ Previous.out.plan # Missing
  /\ Run("ads.variant.plan", [mode |-> "generate", plan |-> Previous.out.plan])

\* One suggested fix is applied and the storyboard checked again.
FixStoryboard ==
  /\ After("ads.video.qa")
  /\ \E i \in DOMAIN Previous.out.checks :
       /\ Previous.out.checks[i].fix # Missing
       /\ Run("ads.video.qa", [Previous.in EXCEPT !.storyboard = ApplyFix(@, Previous.out.checks[i])])

Next == RunNode \/ BuildOnPage \/ ExpandPlan \/ FixStoryboard
Spec == Init /\ [][Next]_done

-----------------------------------------------------------------------------
(* Properties *)

RunsOf(n) == {i \in DOMAIN done : done[i].node = n /\ done[i].out.status = "success"}

\* Building a brief on one that exists changes the seven optional fields and nothing else: a user who fills in an
\* offer loses neither the selling points of the page nor the optional fields given before, even when the input
\* names other fields; and a build that gives no brief says which field is to blame.
BriefKeepsItsCore ==
  \A i \in RunsOf("ads.brief.build") :
    LET in == done[i].in
        out == done[i].out
    IN /\ "brief" \in DOMAIN out \/ out.issues # {}
       /\ in.mode # "manual" /\ in.baseBrief # Missing =>
            \A f \in DOMAIN in.baseBrief :
              f \in OptionalFields \cap DOMAIN Given(in.briefInput, <<>>) \/ out.brief[f] = in.baseBrief[f]

ExpandedPlans == {i \in RunsOf("ads.variant.plan") : done[i].in.mode = "generate" /\ done[i].in.plan # Missing}

\* A combination has what a constraint forbids: one of the listed values on each of two axes or more, or the first of
\* two values without the second.
Breaks(combo, c) ==
  LET listed == Given(c.values, <<>>)
  IN /\ Len(c.axes) >= 2 /\ c.values # Missing
     /\ \/ c.type = "incompatible" /\ \A a \in DOMAIN c.axes : Contains(listed, Get(combo, c.axes[a], <<>>))
        \/ /\ c.type = "requires" /\ Len(listed) >= 2 /\ Get(combo, c.axes[1], Missing) = listed[1]
           /\ Get(combo, c.axes[2], Missing) # listed[2]
Forbidden(combo, plan) == \E c \in DOMAIN plan.constraints : Breaks(combo, plan.constraints[c])

\* A plan that validation calls valid is expanded, if at all, into never more variants than it estimates, and into
\* exactly as many where it has no constraint and each axis a value; no variant breaks a constraint, of either kind; and
\* as long as the maximum is not reached, every choice of one value per axis that no constraint forbids is a variant.
PlanKeepsItsWord ==
  \A i \in ExpandedPlans :
    LET plan == done[i].in.plan
        axes == plan.axes
        variants == done[i].out.variants
        estimated == ValidateVariantPlan(plan).estimatedVariantCount
        choices == [{axes[a].dimension : a \in DOMAIN axes} -> UNION {Range(axes[a].values) : a \in DOMAIN axes}]
    IN ValidateVariantPlan(plan).valid =>
         /\ Len(variants) <= estimated
         /\ plan.constraints = <<>> /\ (\A a \in DOMAIN axes : axes[a].values # <<>>) => Len(variants) = estimated
         /\ \A v \in DOMAIN variants : ~Forbidden(variants[v].axisValues, plan)
         /\ Len(variants) < plan.maxVariantsTotal =>
              \A combo \in choices :
                (\A a \in DOMAIN axes : combo[axes[a].dimension] \in Range(axes[a].values)) /\ ~Forbidden(combo, plan) =>
                  \E v \in DOMAIN variants : variants[v].axisValues = combo

\* The ads of a valid plan, named after all values of a variant, can be told apart by their names, whatever the style
\* and the sign between the values, as long as no value holds that sign, a blank or no word at all, and no two values of
\* an axis differ in case only.
SlugsTellApart ==
  \A i \in ExpandedPlans :
    LET plan == done[i].in.plan
        variants == done[i].out.variants
        Plain(value) == value # <<>> /\ \A k \in DOMAIN value : value[k] \notin {" ", plan.naming.separator}
        Distinct(values) == \A j, k \in DOMAIN values : j # k => LowerCase(values[j]) # LowerCase(values[k])
    IN /\ ValidateVariantPlan(plan).valid /\ plan.naming.pattern = "dimension_values"
       /\ \A a \in DOMAIN plan.axes : LET values == plan.axes[a].values
                                       IN Distinct(values) /\ \A j \in DOMAIN values : Plain(values[j])
       => \A v, w \in DOMAIN variants : v # w => variants[v].slug # variants[w].slug

\* A plan that has to leave variants out keeps what its strategy is for: with the balanced strategy, no constraint in
\* the way, every value of every axis is still tried as soon as the plan may have as many variants as its longest
\* axis has values; with the focused strategy no variation of the focus axis alone is left out as long as another
\* variant is kept.
PlanIsSpread ==
  \A i \in ExpandedPlans :
    LET plan == done[i].in.plan
        variants == Each(done[i].out.variants, LAMBDA v : v.axisValues)
        Tried(d, value) == \E v \in DOMAIN variants : variants[v][d] = value
        FocusOnly(combo) == FocusOnlyVariation(combo, plan.focusAxis, ControlValues(plan.axes))
        possible == ApplyConstraints(CartesianProduct(plan.axes), plan.constraints)
    IN ValidateVariantPlan(plan).valid /\ variants # <<>> =>
         /\ (/\ plan.strategy = "balanced" /\ plan.constraints = <<>>
             /\ \A a \in DOMAIN plan.axes : Len(plan.axes[a].values) <= plan.maxVariantsTotal) =>
                \A a \in DOMAIN plan.axes : \A j \in DOMAIN plan.axes[a].values :
                  Tried(plan.axes[a].dimension, plan.axes[a].values[j])
         /\ plan.strategy = "focused" =>
              \/ \A v \in DOMAIN variants : FocusOnly(variants[v])
              \/ \A c \in DOMAIN possible : FocusOnly(possible[c]) => Contains(variants, possible[c])

\* A fix the quality check suggests for the pace, the scale or the length of a storyboard repairs what it was
\* suggested for: with the suggested value in its place, the same scene does not fail the same check.  The fix for a
\* claim is not spoken of: it empties the overlay, also when the voiceover makes the claim.
FixesHold ==
  \A i \in RunsOf("ads.video.qa") : i > 1 =>
    LET before == done[i - 1].out.checks
        fixed == {c \in DOMAIN before : before[c].fix # Missing
                    /\ done[i].in.storyboard = ApplyFix(done[i - 1].in.storyboard, before[c])}
        FailsAgain(c) == \E d \in DOMAIN done[i].out.checks :
                           /\ ~done[i].out.checks[d].passed
                           /\ done[i].out.checks[d].name = before[c].name
                           /\ done[i].out.checks[d].scene = before[c].scene
    IN \A c \in fixed : before[c].name # "Claims" => ~FailsAgain(c)

\* Reports add up: the totals are those of the usable snapshots of the wanted ads, platform and dates, the dates given as
\* a whole range or not at all, a negative amount counting nothing and a snapshot handed in twice counting twice; and
\* the tests that are suggested next are of different dimensions, numbered from one.
ReportsAddUp ==
  /\ \A i \in RunsOf("ads.metrics.import") :
       LET in == done[i].in
           given == Given(in.snapshots, <<>>)
           Wanted(s) == /\ UsableSnapshot(s) /\ s.entityId \in in.platformAdIds /\ in.platform \in {Missing, s.platform}
                        /\ in.dateRange.start # "" =>
                             in.dateRange.start = s.dateRange.start /\ in.dateRange.end = s.dateRange.end
           Amount(s, m) == IF Get(s.metrics, m, Missing) = Missing \/ Get(s.metrics, m, 0) < 0 THEN 0 ELSE s.metrics[m]
           Sum(m) == Total(given, LAMBDA s : IF Wanted(s) THEN Amount(s, m) ELSE 0)
       IN given # <<>> /\ (in.dateRange.start = "" <=> in.dateRange.end = "") =>
            \A m \in CoreMetrics : done[i].out.aggregated.total[m] = Sum(m)
  /\ \A i \in RunsOf("ads.winner.synthesize") :
       LET next == done[i].out.nextTests
       IN \A t, u \in DOMAIN next :
            next[t].priority = t /\ (t # u => next[t].dimension # next[u].dimension)
=============================================================================
