---------------------------- MODULE MCAdPlanning ----------------------------
(* Small pages, briefs, plans, storyboards, tests and snapshots: every branch
   of the six nodes, alone and one after the other. *)
EXTENDS AdPlanning

Lowered == [Now |-> "now", Bold |-> "bold"]
Uppered == [a |-> "A", b |-> "B", bold |-> "BOLD", Bold |-> "BOLD"]
Titled == [a |-> "A", b |-> "B", bold |-> "Bold"]
MCLower(w) == IF w \in DOMAIN Lowered THEN Lowered[w] ELSE w
MCUpper(w) == IF w \in DOMAIN Uppered THEN Uppered[w] ELSE w
MCTitle(w) == IF w \in DOMAIN Titled THEN Titled[w] ELSE w
MCHolds(w, part) == w = part \/ <<w, part>> \in {<<"know", "now">>, <<"carefree", "free">>}

Item(fields) == [f \in fields |-> <<f>>]
Contents ==
  {<<>>, Item({"headline", "ctaText"}),
   Item({"title", "subheadline", "tagline"}) @@ [items |-> <<Item({"title", "question"}), Missing, Item({"quote", "text"})>>],
   [headline |-> <<"know", "us">>, title |-> <<"easy">>],
   [headline |-> <<"act", "Now">>, title |-> <<"act", "now">>, description |-> <<>>,
    features |-> <<Item({"title", "description"}), Item({"title"})>>,
    plans |-> <<[features |-> <<Item({"text", "name"}), Missing>>]>>,
    stats |-> <<[value |-> <<"9">>, title |-> <<"fun">>], [number |-> Missing, label |-> <<"x">>]>>,
    testimonials |-> <<>>]}
Sections == {[type |-> t, content |-> c] :
               t \in {"hero", "features", "pricing", "testimonials", "stats", "faq", "text"}, c \in Contents}
Pages ==
  [pageId : BOOLEAN, sections : {Missing, <<>>} \cup {<<s>> : s \in Sections}, objective : {Missing, "traffic"},
   angleCount : {Missing, 1, -1}, defaultAngleCount : {Missing, 5}, contentContext : {<<>>, [targetAudience |-> <<"all">>, brandVoice |-> <<"calm">>]}]

Bases == {Missing, [sellingPoints |-> <<>>, targetAudience |-> <<"all">>, tone |-> <<"calm">>, goal |-> "sales", angles |-> <<>>],
          [sellingPoints |-> << <<"fast">> >>, targetAudience |-> <<>>, tone |-> <<"calm">>, goal |-> "sales", angles |-> <<"a">>,
           offer |-> [promise |-> <<"p">>, ctaPrimary |-> <<"Buy">>], icp |-> [personaName |-> <<"n">>]]}
BriefInputs ==
  {Missing, <<>>, [offer |-> <<>>], [offer |-> [promise |-> <<"q">>], platformTargets |-> <<>>, tone |-> <<"loud">>],
   [icp |-> [personaName |-> <<>>, painPoints |-> << <<"slow">> >>], positioning |-> <<>>],
   [sellingPoints |-> << <<"cheap">> >>, targetAudience |-> <<"few">>, angles |-> <<>>, messageRules |-> [tone |-> <<"dry">>]],
   [sellingPoints |-> <<>>, assetRefs |-> <<>>, primaryKpis |-> <<"ctr">>]}
Briefs == [mode : {"manual", "extraction", "merge"}, baseBrief : Bases, briefInput : BriefInputs, validateOutput : BOOLEAN]

Axis(d, values) == [dimension |-> d, values |-> values]
Words3 == << <<"a">>, <<"b">>, <<"c">> >>
AxisLists ==
  {Missing, <<>>, <<Axis("tone", << <<"bold">>, <<"Bold">> >>), Axis("", <<>>)>>,
   <<Axis("tone", << <<"a">>, <<"a", "_", "b">> >>), Axis("cta", << <<"b", "_", "c">>, <<"c">> >>)>>,
   <<Axis("tone", << <<"a", " ", "b">>, <<"b", " ", " ", "_", "a">> >>), Axis("cta", << <<>>, <<"c">> >>)>>,
   <<Axis("tone", Words3), Axis("tone", << <<"b">>, <<"d">> >>)>>}
  \cup {<<Axis("tone", Slice(Words3, n)), Axis("cta", Slice(Words3, m)), Axis("image", Slice(Words3, k))>> :
          n \in 1..3, m \in 1..3, k \in 1..2}
  \cup {<<Axis("tone", Words3), Axis("cta", Slice(Words3, m))>> : m \in 0..3}
ConstraintLists ==
  {<<>>, <<[type |-> "incompatible", axes |-> <<"tone", "cta">>, values |-> << <<"a">>, <<"b">> >>],
           [type |-> "requires", axes |-> <<"tone", "cta">>, values |-> << <<"c">>, <<"a">> >>]>>,
   <<[type |-> "incompatible", axes |-> <<"tone">>, values |-> << <<"a">> >>],
     [type |-> "requires", axes |-> <<"tone", "size">>, values |-> Missing]>>}
Created ==
  [mode : {"create"}, briefId : {TRUE}, axes : AxisLists, maxVariants : {Missing, 1, 2, 3, 4, 5, 6, 9}, strategy : {Missing, "focused"},
   focusAxis : {Missing, "cta"}, namingConvention : {<<>>}, constraints : ConstraintLists]
Styles == {"lowercase", "uppercase", "titlecase", "kebab", "none"}
Namings == {[separator |-> "", pattern |-> "dimension_values"], [pattern |-> "tone", caseStyle |-> "none"], [pattern |-> "size"]}
             \cup [separator : {"_", "-"}, caseStyle : Styles]
Named == {[in EXCEPT !.namingConvention = n] :
            in \in {c \in Created : c.maxVariants = 9 /\ c.strategy = Missing /\ c.focusAxis = Missing /\ Len(c.constraints) = 0}, n \in Namings}
Plans ==
  Created \cup Named \cup {[mode |-> m, plan |-> Missing] : m \in {"generate", "validate"}}
    \cup {[mode |-> "create", briefId |-> FALSE, axes |-> <<>>]}
    \cup {[mode |-> "validate", plan |-> CreateVariantPlan(in)] : in \in {c \in Created : c.axes # Missing /\ Len(c.constraints) = 0}}

Texts(words) == {Missing} \cup {[words |-> w, chars |-> 13 * w, claim |-> c] : w \in words, c \in {"none", "block"}}
Scenes == [overlay : Texts({4, 5, 9}), voiceover : {Missing, [chars |-> 90, claim |-> "needs-review"]}, duration : {0, 1, 2},
           scale : {Missing, 3}, contentType : {"cta"}]
Storyboards ==
  {[scenes |-> <<s>>, totalDuration |-> t] : s \in Scenes, t \in {2, 10, 40}}
    \cup {[scenes |-> <<s, [s EXCEPT !.contentType = "hook", !.duration = 1]>>, totalDuration |-> 20] : s \in Scenes}
Options ==
  [minTextScaleRatio : {Missing}, safeZones : {{}, {[top |-> 0, height |-> 14], [top |-> 80, height |-> 20]}},
   videoSpec : {Missing, [minDuration |-> 5, maxDuration |-> 30, recommendedDuration |-> 10],
                [minDuration |-> 5, maxDuration |-> 60, recommendedDuration |-> Missing]},
   maxCharsPerScene : {Missing}, maxTextBlocksPerScene : {Missing, 1}, claimsChecked : BOOLEAN]

Tests == {[improvement |-> w, recommendation |-> r, totals |-> [f \in TestTotals |-> 10]] :
            w \in {Missing, 0, 4, 11, 30}, r \in {"stop", "needs_more_data"}}
Winners ==
  [testResults : {Missing, <<>>} \cup {<<t>> : t \in Tests} \cup {<<t, u>> : t, u \in Tests}, platforms : {Missing, <<>>, <<"meta">>},
   dimensionPriority : {Missing, <<>>, <<"combined", "copy", "copy">>, <<"size">>}]

Days == {"mon", "tue"}
Snapshots ==
  {Missing} \cup
  {[entityId |-> e, platform |-> "meta", entityType |-> "page", dateRange |-> [start |-> "mon", end |-> d], metrics |-> [spend |-> n, clicks |-> 2]] :
     e \in {"ad1", "ad2", ""}, d \in Days, n \in {Missing, -5, 3}}
Imports ==
  [snapshots : {Missing, <<>>} \cup {<<s, t>> : s, t \in Snapshots}, platformAdIds : {{}, {"ad1"}, {"ad1", "ad2"}},
   platform : {Missing, "meta", "x"}, dateRange : [start : {"", "mon"}, end : {"", "tue"}]]

MCInputs(n) ==
  CASE n = "ads.brief.extract" -> Pages
    [] n = "ads.brief.build" -> Briefs
    [] n = "ads.variant.plan" -> Plans
    [] n = "ads.video.qa" -> [storyboard : {Missing} \cup Storyboards, options : Options]
    [] n = "ads.winner.synthesize" -> Winners
    [] n = "ads.metrics.import" -> Imports
=============================================================================
