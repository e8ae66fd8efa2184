----------------------------- MODULE AdCreative -----------------------------
(***************************************************************************)
(* The node ads.creative.validate: the text rules and length limits again, *)
(* in a copy of the code of ads.policy.check that this pack carries, and   *)
(* the format of each asset.  Texts and rules are those of AdPolicy.       *)
(***************************************************************************)
EXTENDS Lists

CONSTANT None   \* no value

Fields == <<"headline", "description", "bodyText", "ctaText">>

Rule(id, category, severity, platforms, keywords, patterns) ==
  [id |-> id, category |-> category, severity |-> severity, platforms |-> platforms,
   keywords |-> keywords, patterns |-> patterns, autoResolvable |-> FALSE, enabled |-> TRUE]

BuiltInRules == <<
  Rule("claims-guarantee", "claims", "high", {}, {"guarantee", "risk-free"}, {"100%", "risk-free", "money back"}),
  Rule("claims-income", "claims", "critical", {}, {}, {"earn $5", "$5 per day"}),
  Rule("claims-superlative", "claims", "medium", {}, {"best", "#1"}, {"best", "#1", "fastest"}),
  Rule("trademark-competitor", "trademark", "medium", {"meta", "google"}, {}, {}),
  Rule("prohibited-before-after", "prohibited_content", "high", {"meta"}, {"transformation"}, {"results in 5 days"}),
  Rule("prohibited-urgency-scam", "prohibited_content", "medium", {}, {}, {"act now", "last chance"}),
  Rule("targeting-discrimination", "targeting", "critical", {}, {}, {"only for men"}) >>

CriticalOnly(rule) == rule.severity = "critical" \* Faulty variant: a rule of high severity only warns
Severe(rule) == rule.severity \in {"critical", "high"}
EvaluateRule(rule, says) ==
  IF (rule.keywords \cup rule.patterns) \cap says = {} THEN <<>>
  ELSE <<[rule |-> rule.id, category |-> rule.category, autoResolvable |-> rule.autoResolvable,
          status |-> IF Severe(rule) THEN "fail" ELSE "warning"]>>

Fail(rule, autoResolvable) ==
  [rule |-> rule, category |-> "format", status |-> "fail", autoResolvable |-> autoResolvable]
If(condition, check) == IF condition THEN <<check>> ELSE <<>>
Above(x, max) == x # None /\ max # None /\ x > max
Below(x, min) == x # None /\ min # None /\ x < min

\* What an asset says of itself; one that does not say it is not checked for it.
Read(asset, field) == IF field \in DOMAIN asset THEN asset[field] ELSE None

CheckImage(asset, image) ==
  LET width == Read(asset, "width")
      height == Read(asset, "height")
  IN If(/\ width # None /\ height # None
        /\ width < image.minWidth \/ height < image.minHeight, Fail("format-image-dimensions", FALSE))
       \o If(Above(Read(asset, "fileSize"), image.maxFileSize), Fail("format-image-filesize", TRUE))
CheckVideo(asset, video) ==
  If(Below(Read(asset, "duration"), video.minDuration), Fail("format-video-duration-min", FALSE))
    \o If(Above(Read(asset, "duration"), video.maxDuration), Fail("format-video-duration-max", FALSE))
    \o If(Above(Read(asset, "fileSize"), video.maxFileSize), Fail("format-video-filesize", FALSE))

\* An asset without a placement or a type, or of one without a specification, is not checked.
CheckAssetFormat(asset, specs) ==
  IF Read(asset, "placement") \notin DOMAIN specs THEN <<>>
  ELSE LET spec == specs[asset.placement]
       IN IF Read(asset, "type") = "image" /\ spec.imageSpec # None THEN CheckImage(asset, spec.imageSpec)
          ELSE IF Read(asset, "type") = "video" /\ spec.videoSpec # None THEN CheckVideo(asset, spec.videoSpec)
          ELSE <<>>

CheckTextLengths(copy, limits) ==
  FlattenSeq([i \in DOMAIN Fields |->
    LET f == Fields[i] IN
    IF f \notin DOMAIN limits \/ copy[f] = None THEN <<>>
    ELSE IF Below(copy[f].len, limits[f].min) \/ copy[f].len > limits[f].max THEN <<Fail("format-text", TRUE)>>
    ELSE If(Above(copy[f].len, limits[f].recommended), [Fail("format-text", TRUE) EXCEPT !.status = "warning"])])

CreativeValidate(copy, assets, platforms, placements, customRules, specs, limits) ==
  LET says == UNION {{p.what : p \in copy[Fields[f]].says} : f \in {g \in DOMAIN Fields : copy[Fields[g]] # None}}
      rules == Only(BuiltInRules \o customRules,
                         LAMBDA r : r.enabled /\ (r.platforms = {} \/ r.platforms \cap platforms # {}))
      limited == Only(placements, LAMBDA p : p \in DOMAIN limits)
      checks ==
        FlattenSeq([i \in DOMAIN rules |-> EvaluateRule(rules[i], says)])
          \o FlattenSeq([i \in DOMAIN assets |-> CheckAssetFormat(assets[i], specs)])
          \o FlattenSeq([i \in DOMAIN limited |-> CheckTextLengths(copy, limits[limited[i]])])
      violations == Only(checks, LAMBDA c : c.status = "fail")
  IN [checks |-> checks, violations |-> violations, isValid |-> violations = <<>>,
      rulesEvaluated |-> Len(rules) + Len(assets) + Len(limited)]
=============================================================================
