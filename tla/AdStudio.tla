------------------------------ MODULE AdStudio ------------------------------
(***************************************************************************)
(* A campaign through the ads nodes, wired as their READMEs say: the       *)
(* specifications of its placements, copy written by a model and cut to    *)
(* each placement's limits, images and a video made to the size of the     *)
(* first placement, the two gates over what came out, the tracking links   *)
(* and the export.                                                         *)
(*                                                                         *)
(* What one node hands the next is state; a step is one node, except that  *)
(* the image node takes a step for each of its calls, between which the    *)
(* run may be aborted.  A text is its length, the places of its spaces and *)
(* the phrases it holds.                                                   *)
(***************************************************************************)
EXTENDS AdSpecs

CONSTANTS
  Thrown,             \* a call that threw
  Orders,             \* the campaigns a workflow may be run for
  CopyReplies(_),     \* what the model may answer when asked for n variants
  ImageReplies(_),    \* what the image generator may answer when asked for n
  VideoReplies,       \* what the video generator may answer
  Sanitized,          \* what sanitizing makes of each name and key
  MaxItems,           \* the most ads in an export
  MaxTotalAssetSize   \* the most KiB of assets in an export

VARIABLES
  order,      \* the campaign
  stage,      \* the node that runs next, or how the run ended
  error,      \* the code the run failed with
  specs,      \* outputs of ads.platform.specs
  variants,   \* outputs of ads.copy.generate
  shoot,      \* what the image node has so far
  aborted,    \* the signal of the run
  video,      \* outputs of ads.video.generate
  reports,    \* what the gates say of each variant at each placement
  links,      \* outputs of ads.tracking.link
  pack        \* outputs of ads.export.pack

vars == <<order, stage, error, specs, variants, shoot, aborted, video, reports, links, pack>>

Policy == INSTANCE AdPolicy
Creative == INSTANCE AdCreative

-----------------------------------------------------------------------------
(* What comes in. *)

ASSUME NoneAssumption == None \notin Int

\* The ids of the checks of length and of format. A report tells its entries apart
\* by their ids, so a rule of a campaign has one of its own.
AssetRules == {"format-image-dimensions", "format-image-filesize", "format-video-duration-min",
               "format-video-duration-max", "format-video-filesize"}
ASSUME OrdersAssumption ==
  \A o \in Orders :
    /\ \A list \in {o.platforms, o.placements} : list = None \/ list \in Seq(Range(list))
    /\ o.rules \in Seq(Range(o.rules)) /\ o.custom \in Seq(Range(o.custom)) /\ o.assets \in Seq(Range(o.assets))
    /\ {o.variantCount, o.count, o.maxDimension} \subseteq Nat \cup {None}
    /\ \A rule \in Range(o.rules) : rule.id \notin AssetRules \cup {"format-text"}

\* A text has its spaces within it and holds what it says.
IsText(t) ==
  /\ t = [len |-> t.len, spaces |-> t.spaces, says |-> t.says]
  /\ t.len \in Nat /\ t.spaces \subseteq 0..(t.len - 1) /\ \A p \in t.says : p.end \in 1..t.len

Least(a, b) == IF a < b THEN a ELSE b
Most(a, b) == IF a > b THEN a ELSE b

Limits == [p \in {specs[i].placement : i \in DOMAIN specs} |->
             (CHOOSE s \in Range(specs) : s.placement = p).textLimits]
SpecOf == [p \in {specs[i].placement : i \in DOMAIN specs} |-> CHOOSE s \in Range(specs) : s.placement = p]
FirstSpec == IF order.sized /\ specs # <<>> THEN specs[1] ELSE None
TargetPlacements == [i \in DOMAIN specs |-> specs[i].placement]
TargetPlatforms == {specs[i].platform : i \in DOMAIN specs}

-----------------------------------------------------------------------------
(* ads.copy.generate *)

Text(n) == [len |-> n, spaces |-> {}, says |-> {}]
CutAt(text, n) ==
  [len |-> n, spaces |-> {s \in text.spaces : s < n}, says |-> {p \in text.says : p.end <= n}]

\* At a space in the last two fifths, or else anywhere; the ellipsis counts.
TruncateWithoutRoom(text, max) == IF text.len <= max THEN text ELSE [CutAt(text, max) EXCEPT !.len = max + 1] \* Faulty variant: no room left for the ellipsis
TruncateIfNeeded(text, max) ==
  IF text.len <= max THEN text
  ELSE LET lastSpace == Max({s \in text.spaces : s < max - 1} \cup {-1})
           end == IF 10 * lastSpace > 6 * max THEN lastSpace ELSE max - 1
       IN [CutAt(text, end) EXCEPT !.len = end + 1]

Trim(text, field, limits) ==
  IF text = None \/ field \notin DOMAIN limits THEN text ELSE TruncateIfNeeded(text, limits[field].max)

Adapt(copy, placement) ==
  LET headline == IF copy.headline = None THEN Text(0) ELSE copy.headline
      whole == [copy EXCEPT !.headline = headline]
      limits == IF placement \in DOMAIN Limits THEN Limits[placement] ELSE <<>>
      cut == [f \in DOMAIN whole |-> Trim(whole[f], f, limits)]
  IN [placement |-> placement, copy |-> cut, wasTruncated |-> cut # whole]

Adapted(copy) == [i \in DOMAIN TargetPlacements |-> Adapt(copy, TargetPlacements[i])]
Variant(copy, shown) == [copy |-> shown, platformAdaptations |-> Adapted(copy)]

\* Prose is salvaged: its first line is the headline, its second the description.
FallbackParse(lines) ==
  LET copy == [headline |-> lines[1], description |-> IF Len(lines) > 1 THEN lines[2] ELSE None,
               bodyText |-> None, ctaText |-> None]
  IN <<Variant(copy, [copy EXCEPT !.headline = CutAt(lines[1], Least(lines[1].len, 40))])>>

\* An empty array is not an array with an object in it, so its text is prose.
ParseVariants(reply) ==
  IF reply.kind = "items"
    THEN [i \in DOMAIN reply.items |->
            Variant(reply.items[i],
                    [reply.items[i] EXCEPT !.headline = IF @ = None THEN Text(0) ELSE @])]
    ELSE FallbackParse(IF reply.kind = "prose" THEN reply.lines ELSE <<Text(2)>>)

CopyFields == {"headline", "description", "bodyText", "ctaText"}
IsCopy(copy) == copy = [f \in CopyFields |-> copy[f]] /\ \A f \in CopyFields : copy[f] = None \/ IsText(copy[f])

VariantCount(n) == Least(Most(1, IF n \in {None, 0} THEN 3 ELSE n), 10)
Unusable(reply) == reply = Thrown \/ reply.kind = "blank"

\* The model answers with prose, or with an array that may hold objects.
ASSUME RepliesAssumption ==
  \A n \in 1..10 : \A reply \in CopyReplies(n) :
    \/ Unusable(reply)
    \/ reply.kind = "empty array"
    \/ /\ reply.kind = "prose" /\ reply.lines \in Seq(Range(reply.lines)) /\ reply.lines # <<>>
       /\ \A line \in Range(reply.lines) : IsText(line)
    \/ /\ reply.kind = "items" /\ reply.items \in Seq(Range(reply.items))
       /\ \A item \in Range(reply.items) : IsCopy(item)

-----------------------------------------------------------------------------
(* ads.image.generate and ads.video.generate *)

\* Math.round(size * short / long)
Scaled(size, short, long) == (2 * size * short + long) \div (2 * long)
BySide(ratio, wide, tall) ==
  IF ratio.width >= ratio.height
    THEN [width |-> wide, height |-> Scaled(wide, ratio.height, ratio.width)]
    ELSE [width |-> Scaled(tall, ratio.width, ratio.height), height |-> tall]

DimensionsSwapped(spec, ratio, cap) == \* Faulty variant: width and height swapped
  IF spec # None /\ spec.imageSpec # None
    THEN [width |-> Least(spec.imageSpec.recommendedHeight, cap), height |-> Least(spec.imageSpec.recommendedWidth, cap)]
    ELSE BySide(ratio, cap, cap)
ImageDimensions(spec, ratio, cap) ==
  IF spec # None /\ spec.imageSpec # None
    THEN [width |-> Least(spec.imageSpec.recommendedWidth, cap),
          height |-> Least(spec.imageSpec.recommendedHeight, cap)]
    ELSE BySide(ratio, cap, cap)

VideoDimensions(spec, ratio) ==
  IF spec # None /\ spec.videoSpec # None
    THEN [width |-> spec.videoSpec.recommendedWidth, height |-> spec.videoSpec.recommendedHeight]
    ELSE BySide(ratio, 1920, 1080)

MaxDimension == IF order.maxDimension = None THEN 2048 ELSE order.maxDimension
CountPerPrompt == Most(1, Least(8, IF order.count \in {None, 0} THEN 2 ELSE order.count))
Given(x, fallback) == IF x = None THEN fallback ELSE x

\* What the two nodes say of what they made: no type, no placement, no file size, and
\* the length and the size of a video by other names than the gate and the export read.
ImageAsset(image, dimensions, i) ==
  [width |-> Given(image.width, dimensions.width), height |-> Given(image.height, dimensions.height),
   safetyFiltered |-> image.safetyFiltered, promptIndex |-> i]
VideoAsset(made, dimensions, duration) ==
  [durationSeconds |-> Given(made.durationSeconds, duration), width |-> Given(made.width, dimensions.width),
   height |-> Given(made.height, dimensions.height), fileSizeBytes |-> made.fileSizeBytes]

Duration == IF order.duration = None THEN 8 ELSE order.duration

\* An answer of the image generator lists images.
ASSUME ImagesAssumption ==
  \A n \in 1..8 : \A reply \in ImageReplies(n) : reply.thrown # None \/ reply.images \in Seq(Range(reply.images))

\* The assets the campaign brings along, the images and the video, each as its node gave it.
Made == shoot.images \o (IF video = None THEN <<>> ELSE <<video>>)
Assets == order.assets \o Made

-----------------------------------------------------------------------------
(* ads.tracking.link *)

UtmSources ==
  [meta |-> "facebook", google |-> "google", tiktok |-> "tiktok", linkedin |-> "linkedin", x |-> "twitter",
   pinterest |-> "pinterest", snapchat |-> "snapchat", reddit |-> "reddit", amazon |-> "amazon"]
UtmMediums == [p \in DOMAIN UtmSources |-> IF p \in {"google", "amazon"} THEN "cpc" ELSE "paid_social"]
ClickIdParams ==
  [meta |-> "fbclid", google |-> "gclid", tiktok |-> "ttclid", linkedin |-> "li_fat_id", x |-> "twclid",
   pinterest |-> "epik", snapchat |-> "ScCid", reddit |-> "rdt_cid", amazon |-> "amzn_clid"]
ClickIdMacros ==
  [meta |-> "{{ad.id}}", google |-> "{gclid}", tiktok |-> "__CLICKID__", linkedin |-> "{{CLICK_ID}}",
   snapchat |-> "{{snap_click_id}}"] @@ [p \in {"x", "pinterest", "reddit", "amazon"} |-> "{{click_id}}"]

Lookup(table, platform) == IF platform \in DOMAIN table THEN table[platform] ELSE None
BuildUTMParams(platform, campaign, variantId) ==
  [source |-> Lookup(UtmSources, platform), medium |-> Lookup(UtmMediums, platform),
   campaign |-> Sanitized[campaign], content |-> variantId]

\* No value is no name of a parameter.
ASSUME ClickIdsAssumption == None \notin Range(ClickIdParams)

\* URLSearchParams.set, called for each pair in turn: the last value of a key stays.
Params(pairs) ==
  [key \in {pairs[i][1] : i \in DOMAIN pairs} |-> pairs[Max({i \in DOMAIN pairs : pairs[i][1] = key})][2]]

\* A source nobody knows is the text "undefined", None here. A custom parameter whose
\* key is that of another parameter, or of an earlier one, replaces it.
TrackingLink(platform, campaign, variantId, custom, includeClickId) ==
  LET utm == BuildUTMParams(platform, campaign, variantId)
      clickId == IF includeClickId THEN Lookup(ClickIdParams, platform) ELSE None
      If(value, pair) == IF value = None THEN <<>> ELSE <<pair>>
      own == <<<<"utm_source", utm.source>>, <<"utm_medium", utm.medium>>, <<"utm_campaign", utm.campaign>>>>
               \o If(variantId, <<"utm_content", variantId>>)
               \o If(clickId, <<clickId, Lookup(ClickIdMacros, platform)>>)
               \o If(variantId, <<"ad_variant", variantId>>)
  IN [platform |-> platform, utm |-> utm, clickIdParam |-> clickId,
      params |-> Params(own \o [i \in DOMAIN custom |-> <<Sanitized[custom[i][1]], custom[i][2]>>])]

-----------------------------------------------------------------------------
(* ads.export.pack: an ad for each variant. *)

Items ==
  [i \in DOMAIN variants |->
     [adId |-> i, copyVariants |-> <<variants[i]>>, assets |-> Assets, trackingLinks |-> links,
      placements |-> TargetPlacements]]

Read(asset, field) == IF field \in DOMAIN asset THEN asset[field] ELSE None
TotalAssetSize(items) == Total(items, LAMBDA item : Total(item.assets, LAMBDA a : Given(Read(a, "fileSize"), 0)))
PackRefused(items) ==
  items = <<>> \/ Len(items) > MaxItems \/ TotalAssetSize(items) > MaxTotalAssetSize
FirstLinkOf(item, placement) == FirstOf(item.trackingLinks, LAMBDA l : TRUE, None) \* Faulty variant: any link
LinkOf(item, placement) == FirstOf(item.trackingLinks, LAMBDA l : l.platform = placement[1], None)
CopyOf(variant, placement) ==
  LET nothing == [copy |-> [f \in DOMAIN variant.copy |-> None]]
      adaptation == FirstOf(variant.platformAdaptations, LAMBDA a : a.placement = placement, nothing)
  IN [f \in DOMAIN variant.copy |-> IF adaptation.copy[f] = None THEN variant.copy[f] ELSE adaptation.copy[f]]

CsvRows(items) ==
  FlattenSeq([i \in DOMAIN items |->
    FlattenSeq([v \in DOMAIN items[i].copyVariants |->
      [p \in DOMAIN items[i].placements |->
         [adId |-> items[i].adId, placement |-> items[i].placements[p],
          copy |-> CopyOf(items[i].copyVariants[v], items[i].placements[p]),
          asset |-> IF items[i].assets = <<>> THEN None ELSE items[i].assets[1],
          link |-> LinkOf(items[i], items[i].placements[p])]]])])

ManifestItems(items) ==
  [i \in DOMAIN items |->
     [adId |-> items[i].adId, placements |-> items[i].placements,
      files |-> [a \in DOMAIN items[i].assets |-> Read(items[i].assets[a], "type")],
      links |-> [l \in DOMAIN items[i].trackingLinks |-> items[i].trackingLinks[l].platform]]]

-----------------------------------------------------------------------------
Nothing == [images |-> <<>>, stats |-> <<>>, filtered |-> 0]

Init ==
  /\ order \in Orders
  /\ stage = "specs"
  /\ error = None
  /\ specs = <<>> /\ variants = <<>> /\ reports = <<>> /\ links = <<>>
  /\ shoot = Nothing
  /\ aborted = FALSE
  /\ video = None /\ pack = None

Fail(code) == stage' = "failed" /\ error' = code
GoOn(next) == stage' = next /\ UNCHANGED error

ResolveSpecs ==
  /\ stage = "specs"
  /\ LET r == PlatformSpecs(order.platforms, order.placements)
     IN IF r.status = "error"
          THEN Fail(r.code) /\ UNCHANGED specs
          ELSE GoOn("copy") /\ specs' = r.specs
  /\ UNCHANGED <<order, variants, shoot, aborted, video, reports, links, pack>>

CopyRefused ==
  /\ stage = "copy"
  /\ \/ TargetPlacements = <<>> /\ Fail("COPY_NO_PLACEMENTS")
     \/ TargetPlacements # <<>> /\ order.sellingPoints = 0 /\ Fail("COPY_NO_SELLING_POINTS")
  /\ UNCHANGED <<order, specs, variants, shoot, aborted, video, reports, links, pack>>

CopyGenerate(reply) ==
  /\ stage = "copy" /\ TargetPlacements # <<>> /\ order.sellingPoints > 0
  /\ IF Unusable(reply)
       THEN Fail("COPY_GENERATE_FAILED") /\ UNCHANGED variants
       ELSE GoOn("images") /\ variants' = ParseVariants(reply)
  /\ UNCHANGED <<order, specs, shoot, aborted, video, reports, links, pack>>

Abort ==
  /\ stage = "images" /\ ~aborted
  /\ aborted' = TRUE
  /\ UNCHANGED <<order, stage, error, specs, variants, shoot, video, reports, links, pack>>

ShootRefused ==
  /\ stage = "images" /\ order.prompts = 0
  /\ Fail("INVALID_INPUTS")
  /\ UNCHANGED <<order, specs, variants, shoot, aborted, video, reports, links, pack>>

ImageCallFails(code) ==
  Fail(IF code = "image_safety_filtered_all" THEN "IMAGE_SAFETY_FILTERED_ALL" ELSE "IMAGE_GENERATE_FAILED")
  /\ UNCHANGED shoot
ImageCallAnswers(reply) ==
  LET dimensions == ImageDimensions(FirstSpec, order.ratio, MaxDimension)
      i == Len(shoot.stats)
      images == Only(reply.images, LAMBDA image : image # None)
  IN /\ shoot' = [images |-> shoot.images
                               \o [j \in DOMAIN images |-> ImageAsset(images[j], dimensions, i)],
                  stats |-> Append(shoot.stats, [promptIndex |-> i, generated |-> Len(reply.images)]),
                  filtered |-> shoot.filtered + Given(reply.filteredCount, 0)]
     /\ UNCHANGED <<stage, error>>

ShootNext(reply) ==
  /\ stage = "images" /\ ~aborted
  /\ Len(shoot.stats) < order.prompts
  /\ IF reply.thrown # None THEN ImageCallFails(reply.thrown) ELSE ImageCallAnswers(reply)
  /\ UNCHANGED <<order, specs, variants, aborted, video, reports, links, pack>>

ShootEnds ==
  /\ stage = "images" /\ order.prompts > 0
  /\ aborted \/ Len(shoot.stats) = order.prompts
  /\ GoOn("video")
  /\ UNCHANGED <<order, specs, variants, shoot, aborted, video, reports, links, pack>>

VideoFailure(code) ==
  IF code = "video_generation_cancelled" THEN "VIDEO_GENERATION_CANCELLED"
  ELSE IF code = "video_generation_timeout" THEN "VIDEO_GENERATION_TIMEOUT"
  ELSE "VIDEO_GENERATE_FAILED"

VideoGenerate(reply) ==
  /\ stage = "video"
  /\ IF ~order.filmed THEN GoOn("gates") /\ UNCHANGED video
     ELSE IF reply.thrown # None THEN Fail(VideoFailure(reply.thrown)) /\ UNCHANGED video
     ELSE IF reply.url = None THEN Fail("VIDEO_GENERATE_FAILED") /\ UNCHANGED video
     ELSE /\ GoOn("gates")
          /\ video' = VideoAsset(reply, VideoDimensions(FirstSpec, order.ratio), Duration)
  /\ UNCHANGED <<order, specs, variants, shoot, aborted, reports, links, pack>>

Report(adaptation) ==
  LET p == adaptation.placement
  IN [adaptation |-> adaptation,
      policy |-> Policy!PolicyCheck(adaptation.copy, TargetPlatforms, <<p>>, order.rules, Limits, <<>>),
      creative |-> Creative!CreativeValidate(adaptation.copy, Assets, TargetPlatforms, <<p>>, order.rules, SpecOf, Limits)]

RunGates ==
  /\ stage = "gates"
  /\ reports' = FlattenSeq([v \in DOMAIN variants |->
                  [a \in DOMAIN variants[v].platformAdaptations |-> Report(variants[v].platformAdaptations[a])]])
  /\ GoOn("links")
  /\ UNCHANGED <<order, specs, variants, shoot, aborted, video, links, pack>>

BuildLinks ==
  /\ stage = "links"
  /\ IF order.platforms = <<>>
       THEN Fail("MISSING_PLATFORM") /\ UNCHANGED links
       ELSE /\ GoOn("export")
            /\ links' = [i \in DOMAIN order.platforms |->
                          TrackingLink(order.platforms[i], order.campaign, None, order.custom, order.includeClickId)]
  /\ UNCHANGED <<order, specs, variants, shoot, aborted, video, reports, pack>>

ExportPack ==
  /\ stage = "export"
  /\ IF PackRefused(Items)
       THEN Fail("EXPORT_PACK_CREATE_FAILED") /\ UNCHANGED pack
       ELSE /\ GoOn("done")
            /\ pack' = [items |-> Items, totalAssetSize |-> TotalAssetSize(Items),
                        combinationCount |-> Total(Items, LAMBDA item : Len(item.placements)),
                        rows |-> CsvRows(Items), manifest |-> ManifestItems(Items)]
  /\ UNCHANGED <<order, specs, variants, shoot, aborted, video, reports, links>>

Next ==
  \/ ResolveSpecs
  \/ CopyRefused
  \/ \E reply \in CopyReplies(VariantCount(order.variantCount)) : CopyGenerate(reply)
  \/ Abort
  \/ ShootRefused
  \/ \E reply \in ImageReplies(CountPerPrompt) : ShootNext(reply)
  \/ ShootEnds
  \/ \E reply \in VideoReplies : VideoGenerate(reply)
  \/ RunGates
  \/ BuildLinks
  \/ ExportPack

Spec == Init /\ [][Next]_vars

-----------------------------------------------------------------------------
Violations(rules) == {i \in DOMAIN reports : \E c \in Range(reports[i].creative.violations) : c.rule \in rules}

\* Copy cut to the limits of a placement is never too long for the gate that
\* checks those limits, word boundary and ellipsis included: what fails there
\* is a field the model left empty.
CopyFitsItsPlacement ==
  \A i \in Violations({"format-text"}) :
    \E f \in DOMAIN reports[i].adaptation.copy : reports[i].adaptation.copy[f] = Text(0)

\* What comes back as the two nodes asked for it suits the first placement, for every
\* specification of the registry: an image is no smaller than it accepts, though each side
\* is capped by itself, unless images are capped below that, and a video asked for at
\* the length it recommends is of a length it accepts.
ShotsFitTheirPlacement ==
  LET spec == FirstSpec
      asked == ImageDimensions(spec, order.ratio, MaxDimension)
  IN spec # None =>
       /\ spec.imageSpec # None /\ MaxDimension >= Most(spec.imageSpec.minWidth, spec.imageSpec.minHeight) =>
            \A a \in Range(shoot.images) :
              a.width = asked.width /\ a.height = asked.height =>
                a.width >= spec.imageSpec.minWidth /\ a.height >= spec.imageSpec.minHeight
       /\ spec.videoSpec # None /\ order.duration = spec.videoSpec.recommendedDuration
            /\ video # None /\ video.durationSeconds = Duration =>
              video.durationSeconds \in spec.videoSpec.minDuration..spec.videoSpec.maxDuration

\* The two packs that carry the text rules agree: whatever the copy, the platform
\* and the custom rules, the policy gate finds it compliant exactly when the
\* creative gate has nothing against it but its assets.
GatesAgree ==
  \A i \in DOMAIN reports :
    reports[i].policy.isCompliant
      <=> \A c \in Range(reports[i].creative.violations) :
            c.rule \in AssetRules

\* Every ad is exported once at every placement, with the copy adapted to it and,
\* where the campaign names the platform, a link that tells that platform's clicks.
RowsAreTracked ==
  pack # None =>
    /\ Len(pack.rows) = Len(variants) * Len(specs)
    /\ pack.combinationCount = Len(pack.rows)
    /\ \A r \in Range(pack.rows) :
         /\ \E a \in Range(variants[r.adId].platformAdaptations) :
              a.placement = r.placement /\ \A f \in DOMAIN a.copy : a.copy[f] \in {None, r.copy[f]}
         /\ r.placement[1] \in Range(order.platforms) =>
              /\ r.link \in Range(links) /\ r.link.platform = r.placement[1]
              /\ order.includeClickId => ClickIdParams[r.placement[1]] \in DOMAIN r.link.params
=============================================================================
