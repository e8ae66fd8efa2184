----------------------------- MODULE MCAdStudio -----------------------------
(* Every placement on its own, platforms together, and the requests that are
   refused; replies that are short, long, cut at a space and cut in a word. *)
EXTENDS AdStudio

Order ==
  [platforms |-> <<"meta">>, placements |-> None, sellingPoints |-> 1, variantCount |-> None,
   prompts |-> 1, count |-> None, sized |-> TRUE, ratio |-> [width |-> 16, height |-> 9],
   maxDimension |-> None, filmed |-> TRUE, duration |-> None, rules |-> <<>>, assets |-> <<>>,
   campaign |-> "Spring Sale", custom |-> <<>>, includeClickId |-> TRUE]

Recommended(spec) == IF spec.videoSpec = None THEN None ELSE spec.videoSpec.recommendedDuration
OnePlacement ==
  {[Order EXCEPT !.platforms = <<s.platform>>, !.placements = <<s.placement>>, !.maxDimension = cap,
                 !.filmed = s.videoSpec # None, !.duration = Recommended(s)] :
     s \in Range(AllSpecs), cap \in {None, 1024}}

CustomRules == <<[Creative!Rule("house", "claims", "low", {}, {"cheap"}, {}) EXCEPT !.autoResolvable = TRUE],
                 Creative!Rule("broken", "claims", "critical", {"x"}, {}, {"("}),
                 [Creative!Rule("off", "claims", "high", {}, {"best"}, {}) EXCEPT !.enabled = FALSE]>>
Together ==
  {[Order EXCEPT !.platforms = <<"tiktok", "x">>, !.rules = CustomRules, !.filmed = FALSE],
   [Order EXCEPT !.platforms = <<"linkedin", "nowhere">>, !.custom = <<<<"my key", "a">>, <<"my_key", "b">>>>],
   [Order EXCEPT !.placements = <<<<"meta", "stories">>, <<"google", "search">>, <<"meta", "nowhere">>>>],
   [Order EXCEPT !.platforms = <<"google">>, !.sized = FALSE, !.includeClickId = FALSE, !.ratio = [width |-> 4, height |-> 5],
                 !.prompts = 2, !.count = 99, !.variantCount = 2]}
\* Assets of the campaign's own, as the gate and the export read them.
Uploaded(type, placement, width, duration, size) ==
  [type |-> type, placement |-> placement, width |-> width, height |-> width, duration |-> duration, fileSize |-> size]
Bringing ==
  {[Order EXCEPT !.placements = <<<<"meta", "feed">>>>, !.filmed = FALSE, !.assets = list] :
     list \in {<<Uploaded("image", <<"meta", "feed">>, 500, None, 40 * MB)>>,
               <<Uploaded("video", <<"meta", "feed">>, 900, 300, 300 * MB), Uploaded("carousel", <<"x", "feed">>, None, None, None)>>,
               <<Uploaded("video", <<"meta", "feed">>, 900, 0, 600 * MB)>>}}
Refused ==
  {[Order EXCEPT !.platforms = None], [Order EXCEPT !.platforms = <<>>],
   [Order EXCEPT !.platforms = <<>>, !.placements = <<<<"x", "explore">>>>],
   [Order EXCEPT !.sellingPoints = 0], [Order EXCEPT !.prompts = 0]}

MCOrders == OnePlacement \cup Together \cup Bringing \cup Refused

Says(n, what, end) == [Text(n) EXCEPT !.says = {[what |-> what, end |-> end]}]
Words(n, spaces) == [Text(n) EXCEPT !.spaces = spaces]
Headlines == {None, Text(0), Text(31), Words(2300, {7, 12, 22, 24, 38, 95, 270}), Says(40, "best", 10)}
Descriptions == {None, Words(300, {30, 60, 80, 120}), Says(60, "transformation", 60)}
Bodies == {None, Says(2300, "only for men", 2290), Says(90, "guarantee", 9)}
Item(headline, description, bodyText, ctaText) ==
  [headline |-> headline, description |-> description, bodyText |-> bodyText, ctaText |-> ctaText]
OneItem == {<<Item(h, d, b, None)>> : h \in Headlines, d \in Descriptions, b \in Bodies}
SomeItems(n) ==
  {[i \in 1..n |-> Item(Text(20 + i), None, None, Text(26))],
   <<Item(Says(20, "cheap", 5), None, Text(90), Words(26, {14}))>>}
MCCopyReplies(n) ==
  {Thrown, [kind |-> "blank"], [kind |-> "empty array"], [kind |-> "prose", lines |-> <<Text(50)>>],
   [kind |-> "prose", lines |-> <<Text(10), Text(130)>>]}
    \cup {[kind |-> "items", items |-> s] : s \in OneItem \cup SomeItems(n)}

ImageOf(width) == [width |-> width, height |-> width, safetyFiltered |-> FALSE]
MCImageReplies(n) ==
  {[thrown |-> code, images |-> <<>>, filteredCount |-> None] : code \in {"image_safety_filtered_all", "other"}}
    \cup {[thrown |-> None, images |-> s, filteredCount |-> None] :
            s \in {<<>>, [i \in 1..Least(n, 2) |-> ImageOf(None)], <<None, ImageOf(512)>>}}

Film(url, duration, size) ==
  [thrown |-> None, url |-> url, width |-> None, height |-> None, durationSeconds |-> duration, fileSizeBytes |-> size]
MCVideoReplies ==
  {[Film(None, None, None) EXCEPT !.thrown = code] : code \in {"video_generation_timeout", "video_generation_cancelled", "other"}}
    \cup {Film(None, None, None), Film("url", None, None), Film("url", 3, 300 * MB), Film("url", None, 700 * MB)}

MCSanitized == [name \in {"Spring Sale", "my key", "my_key"} |-> IF name = "Spring Sale" THEN "spring_sale" ELSE "my_key"]
=============================================================================
