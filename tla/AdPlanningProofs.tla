-------------------------- MODULE AdPlanningProofs --------------------------
(***************************************************************************)
(* The properties of AdPlanning, for any inputs its schemas allow and any    *)
(* number of nodes run one after the other.  The invariant says that each    *)
(* node gave what it makes of its inputs and that a storyboard is checked    *)
(* again with the options of the check before; the rest is about the         *)
(* functions the nodes compute.                                              *)
(***************************************************************************)
EXTENDS AdPlanning, ListsProofs

-----------------------------------------------------------------------------
(* The checks of a storyboard, and what they suggest.                        *)

\* The checks there are, and the scale below which a text is too small.
CheckNames ==
  {"Text reading speed", "Text scale", "CTA safe zone", "Opening text safe zone", "Safe zone compliance",
   "Duration compliance", "Minimum duration", "Maximum duration", "Recommended duration", "Text character count",
   "Text block count", "Text density", "Claims", "Claims compliance"}
FixNames == {"editPacing", "editTextScale", "updateText", "shortenDuration"}
AnyCheck ==
  [name : CheckNames, scene : Nat, passed : BOOLEAN, severity : {"info", "warning", "error"},
   fix : {Missing} \cup [type : FixNames, value : Int]]
MinScale(options) == Given(options.minTextScaleRatio, 4)

\* c is a check of a scene with a text.
OnText(c, storyboard) == c.scene \in DOMAIN storyboard.scenes /\ storyboard.scenes[c.scene].overlay # Missing

\* What a check that has a fix, or may have one, says of the storyboard.
PaceSays(c, storyboard) ==
  c.name = "Text reading speed" =>
    /\ OnText(c, storyboard)
    /\ ~c.passed => storyboard.scenes[c.scene].overlay.words > 4 * storyboard.scenes[c.scene].duration
    /\ c.fix # Missing => c.fix = [type |-> "editPacing", value |-> PacingFix(storyboard.scenes[c.scene].overlay.words)]
ScaleSays(c, storyboard, options) ==
  c.name = "Text scale" =>
    /\ OnText(c, storyboard)
    /\ storyboard.scenes[c.scene].scale < MinScale(options)
    /\ c.fix = [type |-> "editTextScale", value |-> MinScale(options)]
LongestSays(c, storyboard, options) ==
  c.name = "Maximum duration" =>
    /\ options.videoSpec # Missing /\ storyboard.totalDuration > options.videoSpec.maxDuration
    /\ c.fix = Shorten(options.videoSpec.maxDuration)
RecommendedSays(c, storyboard, options) ==
  c.name = "Recommended duration" =>
    /\ options.videoSpec # Missing
    /\ Given(options.videoSpec.recommendedDuration, 0) > 0
    /\ 2 * storyboard.totalDuration > 3 * Given(options.videoSpec.recommendedDuration, 0)
    /\ c.fix = Shorten(options.videoSpec.recommendedDuration)
ClaimsSay(c, storyboard) ==
  c.name = "Claims" =>
    c.scene \in DOMAIN storyboard.scenes /\ c.fix \in {Missing, [type |-> "updateText", value |-> 0]}
FixableNames == {"Text reading speed", "Text scale", "Maximum duration", "Recommended duration", "Claims"}

Says(c, storyboard, options) ==
  /\ PaceSays(c, storyboard) /\ ScaleSays(c, storyboard, options) /\ LongestSays(c, storyboard, options)
  /\ RecommendedSays(c, storyboard, options) /\ ClaimsSay(c, storyboard)
  /\ c.name \notin FixableNames => c.fix = Missing
Sound(storyboard, options) == {c \in AnyCheck : Says(c, storyboard, options)}

\* The storyboards and options a check is handed.
IsVideo(storyboard, options) ==
  /\ IsStoryboard(storyboard)
  /\ options.minTextScaleRatio \in Int \cup {Missing}
  /\ options.videoSpec = Missing \/ IsVideoSpec(options.videoSpec)

\* Flattened lists of elements of S are a list of elements of S.
LEMMA FlattenInto ==
  ASSUME NEW T, NEW N \in Nat, NEW parts, parts = [i \in 1..N |-> parts[i]], \A i \in 1..N : parts[i] \in Seq(T)
  PROVE  FlattenSeq(parts) \in Seq(T)
<1>1. parts \in Seq(Seq(T))
  OBVIOUS
<1> QED BY <1>1, FlattenRange

\* Checks without a fix say nothing of the storyboard.
LEMMA PlainSound ==
  ASSUME NEW storyboard, NEW options, NEW name \in CheckNames \ FixableNames, NEW scene \in Nat,
         NEW passed \in BOOLEAN, NEW severity \in {"info", "warning", "error"}
  PROVE  Check(name, scene, passed, severity, Missing) \in Sound(storyboard, options)
<1> DEFINE c == Check(name, scene, passed, severity, Missing)
<1>1. c.name = name /\ c.fix = Missing /\ c \in AnyCheck
  BY DEF Check, AnyCheck
<1>2. name \notin FixableNames
  OBVIOUS
<1> HIDE DEF c
<1>3. Says(c, storyboard, options)
  BY <1>1, <1>2 DEF Says, PaceSays, ScaleSays, LongestSays, RecommendedSays, ClaimsSay, FixableNames
<1> QED BY <1>1, <1>3 DEF Sound, c

\* A scene's checks are sound.
LEMMA SceneSound ==
  ASSUME NEW storyboard, NEW options, IsVideo(storyboard, options), NEW i \in DOMAIN storyboard.scenes,
         NEW scene, scene = storyboard.scenes[i], NEW min, min = MinScale(options), NEW S, S = Sound(storyboard, options)
  PROVE  SceneLegibility(scene, i, min) \in Seq(S)
<1> DEFINE slow == Check("Text reading speed", i, FALSE, "warning", [type |-> "editPacing", value |-> PacingFix(scene.overlay.words)])
           well == Passed("Text reading speed", i)
           small == Check("Text scale", i, FALSE, "warning", [type |-> "editTextScale", value |-> min])
<1>1. i \in Nat /\ IsScene(scene)
  BY DEF IsVideo, IsStoryboard, Range
<1>2. min \in Int
  BY DEF IsVideo, MinScale, Given
<1>3. CASE scene.overlay = Missing
  <2>1. SceneLegibility(scene, i, min) = <<>>
    BY <1>3 DEF SceneLegibility
  <2> QED BY <2>1
<1>4. CASE scene.overlay # Missing
  <2>1. scene.overlay.words \in Nat
    BY <1>1, <1>4 DEF IsScene
  <2>2. PacingFix(scene.overlay.words) \in Int
    BY <2>1 DEF PacingFix
  <2>3. scene.overlay.words > 4 * scene.duration => slow \in S
    <3> SUFFICES ASSUME scene.overlay.words > 4 * scene.duration PROVE slow \in S
      OBVIOUS
    <3>1. slow \in AnyCheck
      BY <1>1, <2>2 DEF AnyCheck, Check, CheckNames, FixNames
    <3>2. Says(slow, storyboard, options)
      BY <1>4 DEF Says, PaceSays, ScaleSays, LongestSays, RecommendedSays, ClaimsSay, FixableNames, OnText, Check
    <3> QED BY <3>1, <3>2 DEF Sound
  <2>4. well \in S
    <3>1. well \in AnyCheck
      BY <1>1 DEF AnyCheck, Passed, Check, CheckNames
    <3>2. Says(well, storyboard, options)
      BY <1>4 DEF Says, PaceSays, ScaleSays, LongestSays, RecommendedSays, ClaimsSay, FixableNames, OnText, Passed, Check
    <3> QED BY <3>1, <3>2 DEF Sound
  <2>5. scene.scale < min => small \in S
    <3> SUFFICES ASSUME scene.scale < min PROVE small \in S
      OBVIOUS
    <3>1. small \in AnyCheck
      BY <1>1, <1>2 DEF AnyCheck, Check, CheckNames, FixNames
    <3>2. Says(small, storyboard, options)
      BY <1>4 DEF Says, PaceSays, ScaleSays, LongestSays, RecommendedSays, ClaimsSay, FixableNames, OnText, Check
    <3> QED BY <3>1, <3>2 DEF Sound
  <2> DEFINE pace == IF scene.overlay.words > 4 * scene.duration THEN <<slow>> ELSE <<well>>
             scale == IF scene.scale = Missing THEN <<>> ELSE
                        Fails(scene.scale < min, "Text scale", i, "warning", [type |-> "editTextScale", value |-> min])
  <2>6. SceneLegibility(scene, i, min) = pace \o scale
    BY <1>4 DEF SceneLegibility
  <2>7. pace \in Seq(S)
    <3> HIDE DEF slow, well
    <3> QED BY <2>3, <2>4
  <2>8. scale \in Seq(S)
    <3>1. scale = <<>> \/ (scene.scale < min /\ scale = <<small>>)
      BY DEF Fails
    <3> HIDE DEF scale, small
    <3> QED BY <2>5, <3>1, ShortLists
  <2> HIDE DEF pace, scale
  <2> QED BY <2>6, <2>7, <2>8
<1> QED BY <1>3, <1>4

\* So are the checks of the legibility of all scenes.
LEMMA LegibilitySound ==
  ASSUME NEW storyboard, NEW options, IsVideo(storyboard, options)
  PROVE  CheckLegibility(storyboard, options) \in Seq(Sound(storyboard, options))
<1> DEFINE scenes == storyboard.scenes
           n == Len(scenes)
           S == Sound(storyboard, options)
           min == MinScale(options)
           parts == [i \in DOMAIN scenes |-> SceneLegibility(scenes[i], i, min)]
<1>1. n \in Nat /\ DOMAIN scenes = 1..n
  BY DEF IsVideo, IsStoryboard
<1>2. parts = [i \in 1..n |-> parts[i]]
  BY <1>1
<1>3. ASSUME NEW i \in 1..n
      PROVE  parts[i] \in Seq(S)
  <2>1. SceneLegibility(scenes[i], i, min) \in Seq(S)
    BY <1>1, SceneSound
  <2> QED BY <1>1, <2>1
<1>4. CheckLegibility(storyboard, options) = FlattenSeq(parts)
  BY DEF CheckLegibility, MinScale
<1> HIDE DEF parts, S, n
<1>5. FlattenSeq(parts) \in Seq(S)
  BY <1>1, <1>2, <1>3, FlattenInto
<1> QED BY <1>4, <1>5 DEF S

\* A check that fails without a fix is sound.
LEMMA FailsSound ==
  ASSUME NEW storyboard, NEW options, NEW condition, NEW name \in CheckNames \ FixableNames, NEW scene \in Nat,
         NEW severity \in {"info", "warning", "error"}
  PROVE  Fails(condition, name, scene, severity, Missing) \in Seq(Sound(storyboard, options))
<1> DEFINE S == Sound(storyboard, options)
           c == Check(name, scene, FALSE, severity, Missing)
<1>1. c \in S
  BY PlainSound
<1>2. Fails(condition, name, scene, severity, Missing) = IF condition THEN <<c>> ELSE <<>>
  BY DEF Fails
<1> HIDE DEF S, c
<1>3. (IF condition THEN <<c>> ELSE <<>>) \in Seq(S)
  BY <1>1, ShortLists
<1> QED BY <1>2, <1>3 DEF S

\* So is the check that passes where none failed.
LEMMA OrPassedSound ==
  ASSUME NEW storyboard, NEW options, NEW name \in CheckNames \ FixableNames,
         NEW checks \in Seq(Sound(storyboard, options))
  PROVE  OrPassed(checks, name) \in Seq(Sound(storyboard, options))
<1> DEFINE S == Sound(storyboard, options)
           c == Passed(name, 0)
<1>1. c \in S
  BY PlainSound DEF Passed
<1>2. OrPassed(checks, name) = IF checks = <<>> THEN <<c>> ELSE checks
  BY DEF OrPassed
<1> HIDE DEF S, c
<1>3. checks \in Seq(S)
  BY DEF S
<1>4. (IF checks = <<>> THEN <<c>> ELSE checks) \in Seq(S)
  BY <1>1, <1>3, ShortLists
<1> QED BY <1>2, <1>4 DEF S

\* Two lists of checks of each scene, one after the other, or that all passed.
LEMMA ScenesSound ==
  ASSUME NEW storyboard, NEW options, IsVideo(storyboard, options), NEW name \in CheckNames \ FixableNames,
         NEW parts, parts = [i \in DOMAIN storyboard.scenes |-> parts[i]],
         \A i \in DOMAIN storyboard.scenes : i \in Nat => parts[i] \in Seq(Sound(storyboard, options))
  PROVE  OrPassed(FlattenSeq(parts), name) \in Seq(Sound(storyboard, options))
<1> DEFINE n == Len(storyboard.scenes)
           S == Sound(storyboard, options)
<1>1. n \in Nat /\ DOMAIN storyboard.scenes = 1..n
  BY DEF IsVideo, IsStoryboard
<1> HIDE DEF n, S
<1>2. parts = [i \in 1..n |-> parts[i]]
  BY <1>1
<1>3. \A i \in 1..n : parts[i] \in Seq(S)
  BY <1>1 DEF S
<1>4. FlattenSeq(parts) \in Seq(S)
  BY <1>1, <1>2, <1>3, FlattenInto
<1> DEFINE checks == FlattenSeq(parts)
<1>5. checks \in Seq(Sound(storyboard, options))
  BY <1>4 DEF S
<1> HIDE DEF checks
<1>6. OrPassed(checks, name) \in Seq(Sound(storyboard, options))
  BY <1>5, OrPassedSound
<1> QED BY <1>6 DEF checks

\* The checks of the safe zones are sound.
LEMMA SafeZonesSound ==
  ASSUME NEW storyboard, NEW options, IsVideo(storyboard, options)
  PROVE  CheckSafeZones(storyboard, options) \in Seq(Sound(storyboard, options))
<1> DEFINE scenes == storyboard.scenes
           S == Sound(storyboard, options)
           bottom == \E z \in options.safeZones : z.top >= 70
           top == \E z \in options.safeZones : z.top <= 15 /\ z.height >= 10
           Cta(i) == Fails(scenes[i].contentType = "cta" /\ scenes[i].overlay # Missing /\ bottom, "CTA safe zone", i, "warning", Missing)
           Opening(i) == Fails(i = 1 /\ scenes[i].overlay # Missing /\ top, "Opening text safe zone", i, "info", Missing)
           parts == [i \in DOMAIN scenes |-> Cta(i) \o Opening(i)]
<1>1. CheckSafeZones(storyboard, options) = IF options.safeZones = {} THEN <<>> ELSE OrPassed(FlattenSeq(parts), "Safe zone compliance")
  BY DEF CheckSafeZones
<1>2. ASSUME NEW i \in DOMAIN scenes, i \in Nat
      PROVE  parts[i] \in Seq(S)
  <2>1. Cta(i) \in Seq(S)
    BY <1>2, FailsSound DEF CheckNames, FixableNames
  <2>2. Opening(i) \in Seq(S)
    BY <1>2, FailsSound DEF CheckNames, FixableNames
  <2>3. parts[i] = Cta(i) \o Opening(i)
    OBVIOUS
  <2> HIDE DEF parts, Cta, Opening, S
  <2> QED BY <2>1, <2>2, <2>3
<1>3. parts = [i \in DOMAIN scenes |-> parts[i]]
  OBVIOUS
<1> HIDE DEF parts
<1>4. OrPassed(FlattenSeq(parts), "Safe zone compliance") \in Seq(S)
  <2>1. "Safe zone compliance" \in CheckNames \ FixableNames
    BY DEF CheckNames, FixableNames
  <2> QED BY <1>2, <1>3, <2>1, ScenesSound
<1> HIDE DEF S
<1> QED BY <1>1, <1>4, ShortLists DEF S

\* The checks of the density of the text are sound.
LEMMA TextDensitySound ==
  ASSUME NEW storyboard, NEW options, IsVideo(storyboard, options)
  PROVE  CheckTextDensity(storyboard, options) \in Seq(Sound(storyboard, options))
<1> DEFINE scenes == storyboard.scenes
           S == Sound(storyboard, options)
           Chars(i) == Fails(Total(Parts(scenes[i]), LAMBDA p : p.chars) > Given(options.maxCharsPerScene, 120),
                             "Text character count", i, "warning", Missing)
           Blocks(i) == Fails(Len(Parts(scenes[i])) > Given(options.maxTextBlocksPerScene, 2), "Text block count", i, "warning", Missing)
           parts == [i \in DOMAIN scenes |-> Chars(i) \o Blocks(i)]
<1>1. CheckTextDensity(storyboard, options) = OrPassed(FlattenSeq(parts), "Text density")
  BY DEF CheckTextDensity
<1>2. ASSUME NEW i \in DOMAIN scenes, i \in Nat
      PROVE  parts[i] \in Seq(S)
  <2>1. Chars(i) \in Seq(S)
    <3> DEFINE many == Total(Parts(scenes[i]), LAMBDA p : p.chars) > Given(options.maxCharsPerScene, 120)
    <3> HIDE DEF many
    <3>1. Fails(many, "Text character count", i, "warning", Missing) \in Seq(S)
      BY <1>2, FailsSound DEF CheckNames, FixableNames
    <3> QED BY <3>1 DEF many
  <2>2. Blocks(i) \in Seq(S)
    <3> DEFINE many == Len(Parts(scenes[i])) > Given(options.maxTextBlocksPerScene, 2)
    <3> HIDE DEF many
    <3>1. Fails(many, "Text block count", i, "warning", Missing) \in Seq(S)
      BY <1>2, FailsSound DEF CheckNames, FixableNames
    <3> QED BY <3>1 DEF many
  <2>3. parts[i] = Chars(i) \o Blocks(i)
    OBVIOUS
  <2> HIDE DEF parts, Chars, Blocks, S
  <2> QED BY <2>1, <2>2, <2>3
<1>3. parts = [i \in DOMAIN scenes |-> parts[i]]
  OBVIOUS
<1> HIDE DEF parts
<1>4. OrPassed(FlattenSeq(parts), "Text density") \in Seq(S)
  <2>1. "Text density" \in CheckNames \ FixableNames
    BY DEF CheckNames, FixableNames
  <2> QED BY <1>2, <1>3, <2>1, ScenesSound
<1> QED BY <1>1, <1>4

\* The checks of the duration are sound.
LEMMA DurationSound ==
  ASSUME NEW storyboard, NEW options, IsVideo(storyboard, options)
  PROVE  CheckDuration(storyboard, options) \in Seq(Sound(storyboard, options))
<1> DEFINE spec == options.videoSpec
           total == storyboard.totalDuration
           S == Sound(storyboard, options)
           short == Check("Minimum duration", 0, FALSE, "error", Missing)
           long == Check("Maximum duration", 0, FALSE, "error", Shorten(spec.maxDuration))
           well == Passed("Duration compliance", 0)
           rather == Check("Recommended duration", 0, FALSE, "warning", Shorten(spec.recommendedDuration))
           Longer == Given(spec.recommendedDuration, 0) > 0 /\ 2 * total > 3 * Given(spec.recommendedDuration, 0)
<1>1. CASE spec = Missing
  <2>1. CheckDuration(storyboard, options) = <<>>
    BY <1>1 DEF CheckDuration
  <2> QED BY <2>1, ShortLists
<1>2. CASE spec # Missing
  <2>1. spec.maxDuration \in Int /\ spec.recommendedDuration \in Int \cup {Missing}
    BY <1>2 DEF IsVideo, IsVideoSpec
  <2>2. short \in S /\ well \in S
    BY PlainSound DEF CheckNames, FixableNames, Passed
  <2>3. total > spec.maxDuration => long \in S
    <3> SUFFICES ASSUME total > spec.maxDuration PROVE long \in S
      OBVIOUS
    <3>1. long \in AnyCheck
      BY <2>1 DEF AnyCheck, Check, CheckNames, FixNames, Shorten
    <3>2. Says(long, storyboard, options)
      BY <1>2 DEF Says, PaceSays, ScaleSays, LongestSays, RecommendedSays, ClaimsSay, FixableNames, Check
    <3> QED BY <3>1, <3>2 DEF Sound
  <2>4. Longer => rather \in S
    <3> SUFFICES ASSUME Longer PROVE rather \in S
      OBVIOUS
    <3>1. spec.recommendedDuration \in Int
      BY <2>1 DEF Given
    <3>2. rather \in AnyCheck
      BY <3>1 DEF AnyCheck, Check, CheckNames, FixNames, Shorten
    <3>3. Says(rather, storyboard, options)
      BY <1>2 DEF Says, PaceSays, ScaleSays, LongestSays, RecommendedSays, ClaimsSay, FixableNames, Check
    <3> QED BY <3>2, <3>3 DEF Sound
  <2> DEFINE limits == IF total < spec.minDuration THEN <<short>> ELSE IF total > spec.maxDuration THEN <<long>> ELSE <<well>>
             recommended == Fails(Longer, "Recommended duration", 0, "warning", Shorten(spec.recommendedDuration))
  <2>5. CheckDuration(storyboard, options) = limits \o recommended
    BY <1>2 DEF CheckDuration
  <2>6. limits \in Seq(S)
    <3> HIDE DEF short, long, well, S
    <3> QED BY <2>2, <2>3, ShortLists
  <2>7. recommended \in Seq(S)
    <3>1. recommended = <<>> \/ (Longer /\ recommended = <<rather>>)
      BY DEF Fails
    <3> HIDE DEF recommended, rather, Longer, S
    <3> QED BY <2>4, <3>1, ShortLists
  <2> HIDE DEF limits, recommended, S
  <2> QED BY <2>5, <2>6, <2>7 DEF S
<1> QED BY <1>1, <1>2

\* The checks of the claims are sound.
LEMMA ClaimsSound ==
  ASSUME NEW storyboard, NEW options, IsVideo(storyboard, options)
  PROVE  CheckClaims(storyboard, options) \in Seq(Sound(storyboard, options))
<1> DEFINE scenes == storyboard.scenes
           S == Sound(storyboard, options)
           Found(i) == Only(Parts(scenes[i]), LAMBDA p : p.claim # "none")
           Claim(i, p) == IF p.claim = "block" THEN Check("Claims", i, FALSE, "error", [type |-> "updateText", value |-> 0])
                          ELSE Check("Claims", i, FALSE, "warning", Missing)
           parts == [i \in DOMAIN scenes |-> Each(Found(i), LAMBDA p : Claim(i, p))]
<1>1. CheckClaims(storyboard, options) = IF ~options.claimsChecked THEN <<>> ELSE OrPassed(FlattenSeq(parts), "Claims compliance")
  BY DEF CheckClaims
<1>2. ASSUME NEW i \in DOMAIN scenes, i \in Nat
      PROVE  parts[i] \in Seq(S)
  <2> DEFINE T == {scenes[i].overlay, scenes[i].voiceover}
             both == <<scenes[i].overlay, scenes[i].voiceover>>
  <2>1. both \in Seq(T)
    OBVIOUS
  <2>2. Parts(scenes[i]) = KeptAt(both, {k \in DOMAIN both : both[k] # Missing})
    BY DEF Parts, Only, KeptAt
  <2> HIDE DEF T, both
  <2>3. Parts(scenes[i]) \in Seq(T)
    BY <2>1, <2>2, KeptRange
  <2> DEFINE p == Parts(scenes[i])
  <2>4. Found(i) = KeptAt(p, {k \in DOMAIN p : p[k].claim # "none"})
    BY DEF Only, KeptAt
  <2>5. Found(i) \in Seq(T)
    <3> HIDE DEF p, Found
    <3> QED BY <2>3, <2>4, KeptRange DEF p
  <2>6. ASSUME NEW x PROVE Claim(i, x) \in S
    <3>1. Check("Claims", i, FALSE, "error", [type |-> "updateText", value |-> 0]) \in S
      <4> DEFINE c == Check("Claims", i, FALSE, "error", [type |-> "updateText", value |-> 0])
      <4>1. c \in AnyCheck
        BY <1>2 DEF AnyCheck, Check, CheckNames, FixNames
      <4>2. Says(c, storyboard, options)
        BY DEF Says, PaceSays, ScaleSays, LongestSays, RecommendedSays, ClaimsSay, FixableNames, Check
      <4> QED BY <4>1, <4>2 DEF Sound
    <3>2. Check("Claims", i, FALSE, "warning", Missing) \in S
      <4> DEFINE c == Check("Claims", i, FALSE, "warning", Missing)
      <4>1. c \in AnyCheck
        BY <1>2 DEF AnyCheck, Check, CheckNames, FixNames
      <4>2. Says(c, storyboard, options)
        BY DEF Says, PaceSays, ScaleSays, LongestSays, RecommendedSays, ClaimsSay, FixableNames, Check
      <4> QED BY <4>1, <4>2 DEF Sound
    <3> HIDE DEF S
    <3> QED BY <3>1, <3>2
  <2>7. parts[i] = [k \in DOMAIN Found(i) |-> Claim(i, Found(i)[k])]
    BY DEF Each
  <2> HIDE DEF Found, Claim, S, parts
  <2>8. DOMAIN Found(i) = 1..Len(Found(i)) /\ Len(Found(i)) \in Nat
    BY <2>5
  <2> QED BY <2>6, <2>7, <2>8
<1>3. parts = [i \in DOMAIN scenes |-> parts[i]]
  OBVIOUS
<1> HIDE DEF parts
<1>4. OrPassed(FlattenSeq(parts), "Claims compliance") \in Seq(S)
  <2>1. "Claims compliance" \in CheckNames \ FixableNames
    BY DEF CheckNames, FixableNames
  <2> QED BY <1>2, <1>3, <2>1, ScenesSound
<1> HIDE DEF S
<1> QED BY <1>1, <1>4, ShortLists DEF S

\* Every check says of the storyboard what its fix is for.
LEMMA ChecksSound ==
  ASSUME NEW storyboard, NEW options, IsVideo(storyboard, options)
  PROVE  RunVideoQA(storyboard, options).checks \in Seq(Sound(storyboard, options))
<1> DEFINE S == Sound(storyboard, options)
           a == CheckLegibility(storyboard, options)
           b == CheckSafeZones(storyboard, options)
           c == CheckDuration(storyboard, options)
           d == CheckTextDensity(storyboard, options)
           e == CheckClaims(storyboard, options)
<1>1. a \in Seq(S) /\ b \in Seq(S) /\ c \in Seq(S) /\ d \in Seq(S) /\ e \in Seq(S)
  BY LegibilitySound, SafeZonesSound, DurationSound, TextDensitySound, ClaimsSound
<1>2. RunVideoQA(storyboard, options).checks = a \o b \o c \o d \o e
  BY DEF RunVideoQA
<1> HIDE DEF a, b, c, d, e, S
<1> QED BY <1>1, <1>2 DEF S

-----------------------------------------------------------------------------
(* A fix leads to one storyboard whose check passes.                          *)

\* A scene of a storyboard may be replaced by another one.
LEMMA SceneReplaced ==
  ASSUME NEW storyboard, IsStoryboard(storyboard), NEW i \in DOMAIN storyboard.scenes, NEW scene, IsScene(scene),
         NEW fixed, fixed = [scenes |-> fixed.scenes, totalDuration |-> fixed.totalDuration],
         fixed.scenes = [storyboard.scenes EXCEPT ![i] = scene]
  PROVE  IsStoryboard(fixed) /\ i \in DOMAIN fixed.scenes /\ fixed.scenes[i] = scene
<1> DEFINE s == storyboard.scenes
           t == fixed.scenes
           n == Len(s)
<1>1. s \in Seq(Range(s)) /\ \A x \in Range(s) : IsScene(x)
  BY DEF IsStoryboard
<1>2. n \in Nat /\ DOMAIN s = 1..n /\ \A k \in 1..n : s[k] \in Range(s)
  BY <1>1 DEF Range
<1>3. t = [s EXCEPT ![i] = scene]
  OBVIOUS
<1> HIDE DEF s, t, n
<1>4. DOMAIN t = 1..n /\ i \in 1..n /\ t[i] = scene
  BY <1>2, <1>3 DEF s
<1>5. \A k \in 1..n : t[k] \in Range(t) /\ IsScene(t[k])
  <2>1. ASSUME NEW k \in 1..n PROVE t[k] \in Range(t) /\ IsScene(t[k])
    <3>1. t[k] \in Range(t)
      BY <1>4 DEF Range
    <3>2. CASE k = i
      BY <1>4, <3>1, <3>2
    <3>3. CASE k # i
      <4>1. t[k] = s[k]
        BY <1>2, <1>3, <3>3
      <4> QED BY <1>1, <1>2, <3>1, <4>1
    <3> QED BY <3>2, <3>3
  <2> QED BY <2>1
<1>6. t = [k \in 1..n |-> t[k]]
  BY <1>2, <1>3
<1>7. t \in Seq(Range(t))
  <2> DEFINE R == Range(t)
  <2>1. \A k \in 1..n : t[k] \in R
    BY <1>5
  <2> HIDE DEF R
  <2>2. t \in Seq(R)
    BY <1>2, <1>6, <2>1
  <2> QED BY <2>2 DEF R
<1>8. \A x \in Range(t) : IsScene(x)
  BY <1>4, <1>5 DEF Range
<1> QED BY <1>4, <1>7, <1>8 DEF IsStoryboard, t

\* A scene stays one with another duration, another scale, or without its text.
LEMMA SceneEdited ==
  ASSUME NEW scene, IsScene(scene)
  PROVE  /\ \A v \in Nat : LET t == [scene EXCEPT !.duration = v]
                           IN IsScene(t) /\ t.overlay = scene.overlay /\ t.duration = v
         /\ \A v : LET t == [scene EXCEPT !.scale = v] IN IsScene(t) /\ t.scale = v
         /\ IsScene([scene EXCEPT !.overlay = Missing])
<1> DEFINE Made(o, v, d, s, c) == [overlay |-> o, voiceover |-> v, duration |-> d, scale |-> s, contentType |-> c]
<1>1. PICK o, v, d, s, c : scene = Made(o, v, d, s, c)
  BY DEF IsScene
<1>2. scene.overlay = o /\ scene.duration = d
  BY <1>1
<1>3. (o = Missing \/ o.words \in Nat) /\ d \in Nat
  BY <1>2 DEF IsScene
<1>4. \A x : [scene EXCEPT !.duration = x] = Made(o, v, x, s, c)
  BY <1>1
<1>5. \A x : [scene EXCEPT !.scale = x] = Made(o, v, d, x, c)
  BY <1>1
<1>6. [scene EXCEPT !.overlay = Missing] = Made(Missing, v, d, s, c)
  BY <1>1
<1>7. \A x : x \in Nat => IsScene(Made(o, v, x, s, c)) /\ Made(o, v, x, s, c).overlay = o /\ Made(o, v, x, s, c).duration = x
  BY <1>3 DEF IsScene
<1>8. \A x : IsScene(Made(o, v, d, x, c)) /\ Made(o, v, d, x, c).scale = x
  BY <1>3 DEF IsScene
<1>9. IsScene(Made(Missing, v, d, s, c))
  BY <1>3 DEF IsScene
<1> HIDE DEF Made
<1>10. ASSUME NEW x \in Nat
       PROVE  LET t == [scene EXCEPT !.duration = x] IN IsScene(t) /\ t.overlay = scene.overlay /\ t.duration = x
  BY <1>2, <1>4, <1>7
<1>11. ASSUME NEW x
       PROVE  LET t == [scene EXCEPT !.scale = x] IN IsScene(t) /\ t.scale = x
  BY <1>5, <1>8
<1>12. IsScene([scene EXCEPT !.overlay = Missing])
  BY <1>6, <1>9
<1> QED BY <1>10, <1>11, <1>12

\* A fix leaves a storyboard, in which a check of the same scene no longer fails.
LEMMA FixIsOne ==
  ASSUME NEW storyboard, NEW options, IsVideo(storyboard, options), NEW c \in Sound(storyboard, options), c.fix # Missing
  PROVE  /\ IsStoryboard(ApplyFix(storyboard, c))
         /\ \A d \in Sound(ApplyFix(storyboard, c), options) :
              c.name # "Claims" /\ d.name = c.name /\ d.scene = c.scene => d.passed
<1> DEFINE fixed == ApplyFix(storyboard, c)
           i == c.scene
           scene == storyboard.scenes[i]
<1>1. Says(c, storyboard, options) /\ c \in AnyCheck
  BY DEF Sound
<1>2. c.name \in FixableNames
  BY <1>1 DEF Says
<1>3. ASSUME NEW d \in Sound(fixed, options)
      PROVE  Says(d, fixed, options) /\ d \in AnyCheck
  BY DEF Sound
<1>4. /\ IsStoryboard(storyboard)
      /\ storyboard = [scenes |-> storyboard.scenes, totalDuration |-> storyboard.totalDuration]
      /\ \A k \in DOMAIN storyboard.scenes : IsScene(storyboard.scenes[k])
  BY DEF IsVideo, IsStoryboard, Range
<1>5. PICK ss, total : storyboard = [scenes |-> ss, totalDuration |-> total] /\ ss = storyboard.scenes /\ total = storyboard.totalDuration
  BY <1>4
<1>6. CASE c.name = "Text reading speed"
  <2> DEFINE words == scene.overlay.words
             v == PacingFix(words)
             t == [scene EXCEPT !.duration = v]
  <2>1. OnText(c, storyboard) /\ c.fix = [type |-> "editPacing", value |-> v]
    BY <1>1, <1>6 DEF Says, PaceSays
  <2>2. i \in DOMAIN storyboard.scenes /\ scene.overlay # Missing /\ IsScene(scene)
    BY <1>4, <2>1 DEF OnText
  <2>3. words \in Nat
    BY <2>2 DEF IsScene
  <2>4. v \in Nat /\ words <= 4 * v
    <3> HIDE DEF words
    <3> QED BY <2>3 DEF PacingFix
  <2>5. IsScene(t) /\ t.overlay = scene.overlay /\ t.duration = v
    <3> HIDE DEF v, scene
    <3> QED BY <2>2, <2>4, SceneEdited
  <2>6. c.fix.type = "editPacing" /\ c.fix.value = v
    BY <2>1
  <2>7. fixed = [storyboard EXCEPT !.scenes[i].duration = v, !.totalDuration = @ + v - scene.duration]
    <3> HIDE DEF v
    <3> QED BY <2>6 DEF ApplyFix
  <2>8. /\ fixed.scenes = [storyboard.scenes EXCEPT ![i] = t]
        /\ fixed = [scenes |-> fixed.scenes, totalDuration |-> fixed.totalDuration]
    <3> HIDE DEF v, fixed, i
    <3> QED BY <1>5, <2>7
  <2> HIDE DEF fixed, t, v
  <2>9. IsStoryboard(fixed) /\ i \in DOMAIN fixed.scenes /\ fixed.scenes[i] = t
    BY <1>4, <2>2, <2>5, <2>8, SceneReplaced
  <2>10. ASSUME NEW d \in Sound(fixed, options), d.name = c.name, d.scene = c.scene, ~d.passed
         PROVE  FALSE
    <3>1. fixed.scenes[d.scene].overlay.words > 4 * fixed.scenes[d.scene].duration
      BY <1>3, <1>6, <2>10 DEF Says, PaceSays
    <3>2. fixed.scenes[d.scene] = t
      BY <2>9, <2>10
    <3>3. words > 4 * v
      BY <2>5, <3>1, <3>2
    <3> HIDE DEF words
    <3> QED BY <2>3, <2>4, <3>3
  <2>11. \A d \in Sound(fixed, options) : d.passed \in BOOLEAN
    BY <1>3 DEF AnyCheck
  <2> QED BY <2>9, <2>10, <2>11 DEF fixed
<1>7. CASE c.name = "Text scale"
  <2> DEFINE v == MinScale(options)
             t == [scene EXCEPT !.scale = v]
  <2>1. OnText(c, storyboard) /\ c.fix = [type |-> "editTextScale", value |-> v]
    BY <1>1, <1>7 DEF Says, ScaleSays
  <2>2. i \in DOMAIN storyboard.scenes /\ IsScene(scene)
    BY <1>4, <2>1 DEF OnText
  <2>3. v \in Int
    BY DEF IsVideo, MinScale, Given
  <2>4. IsScene(t) /\ t.scale = v
    <3> HIDE DEF v, scene
    <3> QED BY <2>2, SceneEdited
  <2>5. c.fix.type = "editTextScale" /\ c.fix.value = v
    BY <2>1
  <2>6. fixed = [storyboard EXCEPT !.scenes[i].scale = v]
    <3> HIDE DEF v
    <3> QED BY <2>5 DEF ApplyFix
  <2>7. /\ fixed.scenes = [storyboard.scenes EXCEPT ![i] = t]
        /\ fixed = [scenes |-> fixed.scenes, totalDuration |-> fixed.totalDuration]
    <3> HIDE DEF v, fixed, i
    <3> QED BY <1>5, <2>6
  <2> HIDE DEF fixed, t, v
  <2>8. IsStoryboard(fixed) /\ i \in DOMAIN fixed.scenes /\ fixed.scenes[i] = t
    BY <1>4, <2>2, <2>4, <2>7, SceneReplaced
  <2>9. ASSUME NEW d \in Sound(fixed, options), d.name = c.name, d.scene = c.scene
        PROVE  FALSE
    <3>1. fixed.scenes[d.scene].scale < v
      BY <1>3, <1>7, <2>9 DEF Says, ScaleSays, v
    <3>2. fixed.scenes[d.scene] = t
      BY <2>8, <2>9
    <3> QED BY <2>3, <2>4, <3>1, <3>2
  <2> QED BY <2>8, <2>9 DEF fixed
<1>8. CASE c.name \in {"Maximum duration", "Recommended duration"}
  <2> DEFINE v == c.fix.value
  <2>1. options.videoSpec # Missing /\ options.videoSpec.maxDuration \in Int /\ options.videoSpec.recommendedDuration \in Int \cup {Missing}
    BY <1>1, <1>8 DEF Says, LongestSays, RecommendedSays, IsVideo, IsVideoSpec
  <2>2. \A x : Shorten(x).type = "shortenDuration" /\ Shorten(x).value = x
    BY DEF Shorten
  <2>3. LongestSays(c, storyboard, options) /\ RecommendedSays(c, storyboard, options)
    BY <1>1 DEF Says
  <2>4. c.name = "Maximum duration" => c.fix = Shorten(options.videoSpec.maxDuration)
    BY <2>3 DEF LongestSays
  <2>5. c.name = "Recommended duration" =>
          c.fix = Shorten(options.videoSpec.recommendedDuration) /\ Given(options.videoSpec.recommendedDuration, 0) > 0
    BY <2>3 DEF RecommendedSays
  <2>6. c.fix.type = "shortenDuration"
    BY <1>8, <2>2, <2>4, <2>5
  <2>7. fixed = [storyboard EXCEPT !.totalDuration = v]
    BY <2>6 DEF ApplyFix
  <2>8. fixed = [scenes |-> ss, totalDuration |-> v]
    <3> HIDE DEF v, fixed
    <3> QED BY <1>5, <2>7
  <2> HIDE DEF fixed, v
  <2>9. IsStoryboard(fixed)
    BY <1>4, <1>5, <2>8 DEF IsStoryboard
  <2>10. ASSUME NEW d \in Sound(fixed, options), d.name = c.name
        PROVE  FALSE
    <3>1. CASE c.name = "Maximum duration"
      <4>1. v = options.videoSpec.maxDuration
        BY <2>2, <2>4, <3>1 DEF v
      <4>2. fixed.totalDuration > options.videoSpec.maxDuration
        BY <1>3, <2>10, <3>1 DEF Says, LongestSays
      <4> QED BY <2>1, <2>8, <4>1, <4>2
    <3>2. CASE c.name = "Recommended duration"
      <4>1. v = options.videoSpec.recommendedDuration /\ Given(v, 0) > 0
        BY <2>2, <2>5, <3>2 DEF v
      <4>2. v \in Int /\ v > 0 /\ Given(v, 0) = v
        BY <2>1, <4>1 DEF Given
      <4>3. 2 * fixed.totalDuration > 3 * Given(options.videoSpec.recommendedDuration, 0)
        BY <1>3, <2>10, <3>2 DEF Says, RecommendedSays
      <4> QED BY <2>8, <4>1, <4>2, <4>3
    <3> QED BY <1>8, <3>1, <3>2
  <2> QED BY <2>9, <2>10 DEF fixed
<1>9. CASE c.name = "Claims"
  <2>1. i \in DOMAIN storyboard.scenes /\ c.fix = [type |-> "updateText", value |-> 0] /\ IsScene(scene)
    BY <1>1, <1>4, <1>9 DEF Says, ClaimsSay
  <2> DEFINE t == [scene EXCEPT !.overlay = Missing]
  <2>2. IsScene(t)
    <3> HIDE DEF scene
    <3> QED BY <2>1, SceneEdited
  <2>3. fixed = [storyboard EXCEPT !.scenes[i].overlay = Missing]
    BY <2>1 DEF ApplyFix
  <2>4. /\ fixed.scenes = [storyboard.scenes EXCEPT ![i] = t]
        /\ fixed = [scenes |-> fixed.scenes, totalDuration |-> fixed.totalDuration]
    <3> HIDE DEF fixed, i
    <3> QED BY <1>5, <2>3
  <2> HIDE DEF fixed, t
  <2>5. IsStoryboard(fixed)
    BY <1>4, <2>1, <2>2, <2>4, SceneReplaced
  <2> QED BY <1>9, <2>5 DEF fixed
<1> QED BY <1>2, <1>6, <1>7, <1>8, <1>9 DEF FixableNames

-----------------------------------------------------------------------------
(* The invariant: what a node gave is what it makes of its inputs.            *)

\* What a node gave is what it makes of its inputs.
IsRun(run) == run.node \in Nodes /\ IsInput(run.node, run.in) /\ run.out = Outcome(run.node, run.in)
\* A storyboard is checked again after a check, with the options of that one.
IsChecked(before, after) ==
  before.node = "ads.video.qa" /\ before.out.status = "success" /\ after.in.options = before.in.options

PlanningInvariant ==
  /\ done \in Seq(Range(done)) /\ \A run \in Range(done) : IsRun(run)
  /\ \A i \in 2..Len(done) : done[i].node = "ads.video.qa" => IsChecked(done[i - 1], done[i])

\* A run that is one, and a check that follows a check, are added.
LEMMA RunAdded ==
  ASSUME PlanningInvariant, NEW n \in Nodes, NEW in, IsInput(n, in), Run(n, in),
         done # <<>> /\ n = "ads.video.qa" => IsChecked(Previous, [node |-> n, in |-> in, out |-> Outcome(n, in)])
  PROVE  PlanningInvariant'
<1> DEFINE run == [node |-> n, in |-> in, out |-> Outcome(n, in)]
           N == Len(done)
           R == Range(done)
           S == R \cup {run}
<1>1. run.node = n /\ run.in = in /\ run.out = Outcome(n, in)
  OBVIOUS
<1>2. IsRun(run)
  BY <1>1 DEF IsRun
<1>3. done' = Append(done, run)
  BY DEF Run
<1>4. done \in Seq(R) /\ (\A x \in R : IsRun(x))
  BY DEF PlanningInvariant
<1>5. done # <<>> /\ run.node = "ads.video.qa" => IsChecked(done[N], run)
  BY <1>1 DEF Previous
<1>6. \A i \in 2..N : done[i].node = "ads.video.qa" => IsChecked(done[i - 1], done[i])
  BY DEF PlanningInvariant
<1> HIDE DEF run, R
<1>7. \A x \in S : IsRun(x)
  BY <1>2, <1>4
<1>8. N \in Nat /\ done \in Seq(S) /\ run \in S
  BY <1>4
<1> HIDE DEF S, N
<1>9. /\ done' \in Seq(S) /\ Len(done') = N + 1 /\ DOMAIN done' = 1..(N + 1)
      /\ done'[N + 1] = run /\ \A i \in 1..N : done'[i] = done[i]
  BY <1>3, <1>8 DEF N
<1>10. Range(done') \in SUBSET S /\ \A i \in 1..(N + 1) : done'[i] \in Range(done')
  <2>1. \A i \in 1..(N + 1) : done'[i] \in S
    BY <1>9
  <2> QED BY <1>9, <2>1 DEF Range
<1>11. done' \in Seq(Range(done')) /\ \A x \in Range(done') : IsRun(x)
  <2> DEFINE T == Range(done')
  <2>1. T \in SUBSET S /\ \A i \in 1..(N + 1) : done'[i] \in T
    BY <1>10
  <2> HIDE DEF T
  <2>2. done' \in Seq(T)
    BY <1>8, <1>9, <2>1
  <2> QED BY <1>7, <2>1, <2>2 DEF T
<1>12. ASSUME NEW i \in 2..Len(done'), done'[i].node = "ads.video.qa"
       PROVE  IsChecked(done'[i - 1], done'[i])
  <2>1. CASE i <= N
    <3>1. i \in 2..N /\ i \in 1..N /\ i - 1 \in 1..N
      BY <1>8, <2>1
    <3> QED BY <1>6, <1>9, <1>12, <3>1 DEF N
  <2>2. CASE i = N + 1
    <3>1. N # 0 /\ i - 1 = N /\ N \in 1..N
      BY <1>8, <2>2
    <3>2. done # <<>>
      BY <3>1 DEF N
    <3> QED BY <1>5, <1>9, <1>12, <2>2, <3>1, <3>2
  <2> QED BY <1>8, <1>9, <2>1, <2>2
<1>13. \A x \in Range(done)' : IsRun(x)
  BY <1>11 DEF Range
<1> QED BY <1>11, <1>12 DEF PlanningInvariant, IsRun, IsChecked, Range

\* The run before is one.
LEMMA PreviousIsRun ==
  ASSUME PlanningInvariant, done # <<>>
  PROVE  IsRun(Previous)
<1>1. done \in Seq(Range(done)) /\ \A run \in Range(done) : IsRun(run)
  BY DEF PlanningInvariant
<1>2. Len(done) \in DOMAIN done
  BY <1>1
<1>3. Previous \in Range(done)
  BY <1>2 DEF Previous, Range
<1> QED BY <1>1, <1>3

\* A plan that is created is one.
LEMMA CreatedIsPlan ==
  ASSUME NEW in, IsInput("ads.variant.plan", in), in.mode = "create", VariantPlan(in).plan # Missing
  PROVE  IsPlan(VariantPlan(in).plan)
<1> DEFINE plan == CreateVariantPlan(in)
           check == ValidateVariantPlan(plan)
<1>1. ~(~in.briefId \/ in.axes = Missing)
  <2> SUFFICES ASSUME ~in.briefId \/ in.axes = Missing PROVE FALSE
    OBVIOUS
  <2>1. VariantPlan(in) = [status |-> "success", plan |-> Missing, error |-> "axes are required"]
    BY DEF VariantPlan
  <2>2. VariantPlan(in).plan = Missing
    <3> HIDE DEF plan, check
    <3>1. \A e : [status |-> "success", plan |-> Missing, error |-> e].plan = Missing
      OBVIOUS
    <3> QED BY <2>1, <3>1
  <2> QED BY <2>2
<1>2. VariantPlan(in) = Over([status |-> "success", plan |-> plan], check)
  BY <1>1 DEF VariantPlan, WithValidation
<1>3. IsAxes(in.axes) /\ in.maxVariants \in Int \cup {Missing}
  BY <1>1 DEF IsInput
<1>4. plan.axes = in.axes /\ plan.maxVariantsTotal = Given(in.maxVariants, 20)
  BY DEF CreateVariantPlan
<1> HIDE DEF plan, check
<1>5. VariantPlan(in).plan = plan
  BY <1>2 DEF Over
<1>6. plan.maxVariantsTotal \in Int
  BY <1>3, <1>4 DEF Given
<1> QED BY <1>3, <1>4, <1>5, <1>6 DEF IsPlan

\* Storyboards are checked.
LEMMA CheckedRun ==
  ASSUME NEW run, IsRun(run), run.node = "ads.video.qa", run.out.status = "success"
  PROVE  /\ IsVideo(run.in.storyboard, run.in.options)
         /\ run.out.checks \in Seq(Sound(run.in.storyboard, run.in.options))
<1>1. run.out = VideoQA(run.in) /\ IsInput("ads.video.qa", run.in)
  BY DEF IsRun, Outcome
<1>2. run.in.storyboard # Missing
  <2>1. Error("MISSING_STORYBOARD").status = "error"
    BY DEF Error
  <2> QED BY <1>1, <2>1 DEF VideoQA
<1>3. IsVideo(run.in.storyboard, run.in.options)
  BY <1>1, <1>2 DEF IsInput, IsVideo
<1>4. run.out = RunVideoQA(run.in.storyboard, run.in.options)
  BY <1>1, <1>2 DEF VideoQA
<1> QED BY <1>3, <1>4, ChecksSound

\* The invariant holds before a node has run.
LEMMA PlanningInvariantStarts == Init => PlanningInvariant
<1> SUFFICES ASSUME Init PROVE PlanningInvariant
  OBVIOUS
<1>1. done = <<>> /\ Len(done) = 0 /\ DOMAIN done = {}
  BY DEF Init
<1>2. Range(done) = {}
  BY <1>1 DEF Range
<1>3. done \in Seq({})
  BY <1>1, ShortLists
<1> QED BY <1>1, <1>2, <1>3 DEF PlanningInvariant

\* Every step keeps it.
LEMMA PlanningInvariantStays == PlanningInvariant /\ [Next]_done => PlanningInvariant'
<1> SUFFICES ASSUME PlanningInvariant, [Next]_done PROVE PlanningInvariant'
  OBVIOUS
<1>1. CASE RunNode
  <2>1. PICK n \in Nodes : \E in \in Inputs(n) : done = <<>> /\ Run(n, in)
    BY <1>1 DEF RunNode
  <2>2. PICK in \in Inputs(n) : done = <<>> /\ Run(n, in)
    BY <2>1
  <2>3. IsInput(n, in)
    BY InputsAssumption
  <2> QED BY <2>2, <2>3, RunAdded
<1>2. CASE BuildOnPage
  <2> DEFINE n == "ads.brief.build"
  <2>1. PICK in \in Inputs(n) : in.mode # "manual" /\ Run(n, [in EXCEPT !.baseBrief = Previous.out.brief])
    BY <1>2 DEF BuildOnPage
  <2> DEFINE onPage == [in EXCEPT !.baseBrief = Previous.out.brief]
  <2>2. n \in Nodes
    BY DEF Nodes
  <2>3. IsInput(n, in)
    BY <2>2, InputsAssumption
  <2>4. /\ in = [mode |-> in.mode, baseBrief |-> in.baseBrief, briefInput |-> in.briefInput, validateOutput |-> in.validateOutput]
        /\ in.mode \in {"manual", "extraction", "merge"}
    BY <2>3 DEF IsInput
  <2>5. IsInput(n, onPage)
    <3>1. PICK m, b, i, v : in = [mode |-> m, baseBrief |-> b, briefInput |-> i, validateOutput |-> v]
      BY <2>4
    <3>2. onPage = [mode |-> m, baseBrief |-> Previous.out.brief, briefInput |-> i, validateOutput |-> v] /\ onPage.mode = in.mode
      BY <3>1
    <3> HIDE DEF onPage
    <3> QED BY <2>4, <3>2 DEF IsInput
  <2> HIDE DEF onPage
  <2>6. Run(n, onPage)
    BY <2>1 DEF onPage
  <2> QED BY <2>2, <2>5, <2>6, RunAdded
<1>3. CASE ExpandPlan
  <2> DEFINE n == "ads.variant.plan"
             in == [mode |-> "generate", plan |-> Previous.out.plan]
  <2>1. /\ done # <<>> /\ Previous.node = n /\ Previous.in.mode = "create" /\ Previous.out.plan # Missing
        /\ Run(n, in)
    BY <1>3 DEF ExpandPlan, After
  <2>2. IsRun(Previous)
    BY <2>1, PreviousIsRun
  <2>3. Previous.out = VariantPlan(Previous.in) /\ IsInput(n, Previous.in)
    BY <2>1, <2>2 DEF IsRun, Outcome
  <2>4. IsPlan(Previous.out.plan)
    BY <2>1, <2>3, CreatedIsPlan
  <2>5. IsInput(n, in)
    BY <2>4 DEF IsInput
  <2>6. n \in Nodes
    BY DEF Nodes
  <2> HIDE DEF in
  <2> QED BY <2>1, <2>5, <2>6, RunAdded
<1>4. CASE FixStoryboard
  <2> DEFINE n == "ads.video.qa"
             sb == Previous.in.storyboard
             options == Previous.in.options
  <2>1. done # <<>> /\ Previous.node = n /\ Previous.out.status = "success"
    BY <1>4 DEF FixStoryboard, After
  <2>2. PICK i \in DOMAIN Previous.out.checks :
          /\ Previous.out.checks[i].fix # Missing
          /\ Run(n, [Previous.in EXCEPT !.storyboard = ApplyFix(@, Previous.out.checks[i])])
    BY <1>4 DEF FixStoryboard
  <2> DEFINE c == Previous.out.checks[i]
             in == [Previous.in EXCEPT !.storyboard = ApplyFix(@, c)]
  <2>3. IsRun(Previous)
    BY <2>1, PreviousIsRun
  <2>4. IsVideo(sb, options) /\ Previous.out.checks \in Seq(Sound(sb, options))
    BY <2>1, <2>3, CheckedRun
  <2>5. c \in Sound(sb, options)
    BY <2>2, <2>4
  <2> DEFINE fixed == ApplyFix(sb, c)
  <2>6. c.fix # Missing /\ Run(n, in)
    BY <2>2
  <2>7. IsStoryboard(fixed)
    <3> HIDE DEF c, sb, options
    <3> QED BY <2>4, <2>5, <2>6, FixIsOne
  <2>8. IsInput(n, Previous.in)
    BY <2>1, <2>3 DEF IsRun
  <2>9. Previous.in = [storyboard |-> sb, options |-> options]
    BY <2>8 DEF IsInput
  <2>10. in = [storyboard |-> fixed, options |-> options]
    <3> HIDE DEF c
    <3>1. PICK x, y : Previous.in = [storyboard |-> x, options |-> y] /\ x = sb /\ y = options
      BY <2>9
    <3> QED BY <3>1
  <2>11. in.storyboard = fixed /\ in.options = options
    <3> HIDE DEF in, fixed, options
    <3> QED BY <2>10
  <2> HIDE DEF in, fixed
  <2>12. IsInput(n, in)
    BY <2>7, <2>8, <2>10, <2>11 DEF IsInput
  <2>13. n \in Nodes
    BY DEF Nodes
  <2>14. IsChecked(Previous, [node |-> n, in |-> in, out |-> Outcome(n, in)])
    BY <2>1, <2>11 DEF IsChecked
  <2> QED BY <2>6, <2>12, <2>13, <2>14, RunAdded
<1>5. CASE UNCHANGED done
  BY <1>5 DEF PlanningInvariant, IsRun, IsChecked, Range
<1> QED BY <1>1, <1>2, <1>3, <1>4, <1>5 DEF Next

\* Every run is what its node makes of what it was handed.
THEOREM PlanningInvariantHolds == Spec => []PlanningInvariant
BY PlanningInvariantStarts, PlanningInvariantStays, PTL DEF Spec

\* Each run of a node.
LEMMA RunsOfNode ==
  ASSUME PlanningInvariant, NEW n, NEW i \in RunsOf(n)
  PROVE  /\ IsRun(done[i]) /\ done[i].node = n /\ done[i].out.status = "success" /\ i \in 1..Len(done)
         /\ done[i].out = Outcome(n, done[i].in) /\ IsInput(n, done[i].in)
<1>1. done \in Seq(Range(done)) /\ \A run \in Range(done) : IsRun(run)
  BY DEF PlanningInvariant
<1>2. i \in DOMAIN done /\ done[i].node = n /\ done[i].out.status = "success"
  BY DEF RunsOf
<1>3. done[i] \in Range(done)
  BY <1>2 DEF Range
<1>4. i \in 1..Len(done)
  BY <1>1, <1>2
<1> QED BY <1>1, <1>2, <1>3, <1>4 DEF IsRun

\* A fix that was applied makes its check pass, since both checks are those of the invariant.
LEMMA FixesAreHeld == PlanningInvariant => FixesHold
<1> SUFFICES ASSUME PlanningInvariant, NEW i \in RunsOf("ads.video.qa"), i > 1,
                    NEW c \in DOMAIN done[i - 1].out.checks, NEW d \in DOMAIN done[i].out.checks,
                    done[i - 1].out.checks[c].fix # Missing,
                    done[i].in.storyboard = ApplyFix(done[i - 1].in.storyboard, done[i - 1].out.checks[c]),
                    done[i - 1].out.checks[c].name # "Claims",
                    ~done[i].out.checks[d].passed,
                    done[i].out.checks[d].name = done[i - 1].out.checks[c].name,
                    done[i].out.checks[d].scene = done[i - 1].out.checks[c].scene
             PROVE  FALSE
  BY DEF FixesHold
<1> DEFINE before == done[i - 1]
           after == done[i]
           options == before.in.options
           failed == before.out.checks[c]
           again == after.out.checks[d]
<1>1. IsRun(after) /\ after.node = "ads.video.qa" /\ after.out.status = "success" /\ i \in 2..Len(done)
  BY RunsOfNode
<1>2. IsChecked(before, after)
  BY <1>1 DEF PlanningInvariant
<1>3. before.node = "ads.video.qa" /\ before.out.status = "success" /\ after.in.options = options
  BY <1>2 DEF IsChecked
<1>4. IsRun(before)
  <2>1. done \in Seq(Range(done)) /\ i - 1 \in 1..Len(done)
    BY <1>1 DEF PlanningInvariant
  <2>2. before \in Range(done)
    BY <2>1 DEF Range
  <2> QED BY <2>2 DEF PlanningInvariant
<1> HIDE DEF before, after
<1>5. IsVideo(before.in.storyboard, options) /\ before.out.checks \in Seq(Sound(before.in.storyboard, options))
  BY <1>3, <1>4, CheckedRun
<1>6. after.out.checks \in Seq(Sound(after.in.storyboard, options))
  BY <1>1, <1>3, CheckedRun
<1>7. failed \in Sound(before.in.storyboard, options) /\ again \in Sound(after.in.storyboard, options)
  BY <1>5, <1>6 DEF before, after
<1>8. failed.fix # Missing /\ after.in.storyboard = ApplyFix(before.in.storyboard, failed)
  BY DEF before, after
<1>9. failed.name # "Claims" /\ ~again.passed /\ again.name = failed.name /\ again.scene = failed.scene
  BY DEF before, after
<1> HIDE DEF failed, again, options
<1> QED BY <1>5, <1>7, <1>8, <1>9, FixIsOne

\* Checked again, a storyboard does not fail the check it was fixed for.
THEOREM FixesHoldAlways == Spec => []FixesHold
BY PlanningInvariantHolds, FixesAreHeld, PTL

\* What a brief is built of is kept, since the build is that of the invariant.
LEMMA CoreIsKept == PlanningInvariant => BriefKeepsItsCore
<1> SUFFICES ASSUME PlanningInvariant, NEW i \in RunsOf("ads.brief.build")
             PROVE  /\ "brief" \in DOMAIN done[i].out \/ done[i].out.issues # {}
                    /\ done[i].in.mode # "manual" /\ done[i].in.baseBrief # Missing =>
                         \A f \in DOMAIN done[i].in.baseBrief :
                           f \in OptionalFields \cap DOMAIN Given(done[i].in.briefInput, <<>>)
                             \/ done[i].out.brief[f] = done[i].in.baseBrief[f]
  BY DEF BriefKeepsItsCore
<1> DEFINE in == done[i].in
           out == done[i].out
           given == Given(in.briefInput, <<>>)
           base == in.baseBrief
<1>1. out = BriefBuild(in) /\ in.mode \in {"manual", "extraction", "merge"}
  <2>1. out = Outcome("ads.brief.build", in) /\ IsInput("ads.brief.build", in)
    BY RunsOfNode
  <2> HIDE DEF in, out
  <2> QED BY <2>1 DEF Outcome, IsInput
<1> HIDE DEF in, out
<1>2. \A brief : LET built == Built(brief, in.validateOutput) IN "brief" \in DOMAIN built /\ built.brief = brief
  BY DEF Built
<1>3. \A field : NotBuilt(field).issues # {}
  BY DEF NotBuilt
<1>4. ASSUME in.mode # "manual", base # Missing, NEW f \in DOMAIN base
      PROVE  f \in OptionalFields \cap DOMAIN given \/ out.brief[f] = base[f]
  <2>1. CASE in.mode = "extraction"
    <3>1. out.brief = FromExtraction(base, given)
      BY <1>1, <1>2, <1>4, <2>1 DEF BriefBuild
    <3> QED BY <3>1 DEF FromExtraction, Over, ResolvedFields
  <2>2. CASE in.mode = "merge"
    <3>1. out.brief = Merge(base, given)
      BY <1>1, <1>2, <1>4, <2>2 DEF BriefBuild
    <3> QED BY <3>1 DEF Merge, Over
  <2> QED BY <1>1, <1>4, <2>1, <2>2
<1>5. "brief" \in DOMAIN out \/ out.issues # {}
  <2> HIDE DEF given
  <2>1. (\E brief : out = Built(brief, in.validateOutput)) \/ (\E field : out = NotBuilt(field))
    BY <1>1 DEF BriefBuild
  <2> QED BY <1>2, <1>3, <2>1
<1> QED BY <1>4, <1>5 DEF in, out

\* Building on a brief keeps what is not one of the optional fields given.
THEOREM BriefKeepsItsCoreAlways == Spec => []BriefKeepsItsCore
BY PlanningInvariantHolds, CoreIsKept, PTL

-----------------------------------------------------------------------------
(* What is imported and what is suggested next.                               *)

\* A snapshot that the importer passes on, and one that is wanted.
Passes(s, in) ==
  /\ s.entityId \in in.platformAdIds
  /\ in.platform = Missing \/ s.platform = in.platform
  /\ \/ in.dateRange.start = "" \/ in.dateRange.end = ""
     \/ s.dateRange.start = in.dateRange.start /\ s.dateRange.end = in.dateRange.end
IsWanted(s, in) ==
  /\ UsableSnapshot(s) /\ s.entityId \in in.platformAdIds /\ in.platform \in {Missing, s.platform}
  /\ in.dateRange.start # "" => in.dateRange.start = s.dateRange.start /\ in.dateRange.end = s.dateRange.end
\* The dates are given as a whole range or not at all.
WholeRange(in) == in.dateRange.start = "" <=> in.dateRange.end = ""
AmountOf(s, m) == IF Get(s.metrics, m, Missing) = Missing \/ Get(s.metrics, m, 0) < 0 THEN 0 ELSE s.metrics[m]

\* Validation keeps what a snapshot is wanted for, and clamps what it counts.
LEMMA ValidatedSnapshot ==
  ASSUME NEW s, UsableSnapshot(s), IsSnapshot(s), NEW in, WholeRange(in)
  PROVE  /\ Passes(ValidateSnapshot(s), in) <=> IsWanted(s, in)
         /\ \A m \in CoreMetrics : ValidateSnapshot(s).metrics[m] = AmountOf(s, m) /\ AmountOf(s, m) \in Int
<1> DEFINE metrics == [m \in CoreMetrics |-> ClampNonNeg(Get(s.metrics, m, Missing))]
           type == IF s.entityType \in EntityTypes THEN s.entityType ELSE "ad"
           v == ValidateSnapshot(s)
<1>1. v = [s EXCEPT !.metrics = metrics, !.entityType = type]
  BY DEF ValidateSnapshot
<1>2. PICK e, p, t, d, m : s = [entityId |-> e, platform |-> p, entityType |-> t, dateRange |-> d, metrics |-> m]
  BY DEF IsSnapshot
<1> HIDE DEF metrics, type, v
<1>3. v = [entityId |-> e, platform |-> p, entityType |-> type, dateRange |-> d, metrics |-> metrics]
  BY <1>1, <1>2
<1>4. v.entityId = s.entityId /\ v.platform = s.platform /\ v.dateRange = s.dateRange /\ v.metrics = metrics
  BY <1>2, <1>3
<1>5. Passes(v, in) <=> IsWanted(s, in)
  BY <1>4 DEF Passes, IsWanted, WholeRange
<1>6. ASSUME NEW k \in CoreMetrics
      PROVE  v.metrics[k] = AmountOf(s, k) /\ AmountOf(s, k) \in Int
  <2>1. v.metrics[k] = ClampNonNeg(Get(s.metrics, k, Missing))
    BY <1>4 DEF metrics
  <2>2. CASE k \in DOMAIN s.metrics
    <3>1. s.metrics[k] \in Int \cup {Missing}
      BY <2>2 DEF IsSnapshot
    <3>2. Get(s.metrics, k, Missing) = s.metrics[k] /\ Get(s.metrics, k, 0) = s.metrics[k]
      BY <2>2 DEF Get
    <3> QED BY <2>1, <3>1, <3>2 DEF ClampNonNeg, Given, AmountOf
  <2>3. CASE k \notin DOMAIN s.metrics
    <3>1. Get(s.metrics, k, Missing) = Missing
      BY <2>3 DEF Get
    <3> QED BY <2>1, <3>1 DEF ClampNonNeg, AmountOf
  <2> QED BY <2>2, <2>3
<1> QED BY <1>5, <1>6 DEF v

\* What the importer sums up are the amounts of the snapshots wanted.
LEMMA SnapshotsAddUp ==
  ASSUME NEW in, IsInput("ads.metrics.import", in), NEW out, out = MetricsImport(in), out.status = "success",
         NEW given, given = Given(in.snapshots, <<>>), given # <<>>, WholeRange(in)
  PROVE  \A m \in CoreMetrics :
           out.aggregated.total[m] = SumOf([i \in DOMAIN given |-> IF IsWanted(given[i], in) THEN AmountOf(given[i], m) ELSE 0])
<1> DEFINE R == Range(given)
           U == {s \in R : UsableSnapshot(s)}
           I == {i \in DOMAIN given : UsableSnapshot(given[i])}
           usable == KeptAt(given, I)
           validated == Each(usable, ValidateSnapshot)
           V == {ValidateSnapshot(s) : s \in U}
           J == {j \in DOMAIN validated : Passes(validated[j], in)}
           matched == KeptAt(validated, J)
           n == Len(given)
<1>1. given = in.snapshots /\ given \in Seq(R) /\ \A s \in U : IsSnapshot(s)
  <2>1. in.snapshots # Missing
    BY DEF Given
  <2>2. given = in.snapshots
    BY <2>1 DEF Given
  <2> QED BY <2>1, <2>2 DEF IsInput, UsableSnapshot
<1>2. n \in Nat /\ DOMAIN given = 1..n /\ \A i \in 1..n : given[i] \in R
  BY <1>1
<1>3. usable = Only(given, UsableSnapshot)
  BY DEF Only, KeptAt
<1>4. matched = FilterByAdIds(validated, in)
  BY DEF FilterByAdIds, Only, KeptAt, Passes
<1>5. out.aggregated = Aggregate(matched)
  <2> DEFINE all == [status |-> "success", snapshots |-> matched, aggregated |-> Aggregate(matched), matchedCount |-> Len(matched),
                     droppedCount |-> Len(validated) - Len(matched), warnings |-> {i \in DOMAIN given : ~UsableSnapshot(given[i])}]
  <2>1. Error("INVALID_INPUTS").status = "error"
    BY DEF Error
  <2>2. in.platformAdIds # {}
    <3> SUFFICES ASSUME in.platformAdIds = {} PROVE FALSE
      OBVIOUS
    <3>1. out = Error("INVALID_INPUTS")
      BY <1>1 DEF MetricsImport, Given
    <3> QED BY <2>1, <3>1
  <2> HIDE DEF usable, validated, matched
  <2>3. out = all
    <3> HIDE DEF I, J, U, V, R
    <3> QED BY <1>3, <1>4, <2>2 DEF MetricsImport, validated
  <2> QED BY <2>3
<1>6. usable \in Seq(U) /\ Len(usable) = Cardinality(I)
  <2>1. usable \in Seq(R) /\ Range(usable) = {given[i] : i \in DOMAIN given \cap I}
    <3> HIDE DEF R, I
    <3> QED BY <1>1, KeptRange
  <2>2. \A k \in DOMAIN usable : usable[k] \in U
    <3>1. \A x \in Range(usable) : x \in U
      BY <1>2, <2>1
    <3> HIDE DEF U, usable
    <3> QED BY <3>1 DEF Range
  <2>3. I \in SUBSET DOMAIN given
    OBVIOUS
  <2>4. Len(usable) = Cardinality(I)
    <3> HIDE DEF R, I
    <3> QED BY <1>1, <2>3, KeptLength
  <2>5. usable \in Seq(R)
    BY <2>1
  <2> HIDE DEF U, R, usable, I
  <2> QED BY <2>2, <2>4, <2>5, SeqInto
<1>7. validated \in Seq(V) /\ Len(validated) = Len(usable) /\ DOMAIN validated = DOMAIN usable
  <2>1. validated = [k \in DOMAIN usable |-> validated[k]]
    BY DEF Each
  <2>2. ASSUME NEW k \in DOMAIN usable PROVE validated[k] \in V
    <3>1. usable[k] \in U
      <4> HIDE DEF usable, U
      <4> QED BY <1>6
    <3>2. validated[k] = ValidateSnapshot(usable[k])
      BY DEF Each
    <3> HIDE DEF usable, U, validated
    <3> QED BY <3>1, <3>2
  <2>3. usable \in Seq(U)
    BY <1>6
  <2> HIDE DEF validated, usable, V, U
  <2> QED BY <2>1, <2>2, <2>3, SamePlaces
<1>8. ASSUME NEW m \in CoreMetrics
       PROVE  out.aggregated.total[m] = SumOf([i \in DOMAIN given |-> IF IsWanted(given[i], in) THEN AmountOf(given[i], m) ELSE 0])
  <2> DEFINE wV == [x \in V |-> x.metrics[m]]
             wR == [s \in R |-> IF IsWanted(s, in) THEN AmountOf(s, m) ELSE 0]
  <2>1. wV \in [V -> Int]
    <3>1. ASSUME NEW x \in V PROVE x.metrics[m] \in Int
      <4>1. PICK s \in U : x = ValidateSnapshot(s)
        OBVIOUS
      <4>2. UsableSnapshot(s) /\ IsSnapshot(s)
        BY <1>1
      <4> QED BY <4>1, <4>2, ValidatedSnapshot
    <3> HIDE DEF V
    <3> QED BY <3>1
  <2>2. wR \in [R -> Int]
    <3>1. ASSUME NEW s \in R PROVE (IF IsWanted(s, in) THEN AmountOf(s, m) ELSE 0) \in Int
      <4>1. IsWanted(s, in) => UsableSnapshot(s) /\ IsSnapshot(s)
        BY <1>1 DEF IsWanted
      <4> QED BY <4>1, ValidatedSnapshot
    <3> HIDE DEF R
    <3> QED BY <3>1
  <2>3. out.aggregated.total[m] = SumOf(Weights(matched, wV))
    <3>1. out.aggregated.total[m] = SumOf([k \in DOMAIN matched |-> matched[k].metrics[m]])
      <4> HIDE DEF matched
      <4> QED BY <1>5 DEF Aggregate, Total, Each
    <3>2. \A k \in DOMAIN matched : wV[matched[k]] = matched[k].metrics[m]
      <4>1. matched \in Seq(V)
        <5> HIDE DEF validated, V, J
        <5> QED BY <1>7, KeptRange
      <4> HIDE DEF matched, V
      <4> QED BY <4>1
    <3>3. Weights(matched, wV) = [k \in DOMAIN matched |-> matched[k].metrics[m]]
      <4> HIDE DEF matched, wV
      <4> QED BY <3>2 DEF Weights
    <3> HIDE DEF matched, wV
    <3> QED BY <3>1, <3>3
  <2>4. SumOf(Weights(matched, wV)) = SumOf([j \in DOMAIN validated |-> IF j \in J THEN wV[validated[j]] ELSE 0])
    <3> HIDE DEF validated, V, J, wV
    <3> QED BY <1>7, <2>1, SumOfKept
  <2>5. [j \in DOMAIN validated |-> IF j \in J THEN wV[validated[j]] ELSE 0] = Weights(usable, wR)
    <3>1. ASSUME NEW j \in DOMAIN usable
          PROVE  (IF j \in J THEN wV[validated[j]] ELSE 0) = wR[usable[j]]
      <4>1. usable[j] \in U
        <5> HIDE DEF usable, U
        <5> QED BY <1>6
      <4>2. validated[j] = ValidateSnapshot(usable[j]) /\ j \in DOMAIN validated
        BY DEF Each
      <4>3. validated[j] \in V
        <5> HIDE DEF validated, V
        <5> QED BY <1>7, <4>2
      <4>4. j \in J <=> IsWanted(usable[j], in)
        <5>1. UsableSnapshot(usable[j]) /\ IsSnapshot(usable[j])
          BY <1>1, <4>1
        <5>2. j \in J <=> Passes(validated[j], in)
          <6> HIDE DEF validated
          <6> QED BY <4>2
        <5> HIDE DEF J, usable, validated
        <5> QED BY <4>2, <5>1, <5>2, ValidatedSnapshot
      <4>5. wV[validated[j]] = AmountOf(usable[j], m)
        <5>1. UsableSnapshot(usable[j]) /\ IsSnapshot(usable[j])
          BY <1>1, <4>1
        <5>2. wV[validated[j]] = validated[j].metrics[m]
          <6> HIDE DEF validated, V
          <6> QED BY <4>3
        <5> HIDE DEF wV, usable, validated
        <5> QED BY <4>2, <5>1, <5>2, ValidatedSnapshot
      <4>6. wR[usable[j]] = IF IsWanted(usable[j], in) THEN AmountOf(usable[j], m) ELSE 0
        <5>1. usable[j] \in R
          BY <4>1
        <5> HIDE DEF usable, R
        <5> QED BY <5>1
      <4> HIDE DEF wR, wV, J, usable, validated
      <4> QED BY <4>4, <4>5, <4>6
    <3> HIDE DEF wR, wV, J, usable, validated
    <3> QED BY <1>7, <3>1 DEF Weights
  <2>6. SumOf(Weights(usable, wR)) = SumOf([i \in DOMAIN given |-> IF i \in I THEN wR[given[i]] ELSE 0])
    <3> HIDE DEF R, I, wR
    <3> QED BY <1>1, <2>2, SumOfKept
  <2>7. [i \in DOMAIN given |-> IF i \in I THEN wR[given[i]] ELSE 0]
          = [i \in DOMAIN given |-> IF IsWanted(given[i], in) THEN AmountOf(given[i], m) ELSE 0]
    <3>1. ASSUME NEW i \in DOMAIN given
          PROVE  (IF i \in I THEN wR[given[i]] ELSE 0) = IF IsWanted(given[i], in) THEN AmountOf(given[i], m) ELSE 0
      <4>1. given[i] \in R
        BY <1>2
      <4>2. wR[given[i]] = IF IsWanted(given[i], in) THEN AmountOf(given[i], m) ELSE 0
        <5> HIDE DEF R
        <5> QED BY <4>1
      <4>3. IsWanted(given[i], in) => i \in I
        BY DEF IsWanted
      <4> HIDE DEF wR, I
      <4> QED BY <4>2, <4>3
    <3> HIDE DEF wR, I
    <3> QED BY <3>1
  <2> HIDE DEF wR, wV, J, I, usable, validated, matched
  <2> QED BY <2>3, <2>4, <2>5, <2>6, <2>7
<1> QED BY <1>8

\* The next tests that may be suggested: numbered, and of different dimensions.
Suggested(D, platform) ==
  {list \in Seq([dimension : D, metric : {Get(DimensionMetrics, d, Missing) : d \in D}, priority : Nat, platform : {platform}]) :
     /\ \A t \in DOMAIN list : list[t].priority = t
     /\ \A t, u \in DOMAIN list : t # u => list[t].dimension # list[u].dimension}

\* Another dimension may be added to them.
LEMMA SuggestAdds ==
  ASSUME NEW D, NEW platform, NEW list \in Suggested(D, platform), NEW dim \in D, ~Has(list, dim)
  PROVE  Suggest(list, dim, platform) \in Suggested(D, platform)
<1> DEFINE S == [dimension : D, metric : {Get(DimensionMetrics, d, Missing) : d \in D}, priority : Nat, platform : {platform}]
           N == Len(list)
           x == [dimension |-> dim, metric |-> Get(DimensionMetrics, dim, Missing), priority |-> N + 1, platform |-> platform]
           u == Suggest(list, dim, platform)
<1>1. list \in Seq(S) /\ N \in Nat
  BY DEF Suggested
<1>2. x \in S /\ x.priority = N + 1 /\ x.dimension = dim
  BY <1>1
<1>3. u = Append(list, x)
  BY DEF Suggest
<1>4. /\ \A t \in 1..N : list[t].priority = t /\ list[t].dimension # dim
      /\ \A t, s \in 1..N : t # s => list[t].dimension # list[s].dimension
  <2>1. DOMAIN list = 1..N
    BY <1>1
  <2> QED BY <2>1 DEF Suggested, Has
<1> HIDE DEF S, x, u, N
<1>5. /\ u \in Seq(S) /\ DOMAIN u = 1..(N + 1) /\ u[N + 1] = x /\ \A t \in 1..N : u[t] = list[t]
  BY <1>1, <1>2, <1>3 DEF N
<1>6. ASSUME NEW t \in 1..(N + 1)
      PROVE  u[t].priority = t
  BY <1>1, <1>2, <1>4, <1>5
<1>7. ASSUME NEW t \in 1..(N + 1), NEW s \in 1..(N + 1), t # s
      PROVE  u[t].dimension # u[s].dimension
  <2>1. CASE t = N + 1
    <3>1. s \in 1..N
      BY <1>1, <1>7, <2>1
    <3> QED BY <1>2, <1>4, <1>5, <2>1, <3>1
  <2>2. CASE s = N + 1
    <3>1. t \in 1..N
      BY <1>1, <1>7, <2>2
    <3> QED BY <1>2, <1>4, <1>5, <2>2, <3>1
  <2>3. CASE t # N + 1 /\ s # N + 1
    <3>1. t \in 1..N /\ s \in 1..N
      BY <1>1, <2>3
    <3> QED BY <1>4, <1>5, <1>7, <3>1
  <2> QED BY <2>1, <2>2, <2>3
<1> QED BY <1>5, <1>6, <1>7 DEF Suggested, S, u

\* What is suggested are such tests.
LEMMA SuggestNextIs ==
  ASSUME NEW stats, NEW platform, NEW priority, priority \in Seq(Range(priority))
  PROVE  \E D : SuggestNextTests(stats, platform, priority) \in Suggested(D, platform)
<1> DEFINE D == Range(priority) \cup {"copy", "combined"}
           S == Suggested(D, platform)
           N == Len(priority)
           first == IF stats.testsWithWinner > 0 THEN <<>>
                    ELSE Suggest(<<>>, IF priority = <<>> THEN "copy" ELSE Head(priority), platform)
           Step(l, n) == IF Len(l) >= 3 \/ Has(l, priority[n]) THEN l ELSE Suggest(l, priority[n], platform)
           F == [p \in S \X (1..N) |-> Step(p[1], p[2])]
           suggested[n \in 0..N] ==
             IF n = 0 THEN first
             ELSE IF Len(suggested[n - 1]) >= 3 \/ Has(suggested[n - 1], priority[n]) THEN suggested[n - 1]
             ELSE Suggest(suggested[n - 1], priority[n], platform)
           Rec(h) == h = [n \in 0..N |-> IF n = 0 THEN first
                                         ELSE IF Len(h[n - 1]) >= 3 \/ Has(h[n - 1], priority[n]) THEN h[n - 1]
                                         ELSE Suggest(h[n - 1], priority[n], platform)]
           ordered == suggested[N]
<1>1. N \in Nat /\ N \in 0..N /\ \A n \in 1..N : priority[n] \in D
  BY DEF Range
<1>2. <<>> \in S
  BY ShortLists DEF Suggested
<1>3. first \in S
  <2> DEFINE dim == IF priority = <<>> THEN "copy" ELSE Head(priority)
  <2>1. dim \in D
    <3>1. priority # <<>> => Head(priority) = priority[1] /\ 1 \in 1..N
      OBVIOUS
    <3> QED BY <1>1, <3>1
  <2>2. ~Has(<<>>, dim)
    BY DEF Has
  <2> HIDE DEF D, dim, S
  <2>3. Suggest(<<>>, dim, platform) \in S
    BY <1>2, <2>1, <2>2, SuggestAdds DEF S
  <2> QED BY <1>2, <2>3 DEF dim
<1>4. ASSUME NEW l \in S, NEW n \in 1..N
      PROVE  Step(l, n) \in S
  <2>1. priority[n] \in D
    BY <1>1
  <2>2. CASE Len(l) >= 3 \/ Has(l, priority[n])
    BY <2>2
  <2>3. CASE ~(Len(l) >= 3 \/ Has(l, priority[n]))
    <3> HIDE DEF D
    <3>1. Suggest(l, priority[n], platform) \in S
      BY <2>1, <2>3, SuggestAdds
    <3> HIDE DEF S
    <3> QED BY <2>3, <3>1
  <2> QED BY <2>2, <2>3
<1>5. F \in [S \X (1..N) -> S]
  <2> HIDE DEF S, Step, N
  <2> QED BY <1>4
<1> HIDE DEF N, S, first
<1>6. PICK f : IsRecursion(f, S, first, N, F)
  <2> HIDE DEF F, suggested, Rec, Step
  <2> QED BY <1>1, <1>3, <1>5, RecursionExists
<1>7. f \in [0..N -> S] /\ f[0] = first /\ \A n \in 1..N : f[n] = Step(f[n - 1], n)
  <2>1. f \in [0..N -> S] /\ f[0] = first /\ \A n \in 1..N : f[n] = F[<<f[n - 1], n>>]
    BY <1>6 DEF IsRecursion
  <2>2. ASSUME NEW n \in 1..N PROVE f[n] = Step(f[n - 1], n)
    <3>1. f[n - 1] \in S
      BY <1>1, <2>1
    <3> HIDE DEF Step
    <3> QED BY <2>1, <3>1
  <2> HIDE DEF Step
  <2> QED BY <2>1, <2>2
<1>8. Rec(f)
  <2>1. ASSUME NEW n \in 0..N
        PROVE  f[n] = IF n = 0 THEN first ELSE Step(f[n - 1], n)
    <3> HIDE DEF Step
    <3> QED BY <1>1, <1>7, <2>1
  <2> QED BY <1>7, <2>1
<1>9. suggested = [n \in 0..N |-> IF n = 0 THEN first ELSE Step(suggested[n - 1], n)]
  <2>1. Rec(CHOOSE h : Rec(h))
    <3> HIDE DEF Rec
    <3> QED BY <1>8
  <2> QED BY <2>1
<1> HIDE DEF suggested, Rec, F
<1>10. suggested[0] = first /\ \A n \in 1..N : suggested[n] = Step(suggested[n - 1], n)
  <2> HIDE DEF Step
  <2>1. \A n \in 0..N : suggested[n] = IF n = 0 THEN first ELSE Step(suggested[n - 1], n)
    BY <1>9
  <2> QED BY <1>1, <2>1
<1>11. ordered = f[N]
  <2> HIDE DEF Step
  <2>1. \A n \in 1..N : suggested[n - 1] = f[n - 1] => suggested[n] = f[n]
    BY <1>7, <1>10
  <2>2. suggested[0] = f[0]
    BY <1>7, <1>10
  <2> QED BY <1>1, <2>1, <2>2, ValuesAgree
<1>12. ordered \in S
  BY <1>1, <1>7, <1>11
<1>13. SuggestNextTests(stats, platform, priority)
         = IF AverageAbove(stats, 10) /\ ~Has(ordered, "combined") THEN Suggest(ordered, "combined", platform) ELSE ordered
  BY DEF SuggestNextTests, suggested, first, N
<1> HIDE DEF ordered
<1>14. SuggestNextTests(stats, platform, priority) \in S
  <2>1. "combined" \in D
    OBVIOUS
  <2> HIDE DEF D
  <2>2. ~Has(ordered, "combined") => Suggest(ordered, "combined", platform) \in S
    BY <1>12, <2>1, SuggestAdds DEF S
  <2> QED BY <1>12, <1>13, <2>2
<1> QED BY <1>14 DEF S

\* Tests with and without a winner are all tests, and the next ones are suggested once each.
LEMMA WinnersAddUp ==
  ASSUME NEW in, IsInput("ads.winner.synthesize", in), NEW out, out = WinnerSynthesize(in), out.status = "success"
  PROVE  \A t, u \in DOMAIN out.nextTests :
           out.nextTests[t].priority = t /\ (t # u => out.nextTests[t].dimension # out.nextTests[u].dimension)
<1> DEFINE tests == in.testResults
           stats == AggregateStats(tests)
           platform == IF in.platforms = <<>> THEN Missing ELSE Head(in.platforms)
           priority == Given(in.dimensionPriority, DefaultDimensions)
<1>1. tests # Missing /\ out = Synthesize(in)
  <2>1. Error("MISSING_TEST_RESULTS").status = "error"
    BY DEF Error
  <2>2. [status |-> "thrown"].status = "thrown"
    OBVIOUS
  <2> QED BY <2>1, <2>2 DEF WinnerSynthesize
<1>2. out.nextTests = SuggestNextTests(stats, platform, priority)
  <2> HIDE DEF stats
  <2> QED BY <1>1 DEF Synthesize, stats
<1>3. priority \in Seq(Range(priority))
  <2>1. DefaultDimensions \in Seq(Range(DefaultDimensions))
    <3>1. \A k \in DOMAIN DefaultDimensions : DefaultDimensions[k] \in Range(DefaultDimensions)
      BY DEF Range
    <3> DEFINE T == Range(DefaultDimensions)
    <3> HIDE DEF T
    <3>2. DefaultDimensions \in Seq(T)
      BY <3>1 DEF DefaultDimensions, T
    <3> QED BY <3>2 DEF T
  <2> QED BY <2>1 DEF IsInput, Given
<1>4. PICK D : out.nextTests \in Suggested(D, platform)
  <2> HIDE DEF stats, platform, priority
  <2> QED BY <1>2, <1>3, SuggestNextIs
<1> QED BY <1>4 DEF Suggested

\* Every report adds up, since it is what its node makes of its inputs.
LEMMA ReportsDoAddUp == PlanningInvariant => ReportsAddUp
<1> SUFFICES ASSUME PlanningInvariant PROVE ReportsAddUp
  OBVIOUS
<1>1. ASSUME NEW i \in RunsOf("ads.metrics.import"), Given(done[i].in.snapshots, <<>>) # <<>>, WholeRange(done[i].in)
      PROVE  LET in == done[i].in
                 given == Given(in.snapshots, <<>>)
             IN \A m \in CoreMetrics :
                  done[i].out.aggregated.total[m] = Total(given, LAMBDA s : IF IsWanted(s, in) THEN AmountOf(s, m) ELSE 0)
  <2>1. /\ done[i].out = Outcome("ads.metrics.import", done[i].in) /\ IsInput("ads.metrics.import", done[i].in)
        /\ done[i].out.status = "success"
    BY RunsOfNode
  <2>2. done[i].out = MetricsImport(done[i].in)
    BY <2>1 DEF Outcome
  <2> QED BY <1>1, <2>1, <2>2, SnapshotsAddUp DEF Total, Each
<1>2. ASSUME NEW i \in RunsOf("ads.winner.synthesize")
      PROVE  LET next == done[i].out.nextTests
             IN \A t, u \in DOMAIN next :
                  next[t].priority = t /\ (t # u => next[t].dimension # next[u].dimension)
  <2>1. /\ done[i].out = Outcome("ads.winner.synthesize", done[i].in) /\ IsInput("ads.winner.synthesize", done[i].in)
        /\ done[i].out.status = "success"
    BY RunsOfNode
  <2>2. done[i].out = WinnerSynthesize(done[i].in)
    BY <2>1 DEF Outcome
  <2> QED BY <2>1, <2>2, WinnersAddUp
<1> QED BY <1>1, <1>2 DEF ReportsAddUp, IsWanted, AmountOf, WholeRange

\* The totals are always those of the wanted snapshots, and the next tests differ.
THEOREM ReportsAddUpAlways == Spec => []ReportsAddUp
BY PlanningInvariantHolds, ReportsDoAddUp, PTL

-----------------------------------------------------------------------------
(* The product of the axes of a plan: all selections of a value for each dimension.*)

\* Different axes of a valid plan have different dimensions.
DimensionsDiffer(axes) == \A i, j \in DOMAIN axes : axes[i].dimension = axes[j].dimension => i = j
ValuesDiffer(axes) == \A i \in DOMAIN axes : IsInjective(axes[i].values)

\* The dimensions of the last n axes, and the functions that select a value for each.
LastDimensions(axes, n) == {axes[i].dimension : i \in (Len(axes) - n + 1)..Len(axes)}
AllValues(axes) == UNION {Range(axes[i].values) : i \in DOMAIN axes}
Selections(axes, n) ==
  {combo \in [LastDimensions(axes, n) -> AllValues(axes)] :
     \A i \in (Len(axes) - n + 1)..Len(axes) : combo[axes[i].dimension] \in Range(axes[i].values)}
Added(combo, dim, v) == Over(combo, [d \in {dim} |-> v])

\* A new dimension is put next to the others.
IsAdded(c, D, combo, dim, v) ==
  c = [d \in D \cup {dim} |-> c[d]] /\ c[dim] = v /\ \A d \in D : c[d] = combo[d]
LEMMA AddedIs ==
  ASSUME NEW D, NEW combo, DOMAIN combo = D, NEW dim, dim \notin D, NEW v
  PROVE  IsAdded(Added(combo, dim, v), D, combo, dim, v)
<1> DEFINE one == [d \in {dim} |-> v]
           c == Added(combo, dim, v)
           Value(d) == IF d \in D THEN combo[d] ELSE one[d]
<1>1. DOMAIN one = {dim} /\ one[dim] = v
  OBVIOUS
<1>2. c = [d \in D \cup {dim} |-> Value(d)]
  BY <1>1 DEF Added, Over
<1>3. Value(dim) = v /\ \A d \in D : Value(d) = combo[d]
  BY <1>1
<1> HIDE DEF Value, c
<1>4. \A d \in D \cup {dim} : c[d] = Value(d)
  BY <1>2
<1>5. IsAdded(c, D, combo, dim, v)
  BY <1>2, <1>3, <1>4 DEF IsAdded
<1> QED BY <1>5 DEF c

\* Adding a value of W to each of C leads into T, onto T, and never twice to the same.
AddsInto(C, W, T, dim) == \A combo \in C, v \in W : Added(combo, dim, v) \in T
AddsOnto(C, W, T, dim) == \A c \in T : \E combo \in C, v \in W : c = Added(combo, dim, v)
AddsApart(C, dim) == \A combo, other \in C : \A v, w : Added(combo, dim, v) = Added(other, dim, w) => combo = other /\ v = w

\* The n-th axis from the end.
LEMMA AxisFacts ==
  ASSUME NEW axes, IsAxes(axes), DimensionsDiffer(axes), NEW n \in 1..Len(axes), NEW i, i = Len(axes) - n + 1
  PROVE  /\ i \in DOMAIN axes /\ i \in 1..Len(axes)
         /\ axes[i].values \in Seq(Range(axes[i].values))
         /\ LastDimensions(axes, n) = LastDimensions(axes, n - 1) \cup {axes[i].dimension}
         /\ axes[i].dimension \notin LastDimensions(axes, n - 1)
         /\ Range(axes[i].values) \in SUBSET AllValues(axes)
         /\ \A k : k \in (Len(axes) - n + 1)..Len(axes) <=> k = i \/ k \in (Len(axes) - (n - 1) + 1)..Len(axes)
<1> DEFINE N == Len(axes)
<1>1. N \in Nat /\ DOMAIN axes = 1..N /\ n \in 1..N
  BY DEF IsAxes
<1> HIDE DEF N
<1>2. i \in 1..N /\ i = N - n + 1
  BY <1>1 DEF N
<1>3. \A k : k \in (N - n + 1)..N <=> k = i \/ k \in (N - (n - 1) + 1)..N
  BY <1>1, <1>2
<1>4. axes[i].values \in Seq(Range(axes[i].values))
  <2>1. axes[i] \in Range(axes)
    BY <1>1, <1>2 DEF Range
  <2> QED BY <2>1 DEF IsAxes, IsTextList
<1>5. LastDimensions(axes, n) = LastDimensions(axes, n - 1) \cup {axes[i].dimension}
  BY <1>3 DEF LastDimensions, N
<1>6. axes[i].dimension \notin LastDimensions(axes, n - 1)
  <2> SUFFICES ASSUME NEW k \in (N - (n - 1) + 1)..N, axes[i].dimension = axes[k].dimension PROVE FALSE
    BY DEF LastDimensions, N
  <2>1. k \in DOMAIN axes /\ k # i
    BY <1>1, <1>2
  <2> QED BY <1>1, <1>2, <2>1 DEF DimensionsDiffer
<1>7. Range(axes[i].values) \in SUBSET AllValues(axes)
  BY <1>1, <1>2 DEF AllValues
<1> QED BY <1>1, <1>2, <1>3, <1>4, <1>5, <1>6, <1>7 DEF N

\* Selections for one more axis are selections with a value of that axis.
LEMMA SelectionsAdded ==
  ASSUME NEW axes, IsAxes(axes), DimensionsDiffer(axes), NEW n \in 1..Len(axes), NEW i, i = Len(axes) - n + 1
  PROVE  /\ AddsInto(Selections(axes, n - 1), Range(axes[i].values), Selections(axes, n), axes[i].dimension)
         /\ AddsOnto(Selections(axes, n - 1), Range(axes[i].values), Selections(axes, n), axes[i].dimension)
         /\ AddsApart(Selections(axes, n - 1), axes[i].dimension)
<1> DEFINE N == Len(axes)
           D == LastDimensions(axes, n - 1)
           E == LastDimensions(axes, n)
           V == AllValues(axes)
           W == Range(axes[i].values)
           dim == axes[i].dimension
           K == (N - (n - 1) + 1)..N
           L == (N - n + 1)..N
<1>1. E = D \cup {dim} /\ dim \notin D /\ W \in SUBSET V /\ \A k : k \in L <=> k = i \/ k \in K
  BY AxisFacts
<1>2. \A k \in K : axes[k].dimension \in D
  BY DEF LastDimensions
<1>3. Selections(axes, n - 1) = {combo \in [D -> V] : \A k \in K : combo[axes[k].dimension] \in Range(axes[k].values)}
  BY DEF Selections
<1>4. Selections(axes, n) = {combo \in [E -> V] : \A k \in L : combo[axes[k].dimension] \in Range(axes[k].values)}
  BY DEF Selections
<1> HIDE DEF D, E, V, K, L, N
<1>5. ASSUME NEW combo \in Selections(axes, n - 1), NEW v \in W
      PROVE  Added(combo, dim, v) \in Selections(axes, n)
  <2> DEFINE c == Added(combo, dim, v)
  <2>1. combo \in [D -> V] /\ \A k \in K : combo[axes[k].dimension] \in Range(axes[k].values)
    BY <1>3
  <2>2. dim \notin D /\ DOMAIN combo = D /\ c = Added(combo, dim, v)
    BY <1>1, <2>1
  <2> HIDE DEF c, dim
  <2>3. c = [d \in D \cup {dim} |-> c[d]] /\ c[dim] = v /\ \A d \in D : c[d] = combo[d]
    <3>1. IsAdded(c, D, combo, dim, v)
      BY <2>2, AddedIs
    <3> QED BY <3>1 DEF IsAdded
  <2>4. c \in [E -> V]
    <3> HIDE DEF W
    <3>1. \A d \in D \cup {dim} : c[d] \in V
      BY <1>1, <2>1, <2>3
    <3> QED BY <1>1, <2>3, <3>1
  <2>5. \A k \in L : c[axes[k].dimension] \in Range(axes[k].values)
    BY <1>1, <1>2, <2>1, <2>3 DEF dim
  <2> QED BY <1>4, <2>4, <2>5 DEF c, dim
<1>6. ASSUME NEW c \in Selections(axes, n)
      PROVE  \E combo \in Selections(axes, n - 1), v \in W : c = Added(combo, dim, v)
  <2> DEFINE combo == [d \in D |-> c[d]]
             v == c[dim]
  <2>1. c \in [E -> V] /\ \A k \in L : c[axes[k].dimension] \in Range(axes[k].values)
    BY <1>4
  <2>2. v \in W
    BY <1>1, <2>1
  <2>3. combo \in Selections(axes, n - 1)
    <3>1. combo \in [D -> V]
      BY <1>1, <2>1
    <3>2. \A k \in K : combo[axes[k].dimension] \in Range(axes[k].values)
      <4>1. ASSUME NEW k \in K PROVE combo[axes[k].dimension] \in Range(axes[k].values)
        <5>1. axes[k].dimension \in D /\ k \in L
          BY <1>1, <1>2
        <5> QED BY <2>1, <5>1
      <4> QED BY <4>1
    <3> HIDE DEF combo
    <3> QED BY <1>3, <3>1, <3>2
  <2>4. c = Added(combo, dim, v)
    <3> HIDE DEF dim
    <3> DEFINE a == Added(combo, dim, v)
    <3>1. DOMAIN combo = D /\ dim \notin D /\ a = Added(combo, dim, v) /\ \A d \in D : combo[d] = c[d]
      BY <1>1
    <3>2. v = c[dim]
      OBVIOUS
    <3> HIDE DEF combo, v, a
    <3>3. a = [d \in D \cup {dim} |-> a[d]] /\ a[dim] = v /\ \A d \in D : a[d] = combo[d]
      <4>1. IsAdded(a, D, combo, dim, v)
        BY <3>1, AddedIs
      <4> QED BY <4>1 DEF IsAdded
    <3>4. \A d \in D \cup {dim} : a[d] = c[d]
      BY <3>1, <3>2, <3>3
    <3>5. c = [d \in D \cup {dim} |-> c[d]]
      BY <1>1, <2>1
    <3>6. a = c
      BY <3>3, <3>4, <3>5
    <3> QED BY <3>6 DEF a
  <2> HIDE DEF combo, v
  <2> QED BY <2>2, <2>3, <2>4
<1>7. ASSUME NEW combo \in Selections(axes, n - 1), NEW other \in Selections(axes, n - 1), NEW v, NEW w,
             Added(combo, dim, v) = Added(other, dim, w)
      PROVE  combo = other /\ v = w
  <2>1. combo \in [D -> V] /\ other \in [D -> V]
    BY <1>3
  <2> HIDE DEF dim
  <2> DEFINE c == Added(combo, dim, v)
  <2>2. DOMAIN combo = D /\ DOMAIN other = D /\ dim \notin D /\ c = Added(combo, dim, v) /\ c = Added(other, dim, w)
    BY <1>1, <1>7, <2>1
  <2> HIDE DEF c
  <2>3. c[dim] = v /\ \A d \in D : c[d] = combo[d]
    <3>1. IsAdded(c, D, combo, dim, v)
      BY <2>2, AddedIs
    <3> QED BY <3>1 DEF IsAdded
  <2>4. c[dim] = w /\ \A d \in D : c[d] = other[d]
    <3>1. IsAdded(c, D, other, dim, w)
      BY <2>2, AddedIs
    <3> QED BY <3>1 DEF IsAdded
  <2>5. v = w /\ \A d \in D : combo[d] = other[d]
    BY <2>3, <2>4
  <2>6. combo = other
    BY <2>1, <2>5
  <2> QED BY <2>5, <2>6
<1> QED BY <1>5, <1>6, <1>7 DEF AddsInto, AddsOnto, AddsApart

\* p has all selections of the last n axes.
HasSelections(axes, n, p) == p \in Seq(Selections(axes, n)) /\ Range(p) = Selections(axes, n)

\* With one more axis it has all selections of that one too, as many times more as that one has values.
LEMMA AxisAdded ==
  ASSUME NEW axes, IsAxes(axes), DimensionsDiffer(axes), NEW n \in 1..Len(axes), NEW i, i = Len(axes) - n + 1,
         NEW p, HasSelections(axes, n - 1, p)
  PROVE  /\ HasSelections(axes, n, WithAxis(axes[i], p))
         /\ Len(WithAxis(axes[i], p)) = Len(axes[i].values) * Len(p)
         /\ IsInjective(p) /\ IsInjective(axes[i].values) => IsInjective(WithAxis(axes[i], p))
<1> DEFINE W == Range(axes[i].values)
           values == axes[i].values
           dim == axes[i].dimension
           C == Selections(axes, n - 1)
           T == Selections(axes, n)
           k == Len(p)
           part(j) == [r \in DOMAIN p |-> Added(p[r], dim, values[j])]
           u == [j \in DOMAIN values |-> part(j)]
           F == {x \in Seq(T) : Len(x) = k}
<1>1. p \in Seq(C) /\ Range(p) = C
  BY DEF HasSelections
<1>2. values \in Seq(W)
  BY AxisFacts
<1>3. /\ \A combo \in C, v \in W : Added(combo, dim, v) \in T
      /\ \A c \in T : \E combo \in C, v \in W : c = Added(combo, dim, v)
      /\ \A combo, other \in C : \A v, w : Added(combo, dim, v) = Added(other, dim, w) => combo = other /\ v = w
  <2>1. AddsInto(C, W, T, dim) /\ AddsOnto(C, W, T, dim) /\ AddsApart(C, dim)
    BY SelectionsAdded
  <2> QED BY <2>1 DEF AddsInto, AddsOnto, AddsApart
<1>4. WithAxis(axes[i], p) = FlattenSeq(u)
  BY DEF WithAxis, FlatEach, Each, Added
<1> HIDE DEF W, C, T, dim, k
<1>5. k \in Nat /\ DOMAIN p = 1..k /\ (\A r \in 1..k : p[r] \in C) /\ \A c \in C : \E r \in 1..k : p[r] = c
  BY <1>1 DEF Range, k
<1>6. \A j \in DOMAIN values : values[j] \in W
  BY <1>2
<1>7. \A v \in W : \E j \in DOMAIN values : values[j] = v
  BY DEF W, Range
<1> HIDE DEF values
<1>8. ASSUME NEW j \in DOMAIN values
      PROVE  u[j] \in F /\ u[j] \in Seq(T) /\ \A c : c \in Range(u[j]) <=> \E r \in 1..k : c = Added(p[r], dim, values[j])
  <2>1. u[j] = part(j)
    OBVIOUS
  <2>2. \A r \in 1..k : Added(p[r], dim, values[j]) \in T
    BY <1>3, <1>5, <1>6
  <2>3. part(j) = [r \in 1..k |-> Added(p[r], dim, values[j])]
    BY <1>5
  <2>4. \A r \in 1..k : part(j)[r] \in T /\ part(j)[r] = Added(p[r], dim, values[j])
    BY <1>5, <2>2
  <2>5. DOMAIN part(j) = 1..k
    BY <1>5
  <2>6. part(j) = [r \in 1..k |-> part(j)[r]]
    BY <1>5
  <2> HIDE DEF part
  <2>7. part(j) \in Seq(T) /\ Len(part(j)) = k
    BY <1>5, <2>4, <2>6
  <2>8. \A c : c \in Range(part(j)) <=> \E r \in 1..k : c = Added(p[r], dim, values[j])
    BY <2>4, <2>5 DEF Range
  <2> HIDE DEF u
  <2> QED BY <2>1, <2>7, <2>8
<1>9. u = [j \in DOMAIN values |-> u[j]] /\ DOMAIN u = DOMAIN values
  OBVIOUS
<1> HIDE DEF u
<1>10. u \in Seq(F) /\ Len(u) = Len(values)
  <2> HIDE DEF F
  <2> QED BY <1>2, <1>8, <1>9, SamePlaces
<1>11. u \in Seq(Seq(T))
  <2> DEFINE S == Seq(T)
  <2>1. \A j \in DOMAIN u : u[j] \in S
    BY <1>8, <1>9
  <2> HIDE DEF S, F
  <2>2. u \in Seq(S)
    BY <1>10, <2>1, SeqInto
  <2> QED BY <2>2 DEF S
<1>12. Len(FlattenSeq(u)) = Len(values) * k
  BY <1>5, <1>10, FlattenLength
<1>13. FlattenSeq(u) \in Seq(T) /\ Range(FlattenSeq(u)) = UNION {Range(u[j]) : j \in DOMAIN u}
  BY <1>11, FlattenRange
<1>14. Range(FlattenSeq(u)) = T
  <2>1. ASSUME NEW c \in Range(FlattenSeq(u)) PROVE c \in T
    <3>1. \A x \in Seq(T) : Range(x) \in SUBSET T
      BY DEF Range
    <3> QED BY <1>13, <3>1
  <2>2. ASSUME NEW c \in T PROVE \E j \in DOMAIN u : c \in Range(u[j])
    <3>1. PICK combo \in C, v \in W : c = Added(combo, dim, v)
      BY <1>3
    <3>2. PICK j \in DOMAIN values : values[j] = v
      BY <1>7
    <3>3. PICK r \in 1..k : p[r] = combo
      BY <1>5
    <3>4. c \in Range(u[j])
      BY <1>8, <3>1, <3>2, <3>3
    <3> QED BY <1>9, <3>4
  <2>3. \A c \in T : c \in Range(FlattenSeq(u))
    BY <1>13, <2>2
  <2> QED BY <2>1, <2>3
<1>15. ASSUME IsInjective(p), IsInjective(values)
       PROVE  IsInjective(FlattenSeq(u))
  <2>1. \A r, q \in 1..k : p[r] = p[q] => r = q
    BY <1>5, <1>15 DEF IsInjective
  <2>2. \A j, l \in DOMAIN values : values[j] = values[l] => j = l
    BY <1>15 DEF IsInjective
  <2>3. ASSUME NEW j \in DOMAIN u PROVE IsInjective(u[j])
    <3>1. DOMAIN u[j] = 1..k /\ \A r \in 1..k : u[j][r] = Added(p[r], dim, values[j])
      BY <1>5, <1>9 DEF u
    <3>2. ASSUME NEW r \in 1..k, NEW q \in 1..k, u[j][r] = u[j][q] PROVE r = q
      <4>1. Added(p[r], dim, values[j]) = Added(p[q], dim, values[j]) /\ p[r] \in C /\ p[q] \in C
        BY <1>5, <3>1, <3>2
      <4>2. p[r] = p[q]
        BY <1>3, <4>1
      <4> QED BY <2>1, <4>2
    <3> QED BY <3>1, <3>2 DEF IsInjective
  <2>4. ASSUME NEW j \in DOMAIN u, NEW l \in DOMAIN u, j # l, NEW c \in Range(u[j]), c \in Range(u[l]) PROVE FALSE
    <3>1. PICK r \in 1..k : c = Added(p[r], dim, values[j])
      BY <1>8, <1>9
    <3>2. PICK q \in 1..k : c = Added(p[q], dim, values[l])
      BY <1>8, <1>9, <2>4
    <3>3. p[r] \in C /\ p[q] \in C /\ Added(p[r], dim, values[j]) = Added(p[q], dim, values[l])
      BY <1>5, <3>1, <3>2
    <3>4. values[j] = values[l]
      BY <1>3, <3>3
    <3> QED BY <1>9, <2>2, <2>4, <3>4
  <2>5. NothingShared(u)
    BY <2>3, <2>4 DEF NothingShared
  <2> QED BY <1>11, <2>5, FlattenInjective
<1> HIDE DEF u
<1>16. HasSelections(axes, n, FlattenSeq(u))
  BY <1>13, <1>14 DEF HasSelections, T
<1> QED BY <1>4, <1>12, <1>15, <1>16 DEF k, values

\* f has the products of the last axes, one after the other.
IsProduct(f, axes) ==
  /\ f[0] = << <<>> >> /\ \A n \in 0..Len(axes) : HasSelections(axes, n, f[n])
  /\ \A n \in 1..Len(axes) : f[n] = WithAxis(axes[Len(axes) - n + 1], f[n - 1])

\* No axis is chosen from in one way.
LEMMA NoAxis ==
  ASSUME NEW axes, IsAxes(axes)
  PROVE  HasSelections(axes, 0, << <<>> >>)
<1> DEFINE one == << <<>> >>
           N == Len(axes)
<1>1. N \in Nat /\ (N - 0 + 1)..N = {}
  BY DEF IsAxes
<1>2. LastDimensions(axes, 0) = {}
  BY <1>1 DEF LastDimensions
<1>3. Selections(axes, 0) = [{} -> AllValues(axes)]
  BY <1>1, <1>2 DEF Selections
<1>4. \A V : [{} -> V] = {<<>>}
  <2>1. ASSUME NEW V, NEW e \in [{} -> V] PROVE e = <<>>
    <3>1. e = [x \in {} |-> e[x]]
      OBVIOUS
    <3>2. <<>> \in Seq({}) /\ DOMAIN <<>> = {}
      OBVIOUS
    <3>3. <<>> = [x \in {} |-> <<>>[x]]
      BY <3>2
    <3> QED BY <3>1, <3>3
  <2>2. ASSUME NEW V PROVE <<>> \in [{} -> V]
    OBVIOUS
  <2> QED BY <2>1, <2>2
<1>5. Selections(axes, 0) = {<<>>}
  BY <1>3, <1>4
<1>6. one \in Seq({<<>>}) /\ Range(one) = {<<>>}
  BY DEF Range
<1> QED BY <1>5, <1>6 DEF HasSelections

\* The product is the last of such.
LEMMA ProductIsLast ==
  ASSUME NEW axes, IsAxes(axes), DimensionsDiffer(axes)
  PROVE  \E f : IsProduct(f, axes) /\ CartesianProduct(axes) = f[Len(axes)]
<1> DEFINE N == Len(axes)
           b == << <<>> >>
           S == UNION {Seq(Selections(axes, n)) : n \in 0..N}
           Step(p, n) == WithAxis(axes[N - n + 1], p)
           F == [q \in S \X (1..N) |-> IF HasSelections(axes, q[2], Step(q[1], q[2])) THEN Step(q[1], q[2]) ELSE b]
           product[n \in 0..N] == IF n = 0 THEN b ELSE WithAxis(axes[N - n + 1], product[n - 1])
           Rec(h) == h = [n \in 0..N |-> IF n = 0 THEN b ELSE WithAxis(axes[N - n + 1], h[n - 1])]
<1>1. N \in Nat
  BY DEF IsAxes
<1>2. HasSelections(axes, 0, b)
  BY NoAxis
<1>3. \A n \in 0..N : \A p : HasSelections(axes, n, p) => p \in S
  BY DEF HasSelections
<1>4. b \in S
  <2> HIDE DEF S, b
  <2> QED BY <1>1, <1>2, <1>3
<1> HIDE DEF N, S, b
<1>5. F \in [S \X (1..N) -> S]
  <2>1. ASSUME NEW p \in S, NEW n \in 1..N
        PROVE  (IF HasSelections(axes, n, Step(p, n)) THEN Step(p, n) ELSE b) \in S
    <3> HIDE DEF Step
    <3> QED BY <1>1, <1>3, <1>4
  <2> HIDE DEF Step
  <2> QED BY <2>1
<1>6. PICK f : IsRecursion(f, S, b, N, F)
  <2> HIDE DEF F, product, Rec, Step
  <2> QED BY <1>1, <1>4, <1>5, RecursionExists
<1>7. f \in [0..N -> S] /\ f[0] = b /\ \A n \in 1..N : f[n] = F[<<f[n - 1], n>>]
  BY <1>6 DEF IsRecursion
<1> DEFINE P == {n \in 0..N : HasSelections(axes, n, f[n]) /\ (n # 0 => f[n] = Step(f[n - 1], n))}
<1>8. \A k \in 0..N : k \in P
  <2>1. 0 \in P
    BY <1>1, <1>2, <1>7
  <2>2. ASSUME NEW n \in 1..N, n - 1 \in P
        PROVE  n \in P
    <3>1. HasSelections(axes, n - 1, f[n - 1]) /\ f[n - 1] \in S
      BY <1>1, <1>7, <2>2
    <3>2. HasSelections(axes, n, Step(f[n - 1], n))
      BY <3>1, AxisAdded DEF N
    <3>3. f[n] = Step(f[n - 1], n)
      <4> HIDE DEF Step, P
      <4> QED BY <1>7, <3>1, <3>2
    <3> HIDE DEF Step
    <3> QED BY <1>1, <3>2, <3>3
  <2> HIDE DEF P
  <2>3. ASSUME NEW k \in 0..N PROVE k \in P
    <3>1. k \in Nat /\ \A n \in 1..k : n \in 1..N
      BY <1>1
    <3> QED BY <2>1, <2>2, <3>1, IntervalInduction
  <2> QED BY <2>3
<1>9. /\ \A n \in 0..N : HasSelections(axes, n, f[n])
      /\ \A n \in 1..N : f[n] = Step(f[n - 1], n)
  <2> HIDE DEF Step
  <2>1. \A n \in 1..N : n \in 0..N /\ n # 0
    BY <1>1
  <2> QED BY <1>8, <2>1
<1>10. Rec(f)
  <2>1. ASSUME NEW n \in 0..N
        PROVE  f[n] = IF n = 0 THEN b ELSE Step(f[n - 1], n)
    <3> HIDE DEF Step
    <3> QED BY <1>1, <1>7, <1>9, <2>1
  <2> QED BY <1>7, <2>1
<1>11. product = [n \in 0..N |-> IF n = 0 THEN b ELSE Step(product[n - 1], n)]
  <2>1. Rec(CHOOSE h : Rec(h))
    <3> HIDE DEF Rec
    <3> QED BY <1>10
  <2> QED BY <2>1
<1>12. CartesianProduct(axes) = product[N]
  BY DEF CartesianProduct, N, b
<1> HIDE DEF product, Rec, F, P
<1>13. product[0] = b /\ \A n \in 1..N : product[n] = Step(product[n - 1], n)
  <2> HIDE DEF Step
  <2>1. \A n \in 0..N : product[n] = IF n = 0 THEN b ELSE Step(product[n - 1], n)
    BY <1>11
  <2> QED BY <1>1, <2>1
<1>14. product[N] = f[N]
  <2> HIDE DEF Step
  <2>1. \A n \in 1..N : product[n - 1] = f[n - 1] => product[n] = f[n]
    BY <1>9, <1>13
  <2>2. product[0] = f[0]
    BY <1>7, <1>13
  <2> QED BY <1>1, <2>1, <2>2, ValuesAgree
<1>15. IsProduct(f, axes)
  BY <1>7, <1>9 DEF IsProduct, N, b
<1> QED BY <1>12, <1>14, <1>15 DEF N

\* c counts the combinations of the first axes, an axis without values counting one.
Ways(axis) == IF axis.values = <<>> THEN 1 ELSE Len(axis.values)
IsCount(c, axes) ==
  c \in [0..Len(axes) -> Nat] /\ c[0] = 1 /\ \A n \in 1..Len(axes) : c[n] = c[n - 1] * Ways(axes[n])

\* There are as many ways to choose from an axis as it has values, if it has any.
LEMMA WaysAre ==
  ASSUME NEW axes, IsAxes(axes), NEW i \in 1..Len(axes)
  PROVE  /\ Ways(axes[i]) \in Nat /\ Len(axes[i].values) \in Nat /\ Len(axes[i].values) <= Ways(axes[i])
         /\ axes[i].values # <<>> => Len(axes[i].values) = Ways(axes[i])
<1>1. axes[i] \in Range(axes)
  BY DEF IsAxes, Range
<1>2. axes[i].values \in Seq(Range(axes[i].values))
  BY <1>1 DEF IsAxes, IsTextList
<1> QED BY <1>2 DEF Ways

\* The count of the combinations is the last of such counts.
LEMMA CountIsLast ==
  ASSUME NEW axes, IsAxes(axes), axes # <<>>
  PROVE  \E c : IsCount(c, axes) /\ CountCombinations(axes) = c[Len(axes)]
<1> DEFINE N == Len(axes)
           F == [q \in Nat \X (1..N) |-> q[1] * Ways(axes[q[2]])]
           count[n \in 0..N] == IF n = 0 THEN 1 ELSE count[n - 1] * (IF axes[n].values = <<>> THEN 1 ELSE Len(axes[n].values))
           Rec(h) == h = [n \in 0..N |-> IF n = 0 THEN 1 ELSE h[n - 1] * (IF axes[n].values = <<>> THEN 1 ELSE Len(axes[n].values))]
<1>1. N \in Nat /\ \A n \in 1..N : Ways(axes[n]) \in Nat
  BY WaysAre DEF IsAxes
<1> HIDE DEF N
<1>2. F \in [Nat \X (1..N) -> Nat]
  <2>1. \A a, w \in Nat : a * w \in Nat
    OBVIOUS
  <2> QED BY <1>1, <2>1
<1>3. PICK c : IsRecursion(c, Nat, 1, N, F)
  <2>1. 1 \in Nat
    OBVIOUS
  <2> HIDE DEF F, count, Rec
  <2> QED BY <1>1, <1>2, <2>1, RecursionExists
<1>4. c \in [0..N -> Nat] /\ c[0] = 1 /\ \A n \in 1..N : c[n] = c[n - 1] * Ways(axes[n])
  <2>1. c \in [0..N -> Nat] /\ c[0] = 1 /\ \A n \in 1..N : c[n] = F[<<c[n - 1], n>>]
    BY <1>3 DEF IsRecursion
  <2>2. ASSUME NEW n \in 1..N PROVE c[n] = c[n - 1] * Ways(axes[n])
    <3>1. c[n - 1] \in Nat
      BY <1>1, <2>1
    <3> QED BY <2>1, <3>1
  <2> QED BY <2>1, <2>2
<1>5. Rec(c)
  <2>1. ASSUME NEW n \in 0..N
        PROVE  c[n] = IF n = 0 THEN 1 ELSE c[n - 1] * Ways(axes[n])
    BY <1>1, <1>4, <2>1
  <2> QED BY <1>4, <2>1 DEF Ways
<1>6. count = [n \in 0..N |-> IF n = 0 THEN 1 ELSE count[n - 1] * Ways(axes[n])]
  <2>1. Rec(CHOOSE h : Rec(h))
    <3> HIDE DEF Rec
    <3> QED BY <1>5
  <2> QED BY <2>1 DEF Ways
<1>7. CountCombinations(axes) = count[N]
  BY DEF CountCombinations, N
<1> HIDE DEF count, Rec, F
<1>8. count[0] = 1 /\ \A n \in 1..N : count[n] = count[n - 1] * Ways(axes[n])
  <2>1. \A n \in 0..N : count[n] = IF n = 0 THEN 1 ELSE count[n - 1] * Ways(axes[n])
    BY <1>6
  <2> QED BY <1>1, <2>1
<1>9. count[N] = c[N]
  <2>1. \A n \in 1..N : count[n - 1] = c[n - 1] => count[n] = c[n]
    BY <1>4, <1>8
  <2>2. count[0] = c[0]
    BY <1>4, <1>8
  <2> QED BY <1>1, <2>1, <2>2, ValuesAgree
<1> QED BY <1>4, <1>7, <1>9 DEF IsCount, N

\* The product has all selections of all axes, each of them once where no axis repeats a value, and not more than are
\* counted, but as many where every axis has a value.
LEMMA ProductOfAxes ==
  ASSUME NEW axes, IsAxes(axes), DimensionsDiffer(axes), axes # <<>>
  PROVE  /\ HasSelections(axes, Len(axes), CartesianProduct(axes))
         /\ ValuesDiffer(axes) => IsInjective(CartesianProduct(axes))
         /\ CountCombinations(axes) \in Nat /\ Len(CartesianProduct(axes)) <= CountCombinations(axes)
         /\ (\A i \in DOMAIN axes : axes[i].values # <<>>) => Len(CartesianProduct(axes)) = CountCombinations(axes)
<1> DEFINE N == Len(axes)
<1>1. N \in Nat /\ DOMAIN axes = 1..N
  BY DEF IsAxes
<1>2. PICK f : IsProduct(f, axes) /\ CartesianProduct(axes) = f[N]
  BY ProductIsLast
<1>3. PICK c : IsCount(c, axes) /\ CountCombinations(axes) = c[N]
  BY CountIsLast
<1>4. ASSUME NEW n \in 1..N
      PROVE  /\ N - n + 1 \in 1..N
             /\ Len(f[n]) = Len(axes[N - n + 1].values) * Len(f[n - 1])
             /\ IsInjective(f[n - 1]) /\ IsInjective(axes[N - n + 1].values) => IsInjective(f[n])
             /\ Len(f[n - 1]) \in Nat /\ Len(f[n]) \in Nat
  <2>1. N - n + 1 \in 1..N /\ n \in 0..N /\ n - 1 \in 0..N
    BY <1>1
  <2>2. /\ f[n] = WithAxis(axes[N - n + 1], f[n - 1])
        /\ HasSelections(axes, n - 1, f[n - 1]) /\ HasSelections(axes, n, f[n])
    BY <1>2, <2>1 DEF IsProduct
  <2>3. Len(f[n - 1]) \in Nat /\ Len(f[n]) \in Nat
    BY <2>2 DEF HasSelections
  <2> DEFINE i == N - n + 1
  <2>4. i = Len(axes) - n + 1 /\ n \in 1..Len(axes) /\ i \in 1..N /\ f[n] = WithAxis(axes[i], f[n - 1])
    BY <2>1, <2>2
  <2> HIDE DEF i
  <2>5. /\ Len(WithAxis(axes[i], f[n - 1])) = Len(axes[i].values) * Len(f[n - 1])
        /\ IsInjective(f[n - 1]) /\ IsInjective(axes[i].values) => IsInjective(WithAxis(axes[i], f[n - 1]))
    <3> DEFINE p == f[n - 1]
    <3>1. HasSelections(axes, n - 1, p)
      BY <2>2
    <3> HIDE DEF p, N
    <3>2. /\ Len(WithAxis(axes[i], p)) = Len(axes[i].values) * Len(p)
          /\ IsInjective(p) /\ IsInjective(axes[i].values) => IsInjective(WithAxis(axes[i], p))
      BY <2>4, <3>1, AxisAdded
    <3> QED BY <3>2 DEF p
  <2> QED BY <2>1, <2>3, <2>4, <2>5 DEF i
<1>5. f[0] = << <<>> >> /\ Len(f[0]) = 1
  BY <1>2 DEF IsProduct
<1>6. ASSUME ValuesDiffer(axes)
      PROVE  IsInjective(f[N])
  <2> DEFINE P == {n \in 0..N : IsInjective(f[n])}
  <2>1. 0 \in P
    BY <1>1, <1>5 DEF IsInjective
  <2>2. ASSUME NEW n \in 1..N, n - 1 \in P PROVE n \in P
    <3>1. n \in 0..N /\ N - n + 1 \in DOMAIN axes
      BY <1>1, <1>4
    <3>2. IsInjective(axes[N - n + 1].values)
      BY <1>6, <3>1 DEF ValuesDiffer
    <3>3. IsInjective(f[n])
      BY <1>4, <2>2, <3>2
    <3> QED BY <3>1, <3>3
  <2> HIDE DEF P
  <2>3. N \in P
    BY <1>1, <2>1, <2>2, IntervalInduction
  <2> QED BY <2>3 DEF P
<1>7. /\ c \in [0..N -> Nat] /\ c[0] = 1
      /\ \A n \in 1..N : c[n] = c[n - 1] * Ways(axes[n])
  BY <1>3 DEF IsCount
<1> DEFINE All == \A i \in DOMAIN axes : axes[i].values # <<>>
           Bound(n) == Len(f[n]) \in Nat /\ c[N - n] * Len(f[n]) <= c[N] /\ (All => c[N - n] * Len(f[n]) = c[N])
           P == {n \in 0..N : Bound(n)}
<1> HIDE DEF N
<1>8. 0 \in P
  <2>1. N - 0 = N /\ c[N] \in Nat /\ Len(f[0]) = 1 /\ 0 \in 0..N
    BY <1>1, <1>5, <1>7
  <2>2. c[N - 0] * Len(f[0]) = c[N]
    BY <2>1
  <2>3. c[N - 0] * Len(f[0]) <= c[N]
    BY <2>1, <2>2
  <2> HIDE DEF All
  <2>4. Bound(0)
    BY <2>1, <2>2, <2>3
  <2> HIDE DEF Bound
  <2> QED BY <2>1, <2>4
<1>9. ASSUME NEW n \in 1..N, n - 1 \in P
      PROVE  n \in P
  <2> DEFINE i == N - n + 1
             l == Len(axes[i].values)
             w == Ways(axes[i])
             a == c[N - n]
             k == Len(f[n - 1])
  <2>1. i \in 1..N /\ i - 1 = N - n /\ N - (n - 1) = i /\ N - n \in 0..N
    BY <1>1
  <2>2. l \in Nat /\ w \in Nat /\ l <= w /\ (axes[i].values # <<>> => l = w)
    BY <2>1, WaysAre DEF N
  <2>3. a \in Nat /\ k \in Nat /\ Len(f[n]) = l * k /\ Len(f[n]) \in Nat
    BY <1>4, <1>7, <2>1
  <2>4. c[i] = a * w
    BY <1>7, <2>1
  <2>5. c[i] * k <= c[N] /\ (All => c[i] * k = c[N])
    BY <1>9, <2>1
  <2>6. All => l = w
    BY <1>1, <2>1, <2>2
  <2>7. c[N] \in Nat
    BY <1>1, <1>7
  <2> HIDE DEF a, k, l, w, i, All
  <2>8. a * (l * k) <= (a * w) * k /\ (l = w => a * (l * k) = (a * w) * k)
    <3>1. a * (w * k) = (a * w) * k
      BY <2>2, <2>3
    <3>2. l * k <= w * k /\ l * k \in Nat /\ w * k \in Nat
      BY <2>2, <2>3
    <3>3. a * (l * k) <= a * (w * k)
      <4> DEFINE x == l * k
                 y == w * k
      <4> HIDE DEF x, y
      <4>1. x \in Nat /\ y \in Nat /\ x <= y
        BY <3>2 DEF x, y
      <4>2. a * x <= a * y
        BY <2>3, <4>1
      <4> QED BY <4>2 DEF x, y
    <3> QED BY <3>1, <3>3
  <2>9. a * Len(f[n]) <= c[N] /\ (All => a * Len(f[n]) = c[N])
    <3>1. a * (l * k) \in Nat /\ (a * w) * k \in Nat
      BY <2>2, <2>3
    <3> QED BY <2>3, <2>4, <2>5, <2>6, <2>7, <2>8, <3>1
  <2>10. n \in 0..N
    BY <1>1
  <2> QED BY <2>3, <2>9, <2>10 DEF a
<1>10. N \in P
  <2> HIDE DEF P
  <2> QED BY <1>1, <1>8, <1>9, IntervalInduction
<1>11. Len(f[N]) <= c[N] /\ (All => Len(f[N]) = c[N]) /\ c[N] \in Nat
  <2>1. N - N = 0 /\ c[0] = 1 /\ c[N] \in Nat
    BY <1>1, <1>7
  <2>2. Len(f[N]) \in Nat /\ c[N - N] * Len(f[N]) <= c[N] /\ (All => c[N - N] * Len(f[N]) = c[N])
    BY <1>10
  <2> HIDE DEF All, P
  <2> QED BY <2>1, <2>2
<1>12. HasSelections(axes, N, f[N])
  BY <1>1, <1>2 DEF IsProduct, N
<1> QED BY <1>2, <1>3, <1>6, <1>11, <1>12 DEF N

-----------------------------------------------------------------------------
(* Plans that are valid.                                                      *)

\* Axes with as many dimensions as there are axes have different ones.
LEMMA AsManyDimensions ==
  ASSUME NEW axes, IsAxes(axes), ~(Cardinality({axes[i].dimension : i \in DOMAIN axes}) < Len(axes))
  PROVE  DimensionsDiffer(axes)
<1> DEFINE N == Len(axes)
           dims == {axes[i].dimension : i \in DOMAIN axes}
           f == [i \in 1..N |-> axes[i].dimension]
<1>1. N \in Nat /\ DOMAIN axes = 1..N
  BY DEF IsAxes
<1>2. f \in Surjection(1..N, dims)
  <2>1. f \in [1..N -> dims]
    BY <1>1
  <2>2. \A d \in dims : \E i \in 1..N : f[i] = d
    BY <1>1
  <2> QED BY <2>1, <2>2 DEF Surjection
<1>3. IsFiniteSet(1..N) /\ Cardinality(1..N) = N
  <2> HIDE DEF N
  <2>1. N \in Int /\ 1 \in Int /\ (IF 1 > N THEN 0 ELSE N - 1 + 1) = N
    BY <1>1
  <2> QED BY <2>1, FS_Interval
<1> HIDE DEF f, dims
<1>4. IsFiniteSet(dims) /\ Cardinality(dims) <= N /\ (Cardinality(dims) = N => f \in Injection(1..N, dims))
  <2> DEFINE S == 1..N
  <2>1. f \in Surjection(S, dims) /\ IsFiniteSet(S)
    BY <1>2, <1>3
  <2> HIDE DEF S
  <2>2. /\ IsFiniteSet(dims) /\ Cardinality(dims) <= Cardinality(S)
        /\ (Cardinality(dims) = Cardinality(S) <=> f \in Injection(S, dims))
    BY <2>1, FS_Surjection
  <2> QED BY <1>3, <2>2 DEF S
<1>5. Cardinality(dims) = N
  <2>1. Cardinality(dims) \in Nat
    BY <1>4, FS_CardinalityType
  <2>2. ~(Cardinality(dims) < N)
    BY DEF dims
  <2> QED BY <1>1, <1>4, <2>1, <2>2
<1>6. IsInjective(f)
  BY <1>4, <1>5 DEF Injection
<1> QED BY <1>1, <1>6 DEF IsInjective, DimensionsDiffer, f

\* What validation makes sure of.
LEMMA ValidPlan ==
  ASSUME NEW plan, IsPlan(plan), ValidateVariantPlan(plan).valid
  PROVE  /\ plan.axes # <<>> /\ DimensionsDiffer(plan.axes)
         /\ plan.maxVariantsTotal \in Nat /\ plan.maxVariantsTotal >= 1
         /\ plan.strategy = "focused" => \E i \in DOMAIN plan.axes : plan.focusAxis = plan.axes[i].dimension
<1> DEFINE dims == {plan.axes[i].dimension : i \in DOMAIN plan.axes}
<1>1. \A issue \in PlanIssues(plan) : issue[2] # "error"
  BY DEF ValidateVariantPlan
<1>2. /\ Issue(plan.axes = <<>>, "variantAxes", "error") \in SUBSET PlanIssues(plan)
      /\ Issue(Cardinality(dims) < Len(plan.axes), "variantAxes.duplicate", "error") \in SUBSET PlanIssues(plan)
      /\ Issue(plan.maxVariantsTotal < 1, "maxVariantsTotal", "error") \in SUBSET PlanIssues(plan)
      /\ Issue(plan.strategy = "focused" /\ plan.focusAxis \notin dims, "focusAxis", "error") \in SUBSET PlanIssues(plan)
  <2> DEFINE A == Issue(plan.axes = <<>>, "variantAxes", "error")
             B == Issue("" \in dims, "variantAxes.dimension", "error")
             C == Issue(\E i \in DOMAIN plan.axes : Len(plan.axes[i].values) < 2, "variantAxes.values", "warning")
             D == Issue(Cardinality(dims) < Len(plan.axes), "variantAxes.duplicate", "error")
             E == Issue(plan.maxVariantsTotal < 1, "maxVariantsTotal", "error")
             F == Issue(plan.strategy = "focused" /\ plan.focusAxis \notin dims, "focusAxis", "error")
             G == Issue(\E i \in DOMAIN plan.constraints : \E j \in DOMAIN plan.constraints[i].axes :
                          plan.constraints[i].axes[j] \notin dims, "constraints", "warning")
             H == Issue(CountCombinations(plan.axes) > 1000, "variantAxes.many", "warning")
  <2>1. PlanIssues(plan) = UNION {A, B, C, D, E, F, G, H}
    BY DEF PlanIssues
  <2> HIDE DEF A, B, C, D, E, F, G, H
  <2>2. A \in SUBSET PlanIssues(plan) /\ D \in SUBSET PlanIssues(plan) /\ E \in SUBSET PlanIssues(plan)
        /\ F \in SUBSET PlanIssues(plan)
    BY <2>1
  <2> QED BY <2>2 DEF A, D, E, F
<1> HIDE DEF dims
<1>3. /\ plan.axes # <<>> /\ ~(Cardinality(dims) < Len(plan.axes)) /\ ~(plan.maxVariantsTotal < 1)
      /\ ~(plan.strategy = "focused" /\ plan.focusAxis \notin dims)
  BY <1>1, <1>2 DEF Issue
<1>4. IsAxes(plan.axes) /\ plan.maxVariantsTotal \in Int
  BY DEF IsPlan
<1>5. DimensionsDiffer(plan.axes)
  BY <1>3, <1>4, AsManyDimensions DEF dims
<1> QED BY <1>3, <1>4, <1>5 DEF dims

-----------------------------------------------------------------------------
(* The balanced strategy.                                                     *)

FirstOnes(g, n) == [i \in 1..n |-> g[i]]
Chosen(combos, p) == [i \in DOMAIN p |-> combos[p[i]]]
Left(combos, p) == DOMAIN combos \ Range(p)

\* A place that is left whose combination is used as little as that of any other.
IsPick(combos, p, k) ==
  /\ k \in Left(combos, p)
  /\ \A j \in Left(combos, p) : Used(combos[k], Chosen(combos, p)) <= Used(combos[j], Chosen(combos, p))

\* Uses can be counted.
LEMMA UsesAreCounted ==
  ASSUME NEW combo, IsFiniteSet(DOMAIN combo), NEW chosen, IsFiniteSet(DOMAIN chosen)
  PROVE  /\ IsFiniteSet({p \in (DOMAIN combo) \X (DOMAIN chosen) : chosen[p[2]][p[1]] = combo[p[1]]})
         /\ Used(combo, chosen) \in Nat
<1> DEFINE D == DOMAIN combo
           E == DOMAIN chosen
           pairs == {p \in D \X E : chosen[p[2]][p[1]] = combo[p[1]]}
<1>1. IsFiniteSet(D \X E)
  <2> HIDE DEF D, E
  <2>1. IsFiniteSet(D) /\ IsFiniteSet(E)
    BY DEF D, E
  <2> QED BY <2>1, FS_Product
<1>2. pairs \in SUBSET (D \X E)
  OBVIOUS
<1>3. Used(combo, chosen) = Cardinality(pairs)
  BY DEF Used
<1> HIDE DEF D, E, pairs
<1>4. IsFiniteSet(pairs)
  BY <1>1, <1>2, FS_Subset
<1>5. Cardinality(pairs) \in Nat
  BY <1>4, FS_CardinalityType
<1> QED BY <1>3, <1>4, <1>5 DEF pairs, D, E

\* There is a pick as long as a place is left, and the next place is one.
LEMMA NextPlaceIs ==
  ASSUME NEW combos, DOMAIN combos \in SUBSET Nat, \A i \in DOMAIN combos : IsFiniteSet(DOMAIN combos[i]),
         NEW p, IsFiniteSet(DOMAIN p), Left(combos, p) # {}
  PROVE  IsPick(combos, p, NextPlace(combos, p))
<1> DEFINE left == Left(combos, p)
           Taken(k) == Used(combos[k], Chosen(combos, p))
           scores == {n \in Nat : \E k \in left : n = Taken(k)}
<1>1. \A k \in left : Taken(k) \in Nat
  <2>1. DOMAIN Chosen(combos, p) = DOMAIN p
    BY DEF Chosen
  <2> QED BY <2>1, UsesAreCounted DEF Left
<1>2. left \in SUBSET Nat
  BY DEF Left
<1> HIDE DEF left, Taken
<1>3. PICK m \in scores : \A n \in scores : m <= n
  <2>1. scores # {} /\ scores \in SUBSET Nat
    BY <1>1 DEF left
  <2> HIDE DEF scores
  <2> QED BY <2>1, NatLeast
<1> DEFINE best == {k \in left : Taken(k) = m}
<1>4. PICK k \in best : \A j \in best : k <= j
  <2>1. best # {} /\ best \in SUBSET Nat
    BY <1>2
  <2> HIDE DEF best
  <2> QED BY <2>1, NatLeast
<1> DEFINE Wins(i) == \A j \in left : Taken(i) < Taken(j) \/ (Taken(i) = Taken(j) /\ i <= j)
<1>5. k \in left /\ Wins(k)
  <2>1. \A j \in left : m <= Taken(j)
    BY <1>1, <1>3
  <2>2. Taken(k) = m /\ k \in left /\ m \in Nat
    BY <1>3, <1>4
  <2>3. ASSUME NEW j \in left PROVE Taken(k) < Taken(j) \/ (Taken(k) = Taken(j) /\ k <= j)
    <3>1. CASE Taken(j) = m
      BY <1>4, <2>2, <3>1
    <3>2. CASE Taken(j) # m
      <4>1. Taken(j) \in Nat /\ m <= Taken(j)
        BY <1>1, <2>1
      <4> QED BY <2>2, <3>2, <4>1
    <3> QED BY <3>1, <3>2
  <2> QED BY <2>2, <2>3
<1>6. NextPlace(combos, p) = CHOOSE i \in left : Wins(i)
  BY DEF NextPlace, left, Left, Taken, Chosen, Each
<1> DEFINE next == NextPlace(combos, p)
<1>7. next \in left /\ Wins(next)
  <2> HIDE DEF Wins
  <2> QED BY <1>5, <1>6
<1> HIDE DEF next
<1>8. \A j \in left : Taken(next) <= Taken(j)
  BY <1>1, <1>7
<1> QED BY <1>7, <1>8 DEF IsPick, left, Taken, next

\* A place is left as long as there are fewer than all.
LEMMA PlaceLeft ==
  ASSUME NEW L \in Nat, NEW p \in Seq(1..L), Len(p) < L
  PROVE  (1..L) \ Range(p) # {}
<1> DEFINE S == 1..Len(p)
           T == 1..L
<1>1. SUFFICES ASSUME (1..L) \ Range(p) = {} PROVE FALSE
  OBVIOUS
<1>2. p \in [S -> T] /\ Len(p) \in Nat
  OBVIOUS
<1>3. \A k \in T : \E i \in S : p[i] = k
  BY <1>1, <1>2 DEF Range
<1>4. p \in Surjection(S, T)
  BY <1>2, <1>3 DEF Surjection
<1>5. IsFiniteSet(S) /\ Cardinality(S) = Len(p) /\ Cardinality(T) = L
  <2> DEFINE n == Len(p)
  <2> HIDE DEF n
  <2>1. n \in Int /\ 1 \in Int /\ L \in Int /\ (IF 1 > n THEN 0 ELSE n - 1 + 1) = n /\ (IF 1 > L THEN 0 ELSE L - 1 + 1) = L
    BY <1>2 DEF n
  <2> QED BY <2>1, FS_Interval DEF n
<1> HIDE DEF S, T
<1>6. Cardinality(T) <= Cardinality(S)
  BY <1>4, <1>5, FS_Surjection
<1> QED BY <1>2, <1>5, <1>6

\* g picks N places one after the other.
IsBalanced(g, combos, N) ==
  /\ g \in [1..N -> DOMAIN combos] /\ IsInjective(g)
  /\ \A n \in 1..N : IsPick(combos, FirstOnes(g, n - 1), g[n])

\* The first ones of the first ones.
LEMMA FirstOfFirst ==
  ASSUME NEW g, NEW n \in Nat, NEW m \in Nat, n <= m
  PROVE  FirstOnes(FirstOnes(g, m), n) = FirstOnes(g, n)
<1>1. \A i \in 1..n : i \in 1..m
  OBVIOUS
<1>2. \A i \in 1..n : FirstOnes(g, m)[i] = g[i]
  BY <1>1 DEF FirstOnes
<1> HIDE DEF FirstOnes
<1>3. FirstOnes(FirstOnes(g, m), n) = [i \in 1..n |-> FirstOnes(g, m)[i]]
  BY DEF FirstOnes
<1>4. FirstOnes(g, n) = [i \in 1..n |-> g[i]]
  BY DEF FirstOnes
<1> QED BY <1>2, <1>3, <1>4

\* Truncating picks places one after the other.
LEMMA BalancedIs ==
  ASSUME NEW C, NEW combos \in Seq(C), \A i \in DOMAIN combos : IsFiniteSet(DOMAIN combos[i]),
         NEW max \in Nat, max < Len(combos)
  PROVE  \E g : IsBalanced(g, combos, max) /\ BalancedTruncate(combos, max) = Chosen(combos, g)
<1> DEFINE L == Len(combos)
           S == Seq(1..L)
           Step(p) == Append(p, NextPlace(combos, p))
           F == [q \in S \X (1..L) |-> IF Step(q[1]) \in S THEN Step(q[1]) ELSE <<>>]
           places[n \in 0..L] == IF n = 0 THEN <<>> ELSE Append(places[n - 1], NextPlace(combos, places[n - 1]))
           Rec(h) == h = [n \in 0..L |-> IF n = 0 THEN <<>> ELSE Append(h[n - 1], NextPlace(combos, h[n - 1]))]
<1>1. L \in Nat /\ DOMAIN combos = 1..L /\ max \in 0..L
  OBVIOUS
<1>2. <<>> \in S
  BY ShortLists
<1>3. ASSUME NEW p \in S, Len(p) < L
      PROVE  /\ IsPick(combos, p, NextPlace(combos, p)) /\ NextPlace(combos, p) \in 1..L
             /\ Step(p) \in S /\ Len(Step(p)) = Len(p) + 1
  <2>1. Left(combos, p) # {}
    <3> HIDE DEF L
    <3> QED BY <1>1, <1>3, PlaceLeft DEF Left
  <2>2. IsFiniteSet(DOMAIN p)
    <3> DEFINE k == Len(p)
    <3>1. k \in Int /\ 1 \in Int /\ DOMAIN p = 1..k
      OBVIOUS
    <3> HIDE DEF k
    <3> QED BY <3>1, FS_Interval
  <2>3. IsPick(combos, p, NextPlace(combos, p))
    <3> HIDE DEF L
    <3>1. DOMAIN combos \in SUBSET Nat
      BY <1>1
    <3> QED BY <2>1, <2>2, <3>1, NextPlaceIs
  <2>4. NextPlace(combos, p) \in 1..L
    BY <1>1, <2>3 DEF IsPick, Left
  <2> HIDE DEF L
  <2>5. Step(p) \in S /\ Len(Step(p)) = Len(p) + 1
    BY <2>4
  <2> QED BY <2>3, <2>4, <2>5
<1> HIDE DEF L
<1>4. F \in [S \X (1..L) -> S]
  <2>1. ASSUME NEW p \in S PROVE (IF Step(p) \in S THEN Step(p) ELSE <<>>) \in S
    <3> HIDE DEF Step, S
    <3> QED BY <1>2
  <2> HIDE DEF Step, S
  <2> QED BY <2>1
<1>5. PICK f : IsRecursion(f, S, <<>>, L, F)
  <2> HIDE DEF F, places, Rec, Step, S
  <2> QED BY <1>1, <1>2, <1>4, RecursionExists
<1>6. f \in [0..L -> S] /\ f[0] = <<>> /\ \A n \in 1..L : f[n] = F[<<f[n - 1], n>>]
  BY <1>5 DEF IsRecursion
<1> DEFINE P == {n \in 0..L : Len(f[n]) = n /\ (n # 0 => f[n] = Step(f[n - 1]))}
<1>7. \A k \in 0..L : k \in P
  <2>1. 0 \in P
    BY <1>1, <1>6
  <2>2. ASSUME NEW n \in 1..L, n - 1 \in P
        PROVE  n \in P
    <3>1. f[n - 1] \in S /\ Len(f[n - 1]) = n - 1 /\ n - 1 < L
      <4>1. n - 1 \in 0..L /\ n - 1 < L
        BY <1>1
      <4>2. Len(f[n - 1]) = n - 1
        BY <2>2
      <4> HIDE DEF S, P, Step
      <4> QED BY <1>6, <4>1, <4>2
    <3>2. Step(f[n - 1]) \in S /\ Len(Step(f[n - 1])) = (n - 1) + 1
      BY <1>3, <3>1
    <3>3. f[n] = Step(f[n - 1])
      <4> HIDE DEF Step, P, S
      <4> QED BY <1>6, <3>1, <3>2
    <3> HIDE DEF Step
    <3> QED BY <1>1, <3>2, <3>3
  <2> HIDE DEF P
  <2>3. ASSUME NEW k \in 0..L PROVE k \in P
    <3>1. k \in Nat /\ \A n \in 1..k : n \in 1..L
      BY <1>1
    <3> QED BY <2>1, <2>2, <3>1, IntervalInduction
  <2> QED BY <2>3
<1>8. /\ \A n \in 0..L : f[n] \in S /\ Len(f[n]) = n
      /\ \A n \in 1..L : f[n] = Step(f[n - 1])
  <2> HIDE DEF Step, S
  <2>1. \A n \in 1..L : n \in 0..L /\ n # 0
    BY <1>1
  <2> QED BY <1>6, <1>7, <2>1
<1>9. Rec(f)
  <2>1. ASSUME NEW n \in 0..L
        PROVE  f[n] = IF n = 0 THEN <<>> ELSE Step(f[n - 1])
    <3> HIDE DEF Step
    <3> QED BY <1>1, <1>6, <1>8, <2>1
  <2> QED BY <1>6, <2>1
<1>10. places = [n \in 0..L |-> IF n = 0 THEN <<>> ELSE Step(places[n - 1])]
  <2>1. Rec(CHOOSE h : Rec(h))
    <3> HIDE DEF Rec
    <3> QED BY <1>9
  <2> QED BY <2>1
<1>11. BalancedTruncate(combos, max) = Chosen(combos, places[max])
  <2>1. BalancedTruncate(combos, max) =
          IF Len(combos) <= max THEN combos ELSE Chosen(combos, places[IF max < 0 THEN 0 ELSE max])
    BY DEF BalancedTruncate, L, Chosen, Each
  <2>2. ~(Len(combos) <= max) /\ ~(max < 0)
    OBVIOUS
  <2> HIDE DEF places
  <2> QED BY <2>1, <2>2
<1> HIDE DEF places, Rec, F, P
<1>12. places[max] = f[max]
  <2> HIDE DEF Step
  <2>1. \A n \in 0..L : places[n] = IF n = 0 THEN <<>> ELSE Step(places[n - 1])
    BY <1>10
  <2>2. \A n \in 1..max : places[n - 1] = f[n - 1] => places[n] = f[n]
    BY <1>1, <1>8, <2>1
  <2>3. places[0] = f[0]
    <3> HIDE DEF S
    <3>1. 0 \in 0..L
      BY <1>1
    <3> QED BY <1>6, <2>1, <3>1
  <2> QED BY <2>2, <2>3, ValuesAgree
<1> DEFINE g == [i \in 1..L |-> NextPlace(combos, f[i - 1])]
<1>13. \A n \in 1..L : IsPick(combos, f[n - 1], g[n]) /\ g[n] \in 1..L
  <2>1. ASSUME NEW n \in 1..L
        PROVE  f[n - 1] \in S /\ Len(f[n - 1]) < L
    BY <1>1, <1>8
  <2> HIDE DEF S, Step
  <2> QED BY <1>3, <2>1
<1>14. ASSUME NEW k \in 0..L
       PROVE  f[k] = FirstOnes(g, k)
  <2> DEFINE R == {n \in 0..L : f[n] = FirstOnes(g, n)}
  <2>1. 0 \in R
    <3>1. FirstOnes(g, 0) = <<>>
      BY DEF FirstOnes
    <3> HIDE DEF g
    <3> QED BY <1>1, <1>6, <3>1
  <2>2. ASSUME NEW n \in 1..L, n - 1 \in R
        PROVE  n \in R
    <3> DEFINE s == f[n - 1]
               x == g[n]
    <3>1. s \in Seq(1..L) /\ Len(s) = n - 1 /\ x \in 1..L /\ n - 1 \in 0..L /\ n \in 0..L
      <4>1. n - 1 \in 0..L /\ n \in 0..L
        BY <1>1
      <4> HIDE DEF g, S, Step
      <4>2. s \in S /\ Len(s) = n - 1 /\ x \in 1..L
        BY <1>8, <1>13, <4>1
      <4> QED BY <4>1, <4>2 DEF S
    <3>2. f[n] = Append(s, x)
      BY <1>8
    <3>3. \A i \in 1..(n - 1) : s[i] = g[i]
      <4> HIDE DEF g
      <4> QED BY <2>2 DEF FirstOnes
    <3> HIDE DEF s, x
    <3>4. Append(s, x) = [i \in 1..((n - 1) + 1) |-> IF i <= n - 1 THEN s[i] ELSE x]
      <4> DEFINE T == 1..L
                 N == n - 1
      <4>1. s \in Seq(T) /\ x \in T /\ N = Len(s)
        BY <3>1
      <4> HIDE DEF T, N
      <4>2. Append(s, x) = [i \in 1..(N + 1) |-> IF i <= N THEN s[i] ELSE x]
        BY <4>1, AppendIs
      <4> QED BY <4>2 DEF N
    <3>5. FirstOnes(g, n) = [i \in 1..n |-> g[i]]
      BY DEF FirstOnes
    <3> HIDE DEF g, R
    <3>6. (n - 1) + 1 = n
      OBVIOUS
    <3>7. \A i \in 1..n : (IF i <= n - 1 THEN s[i] ELSE x) = g[i]
      BY <3>3 DEF x
    <3>8. f[n] = FirstOnes(g, n)
      BY <3>2, <3>4, <3>5, <3>6, <3>7
    <3> QED BY <3>1, <3>8 DEF R
  <2> HIDE DEF R, g
  <2>3. k \in Nat /\ \A n \in 1..k : n \in 1..L
    BY <1>1
  <2>4. k \in R
    BY <2>1, <2>2, <2>3, IntervalInduction
  <2> QED BY <2>4 DEF R
<1>15. /\ \A n \in 1..L : IsPick(combos, FirstOnes(g, n - 1), g[n]) /\ g[n] \in 1..L
  <2> HIDE DEF g
  <2>1. \A n \in 1..L : n - 1 \in 0..L
    BY <1>1
  <2> QED BY <1>13, <1>14, <2>1
<1> DEFINE h == FirstOnes(g, max)
<1>16. IsBalanced(h, combos, max)
  <2>1. \A n \in 1..max : n \in 1..L /\ h[n] = g[n] /\ n - 1 \in Nat /\ n - 1 <= max
    <3> HIDE DEF g
    <3> QED BY <1>1 DEF FirstOnes
  <2> HIDE DEF g
  <2>2. h = [i \in 1..max |-> h[i]]
    BY DEF FirstOnes
  <2> HIDE DEF h
  <2>3. ASSUME NEW n \in 1..max PROVE IsPick(combos, FirstOnes(h, n - 1), h[n])
    <3>1. FirstOnes(h, n - 1) = FirstOnes(g, n - 1)
      BY <2>1, FirstOfFirst DEF h
    <3> QED BY <1>15, <2>1, <3>1
  <2>4. h \in [1..max -> DOMAIN combos]
    BY <1>1, <1>15, <2>1, <2>2
  <2>5. \A i, j \in 1..max : i < j => h[i] # h[j]
    <3>1. ASSUME NEW i \in 1..max, NEW j \in 1..max, i < j PROVE h[i] # h[j]
      <4>1. h[j] \notin Range(FirstOnes(h, j - 1))
        BY <2>3 DEF IsPick, Left
      <4>2. i \in 1..(j - 1)
        BY <3>1
      <4>3. h[i] \in Range(FirstOnes(h, j - 1))
        BY <4>2 DEF Range, FirstOnes
      <4> QED BY <4>1, <4>3
    <3> QED BY <3>1
  <2>6. IsInjective(h)
    <3>1. ASSUME NEW i \in DOMAIN h, NEW j \in DOMAIN h, h[i] = h[j] PROVE i = j
      <4>1. i \in 1..max /\ j \in 1..max /\ i \in Int /\ j \in Int
        BY <2>4, <3>1
      <4>2. ~(i < j) /\ ~(j < i)
        BY <2>5, <3>1, <4>1
      <4> QED BY <4>1, <4>2
    <3> QED BY <3>1 DEF IsInjective
  <2> QED BY <2>3, <2>4, <2>6 DEF IsBalanced
<1>17. f[max] = h
  BY <1>1, <1>14
<1> HIDE DEF h
<1> QED BY <1>11, <1>12, <1>16, <1>17

Swapped(c, dim, u) == [c EXCEPT ![dim] = u]

\* The dimensions of a selection are those of the axes, which are not many.
LEMMA SelectionIs ==
  ASSUME NEW axes, IsAxes(axes), NEW c \in Selections(axes, Len(axes))
  PROVE  /\ DOMAIN c = LastDimensions(axes, Len(axes)) /\ IsFiniteSet(DOMAIN c)
         /\ c = [d \in DOMAIN c |-> c[d]]
         /\ \A d : d \in DOMAIN c <=> \E i \in DOMAIN axes : d = axes[i].dimension
         /\ \A i \in DOMAIN axes : c[axes[i].dimension] \in Range(axes[i].values)
<1> DEFINE N == Len(axes)
           D == LastDimensions(axes, N)
           f == [i \in 1..N |-> axes[i].dimension]
<1>1. N \in Nat /\ DOMAIN axes = 1..N /\ (N - N + 1)..N = 1..N
  BY DEF IsAxes
<1>2. D = {axes[i].dimension : i \in 1..N}
  BY <1>1 DEF LastDimensions
<1>3. c \in [D -> AllValues(axes)] /\ \A i \in 1..N : c[axes[i].dimension] \in Range(axes[i].values)
  BY <1>1 DEF Selections
<1>4. f \in Surjection(1..N, D)
  BY <1>2 DEF Surjection
<1>5. IsFiniteSet(D)
  <2> DEFINE S == 1..N
  <2> HIDE DEF f, D, N
  <2>1. N \in Int /\ 1 \in Int
    BY <1>1
  <2>2. IsFiniteSet(S)
    BY <2>1, FS_Interval
  <2>3. f \in Surjection(S, D)
    BY <1>4
  <2> HIDE DEF S
  <2> QED BY <2>2, <2>3, FS_Surjection
<1> HIDE DEF D, N
<1>6. DOMAIN c = D /\ c = [d \in DOMAIN c |-> c[d]]
  BY <1>3
<1>7. \A d : d \in D <=> \E i \in DOMAIN axes : d = axes[i].dimension
  BY <1>1, <1>2
<1> QED BY <1>1, <1>3, <1>5, <1>6, <1>7 DEF D, N

\* Any value of an axis can be selected instead.
LEMMA SwapIn ==
  ASSUME NEW axes, IsAxes(axes), DimensionsDiffer(axes), NEW c \in Selections(axes, Len(axes)),
         NEW a \in DOMAIN axes, NEW u \in Range(axes[a].values)
  PROVE  /\ Swapped(c, axes[a].dimension, u) \in Selections(axes, Len(axes))
         /\ DOMAIN Swapped(c, axes[a].dimension, u) = DOMAIN c /\ axes[a].dimension \in DOMAIN c
         /\ Swapped(c, axes[a].dimension, u)[axes[a].dimension] = u
         /\ \A d \in DOMAIN c : d # axes[a].dimension => Swapped(c, axes[a].dimension, u)[d] = c[d]
<1> DEFINE N == Len(axes)
           D == LastDimensions(axes, N)
           V == AllValues(axes)
           dim == axes[a].dimension
           e == Swapped(c, dim, u)
<1>1. N \in Nat /\ DOMAIN axes = 1..N /\ (N - N + 1)..N = 1..N
  BY DEF IsAxes
<1>2. D = {axes[i].dimension : i \in 1..N}
  BY <1>1 DEF LastDimensions
<1>3. c \in [D -> V] /\ \A i \in 1..N : c[axes[i].dimension] \in Range(axes[i].values)
  BY <1>1 DEF Selections
<1>4. dim \in D /\ u \in V
  BY <1>1, <1>2 DEF AllValues
<1>5. Selections(axes, N) = {combo \in [D -> V] : \A i \in 1..N : combo[axes[i].dimension] \in Range(axes[i].values)}
  BY <1>1 DEF Selections
<1>6. \A i \in 1..N : axes[i].dimension = dim => i = a
  BY <1>1 DEF DimensionsDiffer
<1>7. \A i \in 1..N : axes[i].dimension \in D
  BY <1>2
<1>8. u \in Range(axes[a].values) /\ a \in 1..N
  BY <1>1
<1> HIDE DEF D, V, dim, N
<1>9. e \in [D -> V] /\ e[dim] = u /\ \A d \in D : d # dim => e[d] = c[d]
  BY <1>3, <1>4 DEF Swapped
<1> HIDE DEF e
<1>10. \A i \in 1..N : e[axes[i].dimension] \in Range(axes[i].values)
  <2>1. ASSUME NEW i \in 1..N PROVE e[axes[i].dimension] \in Range(axes[i].values)
    <3>1. CASE i = a
      BY <1>8, <1>9, <3>1 DEF dim
    <3>2. CASE i # a
      BY <1>3, <1>6, <1>7, <1>9, <3>2
    <3> QED BY <3>1, <3>2
  <2> QED BY <2>1
<1>11. e \in Selections(axes, N) /\ DOMAIN e = D /\ DOMAIN c = D
  BY <1>3, <1>5, <1>9, <1>10
<1> QED BY <1>4, <1>9, <1>11 DEF dim, e, N

\* A selection whose value for one dimension is chosen already is used more than the one with a value for it that is not.
LEMMA UsedMore ==
  ASSUME NEW D, IsFiniteSet(D), NEW c, NEW e, DOMAIN c = D, DOMAIN e = D, NEW dim \in D,
         \A d \in D : d # dim => e[d] = c[d],
         NEW chosen, IsFiniteSet(DOMAIN chosen), \A n \in DOMAIN chosen : chosen[n][dim] # e[dim],
         NEW m \in DOMAIN chosen, chosen[m][dim] = c[dim]
  PROVE  ~(Used(c, chosen) <= Used(e, chosen))
<1> DEFINE E == DOMAIN chosen
           more == {p \in D \X E : chosen[p[2]][p[1]] = c[p[1]]}
           less == {p \in D \X E : chosen[p[2]][p[1]] = e[p[1]]}
<1>1. Used(c, chosen) = Cardinality(more) /\ Used(e, chosen) = Cardinality(less)
  BY DEF Used
<1>2. IsFiniteSet(more)
  <2>1. IsFiniteSet(DOMAIN c)
    OBVIOUS
  <2> QED BY <2>1, UsesAreCounted
<1>3. <<dim, m>> \in more /\ <<dim, m>> \notin less
  OBVIOUS
<1>4. less \in SUBSET more
  <2>1. ASSUME NEW p \in D \X E, chosen[p[2]][p[1]] = e[p[1]] PROVE chosen[p[2]][p[1]] = c[p[1]]
    <3>1. p[1] \in D /\ p[2] \in E
      OBVIOUS
    <3>2. p[1] # dim
      BY <2>1, <3>1
    <3> QED BY <2>1, <3>1, <3>2
  <2> QED BY <2>1
<1> HIDE DEF more, less
<1>5. IsFiniteSet(less) /\ Cardinality(less) <= Cardinality(more) /\ Cardinality(less) # Cardinality(more)
  BY <1>2, <1>3, <1>4, FS_Subset
<1>6. Cardinality(less) \in Nat /\ Cardinality(more) \in Nat
  BY <1>2, <1>5, FS_CardinalityType
<1> QED BY <1>1, <1>5, <1>6

\* One of the picks has the value u.
Tries(g, combos, max, dim, u) == \E n \in 1..max : combos[g[n]][dim] = u

\* Every value of an axis is picked once there are as many picks as the axis has values: a value never picked would have
\* been picked before another one was picked again.
LEMMA BalancedTries ==
  ASSUME NEW axes, IsAxes(axes), DimensionsDiffer(axes), NEW combos, HasSelections(axes, Len(axes), combos),
         NEW max \in Nat, NEW g, IsBalanced(g, combos, max),
         NEW a \in DOMAIN axes, Len(axes[a].values) <= max, NEW u \in Range(axes[a].values)
  PROVE  Tries(g, combos, max, axes[a].dimension, u)
<1> DEFINE dim == axes[a].dimension
           W == Range(axes[a].values)
           All == Selections(axes, Len(axes))
<1> SUFFICES ASSUME \A n \in 1..max : combos[g[n]][dim] # u PROVE FALSE
  BY DEF Tries
<1>1. combos \in Seq(All) /\ Range(combos) = All
  BY DEF HasSelections
<1>2. /\ g \in [1..max -> DOMAIN combos]
      /\ \A n \in 1..max : IsPick(combos, FirstOnes(g, n - 1), g[n])
  BY DEF IsBalanced
<1>3. \A n \in 1..max : combos[g[n]] \in All
  <2> HIDE DEF All
  <2> QED BY <1>1, <1>2
<1>4. \A c \in All : c[dim] \in W
  BY SelectionIs
<1>5. ASSUME NEW m \in 1..max, NEW n \in 1..max, m < n, combos[g[m]][dim] = combos[g[n]][dim]
      PROVE  FALSE
  <2> DEFINE c == combos[g[n]]
             e == Swapped(c, dim, u)
             p == FirstOnes(g, n - 1)
             chosen == Chosen(combos, p)
             k == n - 1
  <2>1. c \in All
    BY <1>3
  <2>2. e \in All /\ DOMAIN e = DOMAIN c /\ dim \in DOMAIN c /\ e[dim] = u /\ \A d \in DOMAIN c : d # dim => e[d] = c[d]
    <3> HIDE DEF c
    <3>1. c \in Selections(axes, Len(axes)) /\ u \in Range(axes[a].values)
      BY <2>1
    <3>2. /\ Swapped(c, axes[a].dimension, u) \in Selections(axes, Len(axes))
          /\ DOMAIN Swapped(c, axes[a].dimension, u) = DOMAIN c /\ axes[a].dimension \in DOMAIN c
          /\ Swapped(c, axes[a].dimension, u)[axes[a].dimension] = u
          /\ \A d \in DOMAIN c : d # axes[a].dimension => Swapped(c, axes[a].dimension, u)[d] = c[d]
      <4> HIDE DEF dim, W, All, e
      <4> QED BY <3>1, SwapIn
    <3> QED BY <3>2
  <2>3. IsFiniteSet(DOMAIN c)
    BY <2>1, SelectionIs
  <2>4. k \in Nat /\ m \in 1..k /\ \A i \in 1..k : i \in 1..max
    BY <1>5
  <2>5. DOMAIN p = 1..k /\ \A i \in 1..k : p[i] = g[i]
    BY DEF FirstOnes
  <2>6. DOMAIN chosen = 1..k /\ \A i \in 1..k : chosen[i] = combos[g[i]]
    BY <2>5 DEF Chosen
  <2>7. PICK j \in DOMAIN combos : combos[j] = e
    BY <1>1, <2>2 DEF Range
  <2> HIDE DEF k, c, e, All
  <2>8. j \in Left(combos, p)
    <3>1. ASSUME j \in Range(p) PROVE FALSE
      <4>1. PICK i \in 1..k : p[i] = j
        BY <2>5, <3>1 DEF Range
      <4>2. g[i] = j /\ i \in 1..max
        BY <2>4, <2>5, <4>1
      <4>3. combos[g[i]][dim] = u
        BY <2>2, <2>7, <4>2
      <4> QED BY <4>2, <4>3
    <3> QED BY <2>7, <3>1 DEF Left
  <2>9. Used(c, chosen) <= Used(e, chosen)
    <3>1. IsPick(combos, p, g[n])
      BY <1>2
    <3>2. Used(combos[g[n]], chosen) <= Used(combos[j], chosen)
      BY <2>8, <3>1 DEF IsPick
    <3> QED BY <2>7, <3>2 DEF c
  <2>10. IsFiniteSet(DOMAIN chosen)
    BY <2>4, <2>6, UpToCount
  <2>11. \A i \in DOMAIN chosen : chosen[i][dim] # e[dim]
    BY <2>2, <2>4, <2>6
  <2>12. m \in DOMAIN chosen /\ chosen[m][dim] = c[dim]
    BY <1>5, <2>4, <2>6 DEF c
  <2> DEFINE D == DOMAIN c
  <2>13. IsFiniteSet(D) /\ DOMAIN c = D /\ DOMAIN e = D /\ dim \in D /\ \A d \in D : d # dim => e[d] = c[d]
    BY <2>2, <2>3
  <2> HIDE DEF D, chosen, p, dim
  <2> QED BY <2>9, <2>10, <2>11, <2>12, <2>13, UsedMore
<1> DEFINE S == 1..max
           T == W \ {u}
           h == [n \in S |-> combos[g[n]][dim]]
<1>6. h \in Injection(S, T)
  <2>1. h \in [S -> T]
    BY <1>3, <1>4
  <2>2. ASSUME NEW m \in S, NEW n \in S, h[m] = h[n] PROVE m = n
    <3>1. combos[g[m]][dim] = combos[g[n]][dim]
      BY <2>2
    <3>2. ~(m < n) /\ ~(n < m)
      BY <1>5, <3>1
    <3> QED BY <3>2
  <2>3. IsInjective(h)
    BY <2>2 DEF IsInjective
  <2> QED BY <2>1, <2>3 DEF Injection
<1>7. IsFiniteSet(S) /\ Cardinality(S) = max
  BY UpToCount
<1>8. IsFiniteSet(W) /\ Cardinality(W) \in Nat /\ Cardinality(W) <= max
  <2> DEFINE values == axes[a].values
  <2>1. values \in Seq(Range(values))
    BY DEF IsAxes, IsTextList, Range
  <2>2. Len(values) \in Nat /\ Len(values) <= max
    BY <2>1
  <2> HIDE DEF values
  <2>3. IsFiniteSet(Range(values)) /\ Cardinality(Range(values)) \in Nat /\ Cardinality(Range(values)) <= Len(values)
    BY <2>1, RangeIsSmall
  <2> QED BY <2>2, <2>3 DEF values
<1> HIDE DEF S, W, h
<1>9. IsFiniteSet(T) /\ Cardinality(T) = Cardinality(W) - 1
  BY <1>8, FS_RemoveElement DEF W
<1> HIDE DEF T
<1>10. Cardinality(S) <= Cardinality(T)
  BY <1>6, <1>9, FS_Injection
<1> QED BY <1>7, <1>8, <1>9, <1>10

-----------------------------------------------------------------------------
(* From the product to the variants.                                          *)

\* What constraints let through.
Allows(combo, constraints) ==
  \A i \in DOMAIN constraints : ~Incompatible(constraints[i], combo) /\ ~RequiredIsMissing(constraints[i], combo)

\* The constraints keep what they allow.
LEMMA AllowedIs ==
  ASSUME NEW T, NEW combos \in Seq(T), NEW constraints, NEW t, t = ApplyConstraints(combos, constraints)
  PROVE  /\ ComesFrom(t, combos, T) /\ Len(t) \in Nat /\ Len(t) <= Len(combos)
         /\ \A c \in Range(t) : Allows(c, constraints)
         /\ constraints = <<>> => t = combos
<1> DEFINE I == {i \in DOMAIN combos : Allows(combos[i], constraints)}
<1>1. t = KeptAt(combos, I)
  BY DEF ApplyConstraints, Only, KeptAt, Allows
<1>2. ComesFrom(t, combos, T) /\ Range(t) = {combos[i] : i \in I} /\ Len(t) \in Nat /\ Len(t) <= Len(combos)
  <2>1. I \in SUBSET DOMAIN combos
    OBVIOUS
  <2> HIDE DEF I
  <2> QED BY <1>1, <2>1, KeptComesFrom
<1>3. \A c \in Range(t) : Allows(c, constraints)
  BY <1>2
<1>4. ASSUME constraints = <<>> PROVE t = combos
  <2>1. DOMAIN constraints = {}
    BY <1>4
  <2>2. I = DOMAIN combos
    BY <2>1 DEF Allows
  <2> HIDE DEF I
  <2> QED BY <1>1, <2>2, KeptAll
<1> QED BY <1>2, <1>3, <1>4

\* All of them.
LEMMA AllAllowedStay ==
  ASSUME NEW T, NEW combos \in Seq(T), NEW constraints, NEW c \in Range(combos), Allows(c, constraints)
  PROVE  c \in Range(ApplyConstraints(combos, constraints))
<1> DEFINE I == {i \in DOMAIN combos : Allows(combos[i], constraints)}
<1>1. ApplyConstraints(combos, constraints) = KeptAt(combos, I)
  BY DEF ApplyConstraints, Only, KeptAt, Allows
<1>2. PICK i \in I : combos[i] = c
  BY DEF Range
<1>3. I \in SUBSET DOMAIN combos
  OBVIOUS
<1> HIDE DEF I
<1>4. Range(KeptAt(combos, I)) = {combos[j] : j \in I}
  BY <1>3, KeptComesFrom
<1> QED BY <1>1, <1>2, <1>4

\* t has the n combinations of s in front that vary the focus axis alone, and the others after them.
FocusFirst(t, s, focus, control, n) ==
  /\ n \in 0..Len(s) /\ Len(t) = Len(s)
  /\ \A i \in 1..n : FocusOnlyVariation(t[i], focus, control)
  /\ \A c \in Range(s) : FocusOnlyVariation(c, focus, control) => \E i \in 1..n : t[i] = c

\* The focused strategy puts them there.
LEMMA FocusedIs ==
  ASSUME NEW T, NEW combos \in Seq(T), NEW focus, NEW axes, NEW t, t = FocusedStrategy(combos, focus, axes)
  PROVE  /\ ComesFrom(t, combos, T)
         /\ \E n : FocusFirst(t, combos, focus, ControlValues(axes), n)
<1> DEFINE control == ControlValues(axes)
           D == DOMAIN combos
           I == {i \in D : FocusOnlyVariation(combos[i], focus, control)}
           J == {i \in D : ~FocusOnlyVariation(combos[i], focus, control)}
           a == KeptAt(combos, I)
           b == KeptAt(combos, J)
<1>1. t = a \o b
  BY DEF FocusedStrategy, Only, KeptAt
<1>2. I \in SUBSET D /\ J \in SUBSET D /\ I \cup J = D /\ I \cap J = {}
  OBVIOUS
<1>3. \A i \in D : i \in I <=> FocusOnlyVariation(combos[i], focus, control)
  OBVIOUS
<1> HIDE DEF I, J
<1>4. ComesFrom(a, combos, T) /\ Range(a) = {combos[i] : i \in I} /\ Len(a) = Cardinality(I) /\ Len(a) \in Nat
  BY <1>2, KeptComesFrom
<1>5. ComesFrom(b, combos, T) /\ Range(b) = {combos[i] : i \in J} /\ Len(b) = Cardinality(J) /\ Len(b) \in Nat
  BY <1>2, KeptComesFrom
<1> HIDE DEF a, b
<1>6. Len(a) + Len(b) = Len(combos)
  <2>1. Len(combos) \in Nat /\ D = 1..Len(combos)
    OBVIOUS
  <2>2. IsFiniteSet(D) /\ Cardinality(D) = Len(combos)
    BY <2>1, UpToCount
  <2> HIDE DEF D
  <2>3. IsFiniteSet(I) /\ IsFiniteSet(J)
    BY <1>2, <2>2, FS_Subset
  <2>4. Cardinality(I \cup J) = Cardinality(I) + Cardinality(J) - Cardinality(I \cap J)
    BY <2>3, FS_Union
  <2>5. Cardinality(I \cap J) = 0
    BY <1>2, FS_EmptySet
  <2>6. Cardinality(I \cup J) = Len(combos)
    BY <1>2, <2>2
  <2> QED BY <1>4, <1>5, <2>4, <2>5, <2>6
<1>7. a \in Seq(T) /\ b \in Seq(T)
  BY <1>4, <1>5 DEF ComesFrom
<1>8. /\ t \in Seq(T) /\ Len(t) = Len(combos) /\ DOMAIN t = 1..(Len(a) + Len(b))
      /\ \A i \in 1..Len(a) : t[i] = a[i]
      /\ \A i \in (Len(a) + 1)..(Len(a) + Len(b)) : t[i] = b[i - Len(a)] /\ i - Len(a) \in 1..Len(b)
  BY <1>1, <1>6, <1>7
<1>9. Range(t) \in SUBSET Range(combos)
  <2>1. Range(a) \in SUBSET Range(combos) /\ Range(b) \in SUBSET Range(combos)
    BY <1>4, <1>5 DEF ComesFrom
  <2>2. \A i \in 1..Len(a) : a[i] \in Range(a)
    BY <1>7 DEF Range
  <2>3. \A i \in 1..Len(b) : b[i] \in Range(b)
    BY <1>7 DEF Range
  <2>4. ASSUME NEW i \in DOMAIN t PROVE t[i] \in Range(combos)
    <3>1. CASE i \in 1..Len(a)
      BY <1>8, <2>1, <2>2, <3>1
    <3>2. CASE i \notin 1..Len(a)
      <4>1. i \in (Len(a) + 1)..(Len(a) + Len(b))
        BY <1>4, <1>5, <1>8, <3>2
      <4> QED BY <1>8, <2>1, <2>3, <4>1
    <3> QED BY <3>1, <3>2
  <2> QED BY <2>4 DEF Range
<1>10. ASSUME IsInjective(combos) PROVE IsInjective(t)
  <2>1. IsInjective(a) /\ IsInjective(b)
    BY <1>4, <1>5, <1>10 DEF ComesFrom
  <2>2. Range(a) \cap Range(b) = {}
    <3>1. \A i \in I, j \in J : combos[i] # combos[j]
      BY <1>2, <1>10 DEF IsInjective
    <3> QED BY <1>4, <1>5, <3>1
  <2> QED BY <1>1, <1>7, <2>1, <2>2, JoinInjective
<1>11. FocusFirst(t, combos, focus, control, Len(a))
  <2>1. Len(a) \in 0..Len(combos)
    BY <1>4, <1>5, <1>6
  <2>2. \A i \in 1..Len(a) : FocusOnlyVariation(t[i], focus, control)
    <3>1. ASSUME NEW i \in 1..Len(a) PROVE FocusOnlyVariation(t[i], focus, control)
      <4>1. a[i] \in Range(a)
        BY <1>7 DEF Range
      <4>2. PICK k \in I : a[i] = combos[k]
        BY <1>4, <4>1
      <4> HIDE DEF control
      <4> QED BY <1>2, <1>3, <1>8, <4>2
    <3> QED BY <3>1
  <2>3. ASSUME NEW c \in Range(combos), FocusOnlyVariation(c, focus, control)
        PROVE  \E i \in 1..Len(a) : t[i] = c
    <3>1. PICK k \in D : combos[k] = c
      BY DEF Range
    <3> HIDE DEF control
    <3>2. k \in I
      BY <1>3, <2>3, <3>1
    <3>3. c \in Range(a)
      BY <1>4, <3>1, <3>2
    <3>4. PICK i \in DOMAIN a : a[i] = c
      BY <3>3 DEF Range
    <3>5. i \in 1..Len(a)
      BY <1>7
    <3> QED BY <1>8, <3>4, <3>5
  <2> QED BY <1>8, <2>1, <2>2, <2>3 DEF FocusFirst
<1> HIDE DEF control
<1> QED BY <1>8, <1>9, <1>10, <1>11 DEF ComesFrom, control

\* It leaves none out.
LEMMA AllAreOrdered ==
  ASSUME NEW T, NEW combos \in Seq(T), NEW focus, NEW axes, NEW c \in Range(combos)
  PROVE  c \in Range(FocusedStrategy(combos, focus, axes))
<1> DEFINE control == ControlValues(axes)
           I == {i \in DOMAIN combos : FocusOnlyVariation(combos[i], focus, control)}
           J == {i \in DOMAIN combos : ~FocusOnlyVariation(combos[i], focus, control)}
           a == KeptAt(combos, I)
           b == KeptAt(combos, J)
<1>1. FocusedStrategy(combos, focus, axes) = a \o b
  BY DEF FocusedStrategy, Only, KeptAt
<1>2. I \in SUBSET DOMAIN combos /\ J \in SUBSET DOMAIN combos
  OBVIOUS
<1>3. PICK i \in DOMAIN combos : combos[i] = c
  BY DEF Range
<1>4. i \in I \/ i \in J
  OBVIOUS
<1> HIDE DEF I, J
<1>5. Range(a) = {combos[k] : k \in I} /\ Range(b) = {combos[k] : k \in J} /\ a \in Seq(T) /\ b \in Seq(T)
  BY <1>2, KeptComesFrom DEF ComesFrom
<1> HIDE DEF a, b
<1>6. c \in Range(a) \/ c \in Range(b)
  BY <1>3, <1>4, <1>5
<1>7. Range(a) \in SUBSET Range(a \o b)
  <2>1. \A k \in DOMAIN a : k \in DOMAIN (a \o b) /\ (a \o b)[k] = a[k]
    BY <1>5
  <2> QED BY <2>1 DEF Range
<1>8. Range(b) \in SUBSET Range(a \o b)
  <2>1. \A k \in DOMAIN b : Len(a) + k \in DOMAIN (a \o b) /\ (a \o b)[Len(a) + k] = b[k]
    BY <1>5
  <2> QED BY <2>1 DEF Range
<1> QED BY <1>1, <1>6, <1>7, <1>8

\* The first n elements.
LEMMA SliceIs ==
  ASSUME NEW T, NEW s \in Seq(T), NEW n \in Nat, n < Len(s), NEW t, t = Slice(s, n)
  PROVE  ComesFrom(t, s, T) /\ Len(t) = n /\ DOMAIN t = 1..n /\ \A i \in 1..n : t[i] = s[i]
<1>1. Len(s) \in Nat /\ DOMAIN s = 1..Len(s) /\ ~(n < 0)
  OBVIOUS
<1>2. t = SubSeq(s, 1, n)
  BY <1>1 DEF Slice
<1>3. t \in Seq(T) /\ Len(t) = n /\ DOMAIN t = 1..n /\ \A i \in 1..n : t[i] = s[i]
  BY <1>1, <1>2
<1>4. \A i \in 1..n : i \in DOMAIN s
  BY <1>1
<1>5. Range(t) \in SUBSET Range(s)
  BY <1>3, <1>4 DEF Range
<1>6. IsInjective(s) => IsInjective(t)
  BY <1>3, <1>4 DEF IsInjective
<1> QED BY <1>3, <1>5, <1>6 DEF ComesFrom

\* Truncating for balance keeps as many as wanted.
LEMMA BalancedComesFrom ==
  ASSUME NEW T, NEW s \in Seq(T), \A i \in DOMAIN s : IsFiniteSet(DOMAIN s[i]),
         NEW n \in Nat, n < Len(s), NEW t, t = BalancedTruncate(s, n)
  PROVE  /\ ComesFrom(t, s, T) /\ Len(t) = n /\ DOMAIN t = 1..n
         /\ \E g : IsBalanced(g, s, n) /\ \A i \in 1..n : t[i] = s[g[i]]
<1>1. PICK g : IsBalanced(g, s, n) /\ t = Chosen(s, g)
  BY BalancedIs
<1>2. g \in [1..n -> DOMAIN s] /\ IsInjective(g)
  BY <1>1 DEF IsBalanced
<1>3. DOMAIN t = 1..n /\ t = [i \in 1..n |-> t[i]] /\ \A i \in 1..n : t[i] = s[g[i]] /\ g[i] \in DOMAIN s
  BY <1>1, <1>2 DEF Chosen
<1>4. \A i \in DOMAIN s : s[i] \in T
  OBVIOUS
<1>5. t \in Seq(T) /\ Len(t) = n
  BY <1>3, <1>4
<1>6. Range(t) \in SUBSET Range(s)
  BY <1>3 DEF Range
<1>7. ASSUME IsInjective(s) PROVE IsInjective(t)
  <2>1. \A i, j \in DOMAIN s : s[i] = s[j] => i = j
    BY <1>7 DEF IsInjective
  <2>2. \A i, j \in 1..n : g[i] = g[j] => i = j
    BY <1>2 DEF IsInjective
  <2> QED BY <1>3, <2>1, <2>2 DEF IsInjective
<1> QED BY <1>1, <1>3, <1>5, <1>6, <1>7 DEF ComesFrom

\* The steps of the expansion of a plan.
Possible(plan) == ApplyConstraints(CartesianProduct(plan.axes), plan.constraints)
Ordered(plan) ==
  IF plan.strategy = "focused" /\ plan.focusAxis # Missing
  THEN FocusedStrategy(Possible(plan), plan.focusAxis, plan.axes) ELSE Possible(plan)
KeptOf(plan) ==
  IF Len(Ordered(plan)) <= plan.maxVariantsTotal THEN Ordered(plan)
  ELSE IF plan.strategy = "balanced" THEN BalancedTruncate(Ordered(plan), plan.maxVariantsTotal)
  ELSE Slice(Ordered(plan), plan.maxVariantsTotal)
AllSelections(plan) == Selections(plan.axes, Len(plan.axes))

\* What is kept for the variants are selections, each allowed and none more often than the product has it; they are all
\* those possible, or as many as wanted.
LEMMA KeptFacts ==
  ASSUME NEW plan, IsPlan(plan), ValidateVariantPlan(plan).valid
  PROVE  /\ ComesFrom(KeptOf(plan), CartesianProduct(plan.axes), AllSelections(plan))
         /\ ComesFrom(Possible(plan), CartesianProduct(plan.axes), AllSelections(plan))
         /\ \A c \in Range(KeptOf(plan)) : Allows(c, plan.constraints)
         /\ Len(Possible(plan)) \in Nat /\ Len(Possible(plan)) <= Len(CartesianProduct(plan.axes))
         /\ plan.constraints = <<>> => Possible(plan) = CartesianProduct(plan.axes)
         /\ ComesFrom(Ordered(plan), Possible(plan), AllSelections(plan)) /\ Len(Ordered(plan)) = Len(Possible(plan))
         /\ Len(KeptOf(plan)) = (IF Len(Possible(plan)) <= plan.maxVariantsTotal THEN Len(Possible(plan)) ELSE plan.maxVariantsTotal)
         /\ HasSelections(plan.axes, Len(plan.axes), CartesianProduct(plan.axes))
<1> DEFINE axes == plan.axes
           max == plan.maxVariantsTotal
           T == AllSelections(plan)
           product == CartesianProduct(axes)
           possible == Possible(plan)
           ordered == Ordered(plan)
           kept == KeptOf(plan)
<1>1. IsAxes(axes) /\ DimensionsDiffer(axes) /\ axes # <<>> /\ max \in Nat
  BY ValidPlan DEF IsPlan
<1>2. HasSelections(axes, Len(axes), product)
  BY <1>1, ProductOfAxes
<1>3. product \in Seq(T)
  BY <1>2 DEF HasSelections, AllSelections
<1>4. /\ ComesFrom(possible, product, T) /\ Len(possible) \in Nat /\ Len(possible) <= Len(product)
      /\ \A c \in Range(possible) : Allows(c, plan.constraints)
      /\ plan.constraints = <<>> => possible = product
  <2> HIDE DEF T
  <2>1. possible = ApplyConstraints(product, plan.constraints)
    BY DEF Possible
  <2> HIDE DEF product, possible
  <2> QED BY <1>3, <2>1, AllowedIs
<1>5. possible \in Seq(T)
  BY <1>4 DEF ComesFrom
<1>6. ComesFrom(ordered, possible, T) /\ Len(ordered) = Len(possible)
  <2>1. CASE plan.strategy = "focused" /\ plan.focusAxis # Missing
    <3>1. ordered = FocusedStrategy(possible, plan.focusAxis, axes)
      BY <2>1 DEF Ordered
    <3> DEFINE control == ControlValues(axes)
               focus == plan.focusAxis
    <3> HIDE DEF ordered, possible, T
    <3>2. ComesFrom(ordered, possible, T) /\ \E n : FocusFirst(ordered, possible, focus, control, n)
      BY <1>5, <3>1, FocusedIs
    <3> HIDE DEF control, focus
    <3> QED BY <3>2 DEF FocusFirst
  <2>2. CASE ~(plan.strategy = "focused" /\ plan.focusAxis # Missing)
    <3>1. ordered = possible
      BY <2>2 DEF Ordered
    <3> HIDE DEF ordered, possible, T
    <3> QED BY <1>5, <3>1 DEF ComesFrom
  <2> QED BY <2>1, <2>2
<1> HIDE DEF T, possible, ordered, product, kept, max
<1>7. ordered \in Seq(T) /\ Len(ordered) \in Nat
  BY <1>6 DEF ComesFrom
<1>8. /\ ComesFrom(kept, ordered, T)
      /\ Len(kept) = IF Len(ordered) <= max THEN Len(ordered) ELSE max
  <2>1. kept = IF Len(ordered) <= max THEN ordered
               ELSE IF plan.strategy = "balanced" THEN BalancedTruncate(ordered, max) ELSE Slice(ordered, max)
    BY DEF KeptOf, kept, ordered, max
  <2>2. CASE Len(ordered) <= max
    BY <1>7, <2>1, <2>2 DEF ComesFrom
  <2>3. CASE ~(Len(ordered) <= max) /\ plan.strategy = "balanced"
    <3>1. \A i \in DOMAIN ordered : IsFiniteSet(DOMAIN ordered[i])
      <4>1. \A i \in DOMAIN ordered : ordered[i] \in T
        BY <1>7
      <4>2. \A c \in T : IsFiniteSet(DOMAIN c)
        <5>1. T = Selections(axes, Len(axes))
          BY DEF T, AllSelections
        <5> HIDE DEF axes
        <5> QED BY <1>1, <5>1, SelectionIs
      <4> QED BY <4>1, <4>2
    <3>2. max < Len(ordered) /\ kept = BalancedTruncate(ordered, max)
      BY <1>1, <1>7, <2>1, <2>3
    <3>3. ComesFrom(kept, ordered, T) /\ Len(kept) = max
      BY <1>1, <1>7, <3>1, <3>2, BalancedComesFrom
    <3> QED BY <2>3, <3>3
  <2>4. CASE ~(Len(ordered) <= max) /\ plan.strategy # "balanced"
    <3>1. max < Len(ordered) /\ kept = Slice(ordered, max)
      BY <1>1, <1>7, <2>1, <2>4
    <3>2. ComesFrom(kept, ordered, T) /\ Len(kept) = max
      BY <1>1, <1>7, <3>1, SliceIs
    <3> QED BY <2>4, <3>2
  <2> QED BY <2>2, <2>3, <2>4
<1>9. ComesFrom(kept, product, T)
  BY <1>4, <1>6, <1>8 DEF ComesFrom
<1>10. \A c \in Range(kept) : Allows(c, plan.constraints)
  BY <1>4, <1>6, <1>8 DEF ComesFrom
<1> QED BY <1>2, <1>4, <1>6, <1>8, <1>9, <1>10 DEF T, possible, ordered, product, kept, max

\* While there is room, no selection that is allowed is left out.
LEMMA AllKept ==
  ASSUME NEW plan, IsPlan(plan), ValidateVariantPlan(plan).valid, Len(KeptOf(plan)) < plan.maxVariantsTotal,
         NEW c \in AllSelections(plan), Allows(c, plan.constraints)
  PROVE  c \in Range(KeptOf(plan))
<1> DEFINE T == AllSelections(plan)
           product == CartesianProduct(plan.axes)
           max == plan.maxVariantsTotal
<1>1. /\ Len(Possible(plan)) \in Nat /\ Len(Ordered(plan)) = Len(Possible(plan)) /\ max \in Nat
      /\ Len(KeptOf(plan)) = (IF Len(Possible(plan)) <= max THEN Len(Possible(plan)) ELSE max)
  BY KeptFacts, ValidPlan
<1>2. KeptOf(plan) = Ordered(plan)
  BY <1>1 DEF KeptOf
<1>3. product \in Seq(T) /\ c \in Range(product)
  BY KeptFacts DEF HasSelections, AllSelections
<1> HIDE DEF T, product
<1>4. c \in Range(Possible(plan))
  BY <1>3, AllAllowedStay DEF Possible, product
<1>5. Possible(plan) \in Seq(T)
  BY KeptFacts DEF ComesFrom, T
<1>6. CASE plan.strategy = "focused" /\ plan.focusAxis # Missing
  <2>1. Ordered(plan) = FocusedStrategy(Possible(plan), plan.focusAxis, plan.axes)
    BY <1>6 DEF Ordered
  <2> QED BY <1>2, <1>4, <1>5, <2>1, AllAreOrdered
<1>7. CASE ~(plan.strategy = "focused" /\ plan.focusAxis # Missing)
  BY <1>2, <1>4, <1>7 DEF Ordered
<1> QED BY <1>6, <1>7

-----------------------------------------------------------------------------
(* Plans are spread.                                                          *)

\* One of the combinations has the value.
HasValue(combos, dim, value) == \E v \in DOMAIN combos : combos[v][dim] = value

\* With the balanced strategy and nothing in the way every value is kept once as many variants may be as an axis has values.
LEMMA BalancedKeepsAll ==
  ASSUME NEW plan, IsPlan(plan), ValidateVariantPlan(plan).valid, NEW kept, kept = KeptOf(plan), kept # <<>>,
         plan.strategy = "balanced", plan.constraints = <<>>,
         NEW a \in DOMAIN plan.axes, Len(plan.axes[a].values) <= plan.maxVariantsTotal,
         NEW j \in DOMAIN plan.axes[a].values
  PROVE  HasValue(kept, plan.axes[a].dimension, plan.axes[a].values[j])
<1> DEFINE axes == plan.axes
           max == plan.maxVariantsTotal
           T == AllSelections(plan)
           product == CartesianProduct(axes)
           dim == axes[a].dimension
           u == axes[a].values[j]
<1>1. IsAxes(axes) /\ DimensionsDiffer(axes) /\ max \in Nat
  BY ValidPlan DEF IsPlan
<1>2. HasSelections(axes, Len(axes), product) /\ T = Selections(axes, Len(axes)) /\ ComesFrom(kept, product, T)
  BY KeptFacts DEF AllSelections
<1>3. kept = IF Len(product) <= max THEN product ELSE BalancedTruncate(product, max)
  <2>1. Possible(plan) = product
    BY KeptFacts
  <2>2. Ordered(plan) = product
    BY <2>1 DEF Ordered
  <2> QED BY <2>2 DEF KeptOf
<1>4. product \in Seq(T) /\ Range(product) = T /\ kept \in Seq(T)
  BY <1>2 DEF HasSelections, ComesFrom
<1>5. u \in Range(axes[a].values) /\ a \in DOMAIN axes
  BY DEF Range
<1> HIDE DEF product, T, u, max
<1>6. CASE Len(product) <= max
  <2>1. kept = product
    BY <1>3, <1>6
  <2>2. kept[1] \in T
    BY <1>4
  <2> DEFINE e == Swapped(kept[1], dim, u)
             c == kept[1]
  <2>3. e \in T /\ e[dim] = u
    <3>1. c \in Selections(axes, Len(axes))
      BY <1>2, <2>2
    <3> HIDE DEF c, axes
    <3>2. /\ Swapped(c, axes[a].dimension, u) \in Selections(axes, Len(axes))
          /\ Swapped(c, axes[a].dimension, u)[axes[a].dimension] = u
      BY <1>1, <1>5, <3>1, SwapIn
    <3> QED BY <1>2, <3>2 DEF c
  <2> HIDE DEF e
  <2>4. PICK v \in DOMAIN product : product[v] = e
    BY <1>4, <2>3 DEF Range
  <2> QED BY <2>1, <2>3, <2>4 DEF u, HasValue
<1>7. CASE ~(Len(product) <= max)
  <2>1. max < Len(product) /\ kept = BalancedTruncate(product, max)
    BY <1>1, <1>3, <1>4, <1>7
  <2>2. \A i \in DOMAIN product : IsFiniteSet(DOMAIN product[i])
    <3>1. \A i \in DOMAIN product : product[i] \in T
      BY <1>4
    <3>2. \A c \in T : IsFiniteSet(DOMAIN c)
      <4> HIDE DEF axes
      <4> QED BY <1>1, <1>2, SelectionIs
    <3> QED BY <3>1, <3>2
  <2>3. DOMAIN kept = 1..max /\ \E g : IsBalanced(g, product, max) /\ \A i \in 1..max : kept[i] = product[g[i]]
    <3> HIDE DEF axes, dim
    <3>1. product \in Seq(T) /\ max \in Nat /\ max < Len(product) /\ kept = BalancedTruncate(product, max)
      BY <1>1, <1>4, <2>1
    <3> QED BY <2>2, <3>1, BalancedComesFrom
  <2>4. PICK g : IsBalanced(g, product, max) /\ \A i \in 1..max : kept[i] = product[g[i]]
    BY <2>3
  <2>5. \E n \in 1..max : product[g[n]][dim] = u
    <3>1. Len(axes[a].values) <= max
      BY DEF max
    <3> HIDE DEF axes, dim
    <3>2. /\ HasSelections(axes, Len(axes), product) /\ IsBalanced(g, product, max) /\ max \in Nat
          /\ a \in DOMAIN axes /\ u \in Range(axes[a].values)
      BY <1>1, <1>2, <1>5, <2>4
    <3>3. Tries(g, product, max, axes[a].dimension, u)
      BY <1>1, <3>1, <3>2, BalancedTries
    <3> QED BY <3>3 DEF dim, Tries
  <2> QED BY <2>3, <2>4, <2>5 DEF u, HasValue
<1> QED BY <1>6, <1>7

\* With the focused strategy the variants of the focus axis alone are kept first.
LEMMA FocusedKeepsFirst ==
  ASSUME NEW plan, IsPlan(plan), ValidateVariantPlan(plan).valid, NEW kept, kept = KeptOf(plan),
         plan.strategy = "focused", NEW control, control = ControlValues(plan.axes),
         NEW possible, possible = Possible(plan)
  PROVE  \/ \A v \in DOMAIN kept : FocusOnlyVariation(kept[v], plan.focusAxis, control)
         \/ \A c \in DOMAIN possible : FocusOnlyVariation(possible[c], plan.focusAxis, control) => Contains(kept, possible[c])
<1> DEFINE max == plan.maxVariantsTotal
           T == AllSelections(plan)
           focus == plan.focusAxis
           ordered == Ordered(plan)
<1>1. IsAxes(plan.axes) /\ max \in Nat
  BY ValidPlan DEF IsPlan
<1>2. focus # Missing
  <2>1. PICK i \in DOMAIN plan.axes : focus = plan.axes[i].dimension
    BY ValidPlan
  <2> QED BY <1>1, <2>1 DEF IsAxes, Range
<1>3. ordered = FocusedStrategy(possible, focus, plan.axes)
  BY <1>2 DEF Ordered
<1>4. kept = IF Len(ordered) <= max THEN ordered ELSE Slice(ordered, max)
  BY DEF KeptOf
<1>5. possible \in Seq(T) /\ ordered \in Seq(T)
  BY KeptFacts DEF ComesFrom
<1> HIDE DEF ordered, max, T
<1>6. PICK n : FocusFirst(ordered, possible, focus, control, n)
  <2>1. \E n : FocusFirst(ordered, possible, focus, ControlValues(plan.axes), n)
    <3> HIDE DEF focus
    <3> QED BY <1>3, <1>5, FocusedIs
  <2> QED BY <2>1
<1>7. /\ n \in 0..Len(ordered) /\ \A i \in 1..n : FocusOnlyVariation(ordered[i], focus, control)
      /\ \A c \in Range(possible) : FocusOnlyVariation(c, focus, control) => \E i \in 1..n : ordered[i] = c
  BY <1>6 DEF FocusFirst
<1>8. Len(ordered) \in Nat /\ DOMAIN ordered = 1..Len(ordered)
  BY <1>5
<1>9. \A c \in DOMAIN possible : possible[c] \in Range(possible)
  BY DEF Range
<1>10. CASE Len(ordered) <= max
  <2>1. kept = ordered /\ \A i \in 1..n : i \in 1..Len(kept)
    BY <1>4, <1>7, <1>8, <1>10
  <2> QED BY <1>7, <1>9, <2>1 DEF Contains
<1>11. CASE ~(Len(ordered) <= max)
  <2>1. Len(kept) = max /\ DOMAIN kept = 1..max /\ \A i \in 1..max : kept[i] = ordered[i]
    <3>1. max < Len(ordered) /\ kept = Slice(ordered, max)
      BY <1>1, <1>4, <1>8, <1>11
    <3> QED BY <1>1, <1>5, <3>1, SliceIs
  <2>2. CASE max <= n
    BY <1>1, <1>7, <1>8, <2>1, <2>2
  <2>3. CASE ~(max <= n)
    <3>1. \A i \in 1..n : i \in 1..max
      BY <1>1, <1>7, <1>8, <2>3
    <3> QED BY <1>7, <1>9, <2>1, <3>1 DEF Contains
  <2> QED BY <2>2, <2>3
<1> QED BY <1>10, <1>11

\* A plan that is not empty is expanded into what is kept of it.
LEMMA MatrixIs ==
  ASSUME NEW plan, plan.axes # <<>>, NEW kept, kept = KeptOf(plan), NEW variants, variants = GenerateVariantMatrix(plan)
  PROVE  /\ DOMAIN variants = DOMAIN kept
         /\ \A v \in DOMAIN kept : /\ variants[v].axisValues = kept[v]
                                   /\ variants[v].slug = Slug(kept[v], DimensionsInOrder(plan.axes), plan.naming)
<1>1. variants = [v \in DOMAIN kept |->
                    [axisValues |-> kept[v], slug |-> Slug(kept[v], DimensionsInOrder(plan.axes), plan.naming)]]
  BY DEF GenerateVariantMatrix, KeptOf, Ordered, Possible, Each
<1> QED BY <1>1

\* The runs that expand a plan.
LEMMA ExpandedPlan ==
  ASSUME PlanningInvariant, NEW i \in RunsOf("ads.variant.plan"), done[i].in.mode = "generate", done[i].in.plan # Missing
  PROVE  IsPlan(done[i].in.plan) /\ done[i].out.variants = GenerateVariantMatrix(done[i].in.plan)
<1>1. done[i].out = Outcome("ads.variant.plan", done[i].in) /\ IsInput("ads.variant.plan", done[i].in)
  BY RunsOfNode
<1>2. IsPlan(done[i].in.plan)
  BY <1>1 DEF IsInput
<1>3. done[i].out = VariantPlan(done[i].in)
  BY <1>1 DEF Outcome
<1>4. done[i].out.status = "success" /\ Error("VARIANT_PLAN_FAILED").status = "error"
  BY DEF RunsOf, Error
<1> DEFINE plan == done[i].in.plan
           variants == GenerateVariantMatrix(plan)
<1>5. done[i].out = IF plan.naming.separator = "" /\ variants # <<>> THEN Error("VARIANT_PLAN_FAILED")
                    ELSE [status |-> "success", plan |-> plan, variants |-> variants]
  <2> DEFINE in == done[i].in
  <2>1. in.mode = "generate" /\ in.plan # Missing /\ done[i].out = VariantPlan(in)
    BY <1>3
  <2> HIDE DEF in
  <2>2. done[i].out = IF in.plan.naming.separator = "" /\ GenerateVariantMatrix(in.plan) # <<>>
                      THEN Error("VARIANT_PLAN_FAILED")
                      ELSE [status |-> "success", plan |-> in.plan, variants |-> GenerateVariantMatrix(in.plan)]
    BY <2>1, Zenon DEF VariantPlan
  <2> QED BY <2>2 DEF in
<1> HIDE DEF variants
<1>6. done[i].out = [status |-> "success", plan |-> plan, variants |-> variants]
  BY <1>4, <1>5
<1> QED BY <1>2, <1>6 DEF variants

\* Whatever runs, a plan is spread.
LEMMA PlansAreSpread == PlanningInvariant => PlanIsSpread
<1> SUFFICES ASSUME PlanningInvariant,
                    NEW i \in RunsOf("ads.variant.plan"), done[i].in.mode = "generate", done[i].in.plan # Missing,
                    NEW plan, plan = done[i].in.plan, NEW variants, variants = Each(done[i].out.variants, LAMBDA v : v.axisValues),
                    ValidateVariantPlan(plan).valid, variants # <<>>
             PROVE  /\ (/\ plan.strategy = "balanced" /\ plan.constraints = <<>>
                        /\ \A a \in DOMAIN plan.axes : Len(plan.axes[a].values) <= plan.maxVariantsTotal) =>
                          \A a \in DOMAIN plan.axes : \A j \in DOMAIN plan.axes[a].values :
                            \E v \in DOMAIN variants : variants[v][plan.axes[a].dimension] = plan.axes[a].values[j]
                    /\ plan.strategy = "focused" =>
                         LET control == ControlValues(plan.axes)
                             possible == Possible(plan)
                         IN \/ \A v \in DOMAIN variants : FocusOnlyVariation(variants[v], plan.focusAxis, control)
                            \/ \A c \in DOMAIN possible : FocusOnlyVariation(possible[c], plan.focusAxis, control)
                                                            => Contains(variants, possible[c])
  BY DEF PlanIsSpread, ExpandedPlans, Possible
<1> DEFINE kept == KeptOf(plan)
           matrix == GenerateVariantMatrix(plan)
<1>1. IsPlan(plan) /\ done[i].out.variants = matrix
  BY ExpandedPlan
<1>2. plan.axes # <<>>
  BY <1>1, ValidPlan
<1>3. DOMAIN matrix = DOMAIN kept /\ \A v \in DOMAIN kept : matrix[v].axisValues = kept[v]
  <2> HIDE DEF kept, matrix
  <2> QED BY <1>2, MatrixIs DEF kept, matrix
<1>4. kept \in Seq(AllSelections(plan))
  BY <1>1, KeptFacts DEF ComesFrom
<1>5. variants = kept
  <2>1. variants = [v \in DOMAIN matrix |-> matrix[v].axisValues]
    BY <1>1 DEF Each
  <2> HIDE DEF kept, matrix
  <2>2. variants = [v \in DOMAIN kept |-> kept[v]]
    BY <1>3, <2>1
  <2> QED BY <1>4, <2>2
<1> HIDE DEF kept, matrix
<1>6. variants = KeptOf(plan)
  BY <1>5 DEF kept
<1>7. ASSUME plan.strategy = "balanced", plan.constraints = <<>>,
             NEW a \in DOMAIN plan.axes, Len(plan.axes[a].values) <= plan.maxVariantsTotal,
             NEW j \in DOMAIN plan.axes[a].values
      PROVE  HasValue(variants, plan.axes[a].dimension, plan.axes[a].values[j])
  BY <1>1, <1>6, <1>7, BalancedKeepsAll
<1>8. ASSUME plan.strategy = "focused", NEW control, control = ControlValues(plan.axes), NEW possible, possible = Possible(plan)
      PROVE  \/ \A v \in DOMAIN variants : FocusOnlyVariation(variants[v], plan.focusAxis, control)
             \/ \A c \in DOMAIN possible : FocusOnlyVariation(possible[c], plan.focusAxis, control)
                                             => Contains(variants, possible[c])
  BY <1>1, <1>6, <1>8, FocusedKeepsFirst
<1> QED BY <1>7, <1>8 DEF HasValue

\* A plan that has to leave variants out always keeps what its strategy is for.
THEOREM PlanIsSpreadAlways == Spec => []PlanIsSpread
BY PlanningInvariantHolds, PlansAreSpread, PTL

-----------------------------------------------------------------------------
(* Plans keep their word.                                                     *)

\* What validation estimates is what is expanded, or more where a constraint is in the way or an axis has no value.
LEMMA EstimateHolds ==
  ASSUME NEW plan, IsPlan(plan), ValidateVariantPlan(plan).valid
  PROVE  /\ Len(KeptOf(plan)) <= ValidateVariantPlan(plan).estimatedVariantCount
         /\ plan.constraints = <<>> /\ (\A a \in DOMAIN plan.axes : plan.axes[a].values # <<>>)
              => Len(KeptOf(plan)) = ValidateVariantPlan(plan).estimatedVariantCount
<1> DEFINE axes == plan.axes
           max == plan.maxVariantsTotal
           count == CountCombinations(axes)
           product == CartesianProduct(axes)
           k == Len(Possible(plan))
           m == Len(product)
           estimated == ValidateVariantPlan(plan).estimatedVariantCount
           Whole == \A a \in DOMAIN axes : axes[a].values # <<>>
<1>1. IsAxes(axes) /\ DimensionsDiffer(axes) /\ axes # <<>> /\ max \in Nat
  BY ValidPlan DEF IsPlan
<1>2. HasSelections(axes, Len(axes), product) /\ count \in Nat /\ m <= count /\ (Whole => m = count)
  <2> HIDE DEF axes
  <2> QED BY <1>1, ProductOfAxes
<1>3. estimated = IF count < max THEN count ELSE max
  BY DEF ValidateVariantPlan
<1>4. /\ k \in Nat /\ k <= m /\ (plan.constraints = <<>> => k = m)
      /\ Len(KeptOf(plan)) = IF k <= max THEN k ELSE max
  BY KeptFacts
<1>5. m \in Nat
  BY <1>2 DEF HasSelections
<1> HIDE DEF k, m, estimated, count, max, product, axes
<1>6. Len(KeptOf(plan)) <= estimated
  BY <1>1, <1>2, <1>3, <1>4, <1>5
<1>7. ASSUME plan.constraints = <<>>, Whole PROVE Len(KeptOf(plan)) = estimated
  BY <1>1, <1>2, <1>3, <1>4, <1>5, <1>7
<1> QED BY <1>6, <1>7 DEF estimated, axes

\* The parts of what a plan promises of its variants.
AsEstimated(variants, plan) ==
  /\ Len(variants) <= ValidateVariantPlan(plan).estimatedVariantCount
  /\ plan.constraints = <<>> /\ (\A a \in DOMAIN plan.axes : plan.axes[a].values # <<>>)
       => Len(variants) = ValidateVariantPlan(plan).estimatedVariantCount
NoneForbidden(variants, plan) == \A v \in DOMAIN variants : ~Forbidden(variants[v].axisValues, plan)
Combinable(axes) == [{axes[a].dimension : a \in DOMAIN axes} -> UNION {Range(axes[a].values) : a \in DOMAIN axes}]
IsChoice(combo, plan) ==
  (\A a \in DOMAIN plan.axes : combo[plan.axes[a].dimension] \in Range(plan.axes[a].values)) /\ ~Forbidden(combo, plan)
IsVariant(combo, variants) == \E v \in DOMAIN variants : variants[v].axisValues = combo
EveryChoice(variants, plan) ==
  Len(variants) < plan.maxVariantsTotal =>
    \A combo \in Combinable(plan.axes) : IsChoice(combo, plan) => IsVariant(combo, variants)

\* A combination is allowed when it breaks no constraint.
LEMMA AllowedBreaksNone ==
  ASSUME NEW combo, NEW plan
  PROVE  Allows(combo, plan.constraints) <=> ~Forbidden(combo, plan)
<1>1. ASSUME NEW c \in DOMAIN plan.constraints
      PROVE  Breaks(combo, plan.constraints[c]) <=>
               Incompatible(plan.constraints[c], combo) \/ RequiredIsMissing(plan.constraints[c], combo)
  BY DEF Breaks, Incompatible, RequiredIsMissing, Given
<1> QED BY <1>1 DEF Allows, Forbidden

\* The choices of one value for each axis are the selections.
LEMMA ChoicesAre ==
  ASSUME NEW plan, IsPlan(plan), NEW combo \in Combinable(plan.axes), IsChoice(combo, plan)
  PROVE  combo \in AllSelections(plan)
<1> DEFINE N == Len(plan.axes)
<1>1. plan.axes \in Seq(Range(plan.axes))
  BY DEF IsPlan, IsAxes
<1>2. N \in Nat /\ DOMAIN plan.axes = 1..N
  BY <1>1
<1>3. N - N + 1 = 1
  BY <1>2
<1>4. LastDimensions(plan.axes, N) = {plan.axes[a].dimension : a \in DOMAIN plan.axes}
  BY <1>2, <1>3 DEF LastDimensions
<1>5. \A i \in (N - N + 1)..N : combo[plan.axes[i].dimension] \in Range(plan.axes[i].values)
  BY <1>2, <1>3 DEF IsChoice
<1> HIDE DEF N
<1>6. combo \in Selections(plan.axes, N)
  BY <1>4, <1>5 DEF Selections, Combinable, AllValues, N
<1> QED BY <1>6 DEF AllSelections, N

\* A valid plan keeps what it promises.
LEMMA ValidPlanKeepsItsWord ==
  ASSUME NEW plan, IsPlan(plan), ValidateVariantPlan(plan).valid, NEW variants, variants = GenerateVariantMatrix(plan)
  PROVE  AsEstimated(variants, plan) /\ NoneForbidden(variants, plan) /\ EveryChoice(variants, plan)
<1> DEFINE kept == KeptOf(plan)
           dims == DimensionsInOrder(plan.axes)
           T == AllSelections(plan)
<1>1. IsPlan(plan) /\ variants = GenerateVariantMatrix(plan)
  OBVIOUS
<1>2. plan.axes # <<>>
  BY ValidPlan
<1>3. DOMAIN variants = DOMAIN kept /\ \A v \in DOMAIN kept : variants[v].axisValues = kept[v]
  <2> HIDE DEF kept
  <2> QED BY <1>1, <1>2, MatrixIs DEF kept
<1>4. kept \in Seq(T) /\ \A c \in Range(kept) : Allows(c, plan.constraints)
  BY <1>1, KeptFacts DEF ComesFrom
<1>5. Len(variants) = Len(kept)
  <2>1. variants = [v \in DOMAIN kept |-> [axisValues |-> kept[v], slug |-> Slug(kept[v], dims, plan.naming)]]
    BY <1>1, <1>2 DEF GenerateVariantMatrix, KeptOf, Ordered, Possible, Each
  <2> HIDE DEF kept, T, dims
  <2>2. DOMAIN kept = 1..Len(kept) /\ Len(kept) \in Nat
    BY <1>4
  <2> QED BY <2>1, <2>2
<1>6. AsEstimated(variants, plan)
  BY <1>5, EstimateHolds DEF AsEstimated
<1>7. NoneForbidden(variants, plan)
  <2>1. ASSUME NEW v \in DOMAIN variants PROVE ~Forbidden(variants[v].axisValues, plan)
    <3>1. variants[v].axisValues = kept[v] /\ v \in DOMAIN kept
      BY <1>3
    <3> HIDE DEF kept
    <3>2. Allows(kept[v], plan.constraints)
      BY <1>4, <3>1 DEF Range
    <3> QED BY <3>1, <3>2, AllowedBreaksNone
  <2> QED BY <2>1 DEF NoneForbidden
<1>8. ASSUME Len(variants) < plan.maxVariantsTotal, NEW combo \in Combinable(plan.axes), IsChoice(combo, plan)
      PROVE  IsVariant(combo, variants)
  <2>1. combo \in AllSelections(plan) /\ Allows(combo, plan.constraints)
    BY <1>8, ChoicesAre, AllowedBreaksNone DEF IsChoice
  <2>2. combo \in Range(KeptOf(plan))
    BY <1>5, <1>8, <2>1, AllKept
  <2> HIDE DEF kept
  <2>3. PICK v \in DOMAIN kept : kept[v] = combo
    BY <2>2 DEF Range, kept
  <2> QED BY <1>3, <2>3 DEF IsVariant
<1>9. EveryChoice(variants, plan)
  BY <1>8 DEF EveryChoice
<1> QED BY <1>6, <1>7, <1>9

\* Whatever runs, a plan keeps its word.
LEMMA PlansKeepTheirWord == PlanningInvariant => PlanKeepsItsWord
<1>1. ASSUME PlanningInvariant, NEW i \in ExpandedPlans,
             NEW plan, plan = done[i].in.plan, NEW variants, variants = done[i].out.variants,
             ValidateVariantPlan(plan).valid
      PROVE  AsEstimated(variants, plan) /\ NoneForbidden(variants, plan) /\ EveryChoice(variants, plan)
  <2>1. IsPlan(plan) /\ variants = GenerateVariantMatrix(plan)
    BY <1>1, ExpandedPlan DEF ExpandedPlans
  <2> QED BY <1>1, <2>1, ValidPlanKeepsItsWord
<1>2. PlanKeepsItsWord =
        \A i \in ExpandedPlans :
          ValidateVariantPlan(done[i].in.plan).valid =>
            /\ AsEstimated(done[i].out.variants, done[i].in.plan)
            /\ NoneForbidden(done[i].out.variants, done[i].in.plan)
            /\ EveryChoice(done[i].out.variants, done[i].in.plan)
  BY DEF PlanKeepsItsWord, AsEstimated, NoneForbidden, EveryChoice, Combinable, IsChoice, IsVariant
<1> QED BY <1>1, <1>2

\* A valid plan is always expanded as it estimates, into every allowed choice while there is room and into none forbidden.
THEOREM PlanKeepsItsWordAlways == Spec => []PlanKeepsItsWord
BY PlanningInvariantHolds, PlansKeepTheirWord, PTL
=============================================================================
