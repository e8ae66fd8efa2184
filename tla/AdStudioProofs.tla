---------------------------- MODULE AdStudioProofs ----------------------------
(***************************************************************************)
(* Theorems about a campaign in the ads nodes, for every campaign and      *)
(* every answer of the generators.                                         *)
(*                                                                         *)
(* The specifications come first: every one of the registry is acceptable, *)
(* its limits have a positive maximum and a minimum of one or none, and no *)
(* two are of one placement.  Then the operators: cutting a text fits it   *)
(* to its limit, and what each gate reports is, as a set, the rules the    *)
(* copy hits, the checks of the assets and the checks of the lengths.  The *)
(* invariant IInv says that a report is what the gates say of an           *)
(* adaptation that fits its placement; the properties of the reports       *)
(* follow from it.  PackInv says the same of the export.                   *)
(***************************************************************************)
EXTENDS AdStudio, ListsProofs

-----------------------------------------------------------------------------
(* The registry of specifications. *)

\* A limit, an image and a video specification that a text, an image or a video can meet.
GoodLimit(x) == x.max \in Nat \ {0} /\ x.min \in {None, 1}
GoodLimits(l) == \A f \in DOMAIN l : GoodLimit(l[f])
GoodImage(m) ==
  m # None => /\ m.minWidth \in Nat /\ m.minHeight \in Nat
              /\ m.recommendedWidth \in Nat /\ m.recommendedHeight \in Nat
              /\ m.minWidth <= m.recommendedWidth /\ m.minHeight <= m.recommendedHeight
GoodVideo(v) ==
  v # None => /\ v.recommendedDuration \in Nat /\ v.minDuration \in Nat /\ v.maxDuration \in Nat
              /\ v.minDuration <= v.recommendedDuration /\ v.recommendedDuration <= v.maxDuration
GoodSpec(s) == GoodLimits(s.textLimits) /\ GoodImage(s.imageSpec) /\ GoodVideo(s.videoSpec)

\* What an image specification is built from makes it acceptable.
LEMMA ImageGood ==
  ASSUME NEW a \in Nat, NEW b \in Nat, NEW c \in Nat, NEW d \in Nat, NEW e, a <= c, b <= d
  PROVE  GoodImage(Image(a, b, c, d, e))
BY DEF GoodImage, Image

\* What a video specification is built from makes it acceptable.
LEMMA VideoGood ==
  ASSUME NEW a \in Nat, NEW b \in Nat, NEW c \in Nat, NEW d, NEW e, NEW f, NEW g, NEW h, a <= c, c <= b
  PROVE  GoodVideo(Video(a, b, c, d, e, f, g, h))
BY DEF GoodVideo, Video, Image

\* Nothing is asked of a specification that is missing.
LEMMA NoneGood == GoodImage(None) /\ GoodVideo(None)
BY DEF GoodImage, GoodVideo

\* A placement is acceptable when its three parts are.
LEMMA SpecGood ==
  ASSUME NEW p, NEW q, NEW t, NEW z, NEW l, NEW m, NEW v, GoodLimits(l), GoodImage(m), GoodVideo(v)
  PROVE  GoodSpec(CreativeSpec(p, q, t, z, l, m, v))
BY DEF GoodSpec, CreativeSpec

\* A limit with a positive maximum and a minimum of one or none is acceptable.
LEMMA LimitGood ==
  ASSUME NEW min \in {None, 1}, NEW max \in Nat \ {0}, NEW rec
  PROVE  GoodLimit(Limit(min, max, rec))
BY DEF GoodLimit, Limit

\* So are limits of the combinations of fields the registry uses.
LEMMA LimitsGood ==
  ASSUME NEW h, NEW d, NEW b, NEW c, NEW u
  PROVE  /\ GoodLimit(h) => GoodLimits([headline |-> h])
         /\ GoodLimit(h) /\ GoodLimit(d) => GoodLimits([headline |-> h, description |-> d])
         /\ GoodLimit(h) /\ GoodLimit(b) => GoodLimits([headline |-> h, bodyText |-> b])
         /\ GoodLimit(h) /\ GoodLimit(d) /\ GoodLimit(u) => GoodLimits([headline |-> h, description |-> d, displayUrl |-> u])
         /\ GoodLimit(h) /\ GoodLimit(d) /\ GoodLimit(b) => GoodLimits([headline |-> h, description |-> d, bodyText |-> b])
         /\ GoodLimit(h) /\ GoodLimit(d) /\ GoodLimit(c) => GoodLimits([headline |-> h, description |-> d, ctaText |-> c])
         /\ GoodLimit(h) /\ GoodLimit(b) /\ GoodLimit(c) => GoodLimits([headline |-> h, bodyText |-> b, ctaText |-> c])
         /\ GoodLimit(h) /\ GoodLimit(b) /\ GoodLimit(u) => GoodLimits([headline |-> h, bodyText |-> b, displayUrl |-> u])
BY DEF GoodLimits

\* The specifications of Amazon are acceptable, in the order of its placements.
LEMMA AmazonFit ==
  \A i \in DOMAIN AmazonSpecs : GoodSpec(AmazonSpecs[i]) /\ AmazonSpecs[i].placement = <<"amazon", AmazonInfo[i]>>
<1>1. GoodSpec(AmazonSpecs[1])
  BY DEF AmazonSpecs, MB, GoodSpec, CreativeSpec, GoodLimits, GoodLimit, GoodImage, GoodVideo, Limit, Video, Image
<1>2. GoodSpec(AmazonSpecs[2])
  BY DEF AmazonSpecs, MB, GoodSpec, CreativeSpec, GoodLimits, GoodLimit, GoodImage, GoodVideo, Limit, Video, Image
<1>3. GoodSpec(AmazonSpecs[3])
  BY DEF AmazonSpecs, MB, GoodSpec, CreativeSpec, GoodLimits, GoodLimit, GoodImage, GoodVideo, Limit, Video, Image
<1>4. /\ AmazonSpecs[1].placement = <<"amazon", AmazonInfo[1]>>
      /\ AmazonSpecs[2].placement = <<"amazon", AmazonInfo[2]>>
      /\ AmazonSpecs[3].placement = <<"amazon", AmazonInfo[3]>>
  BY DEF AmazonSpecs, AmazonInfo, CreativeSpec
<1>5. DOMAIN AmazonSpecs = {1, 2, 3}
  BY DEF AmazonSpecs
<1> QED BY <1>1, <1>2, <1>3, <1>4, <1>5

\* Those of Google but YouTube's.
LEMMA GoogleFit ==
  \A i \in DOMAIN GoogleSpecs : GoodSpec(GoogleSpecs[i]) /\ GoogleSpecs[i].placement = <<"google", GoogleInfo[i]>>
<1>1. GoodSpec(GoogleSpecs[1])
  BY DEF GoogleSpecs, MB, GoodSpec, CreativeSpec, GoodLimits, GoodLimit, GoodImage, GoodVideo, Limit, Video, Image
<1>2. GoodSpec(GoogleSpecs[2])
  BY DEF GoogleSpecs, MB, GoodSpec, CreativeSpec, GoodLimits, GoodLimit, GoodImage, GoodVideo, Limit, Video, Image
<1>3. GoodSpec(GoogleSpecs[3])
  BY DEF GoogleSpecs, MB, GoodSpec, CreativeSpec, GoodLimits, GoodLimit, GoodImage, GoodVideo, Limit, Video, Image
<1>4. GoodSpec(GoogleSpecs[4])
  BY DEF GoogleSpecs, MB, GoodSpec, CreativeSpec, GoodLimits, GoodLimit, GoodImage, GoodVideo, Limit, Video, Image
<1>5. /\ GoogleSpecs[1].placement = <<"google", GoogleInfo[1]>>
      /\ GoogleSpecs[2].placement = <<"google", GoogleInfo[2]>>
      /\ GoogleSpecs[3].placement = <<"google", GoogleInfo[3]>>
      /\ GoogleSpecs[4].placement = <<"google", GoogleInfo[4]>>
  BY DEF GoogleSpecs, GoogleInfo, CreativeSpec
<1>6. DOMAIN GoogleSpecs = {1, 2, 3, 4}
  BY DEF GoogleSpecs
<1> QED BY <1>1, <1>2, <1>3, <1>4, <1>5, <1>6

\* Those of YouTube, which follow Google's.
LEMMA YouTubeFit ==
  \A i \in DOMAIN YouTubeSpecs : GoodSpec(YouTubeSpecs[i]) /\ YouTubeSpecs[i].placement = <<"google", GoogleInfo[i + 4]>>
<1>1. GoodSpec(YouTubeSpecs[1])
  BY DEF YouTubeSpecs, MB, GoodSpec, CreativeSpec, GoodLimits, GoodLimit, GoodImage, GoodVideo, Limit, Video, Image
<1>2. GoodSpec(YouTubeSpecs[2])
  BY DEF YouTubeSpecs, MB, GoodSpec, CreativeSpec, GoodLimits, GoodLimit, GoodImage, GoodVideo, Limit, Video, Image
<1>3. GoodSpec(YouTubeSpecs[3])
  BY DEF YouTubeSpecs, MB, GoodSpec, CreativeSpec, GoodLimits, GoodLimit, GoodImage, GoodVideo, Limit, Video, Image
<1>4. GoodSpec(YouTubeSpecs[4])
  BY DEF YouTubeSpecs, MB, GoodSpec, CreativeSpec, GoodLimits, GoodLimit, GoodImage, GoodVideo, Limit, Video, Image
<1>5. /\ YouTubeSpecs[1].placement = <<"google", GoogleInfo[5]>>
      /\ YouTubeSpecs[2].placement = <<"google", GoogleInfo[6]>>
      /\ YouTubeSpecs[3].placement = <<"google", GoogleInfo[7]>>
      /\ YouTubeSpecs[4].placement = <<"google", GoogleInfo[8]>>
  BY DEF YouTubeSpecs, GoogleInfo, CreativeSpec
<1>6. DOMAIN YouTubeSpecs = {1, 2, 3, 4}
  BY DEF YouTubeSpecs
<1> QED BY <1>1, <1>2, <1>3, <1>4, <1>5, <1>6

\* Those of LinkedIn.
LEMMA LinkedinFit ==
  \A i \in DOMAIN LinkedinSpecs : GoodSpec(LinkedinSpecs[i]) /\ LinkedinSpecs[i].placement = <<"linkedin", LinkedinInfo[i]>>
<1>1. GoodSpec(LinkedinSpecs[1])
  BY DEF LinkedinSpecs, MB, GoodSpec, CreativeSpec, GoodLimits, GoodLimit, GoodImage, GoodVideo, Limit, Video, Image
<1>2. GoodSpec(LinkedinSpecs[2])
  BY DEF LinkedinSpecs, MB, GoodSpec, CreativeSpec, GoodLimits, GoodLimit, GoodImage, GoodVideo, Limit, Video, Image
<1>3. GoodSpec(LinkedinSpecs[3])
  BY DEF LinkedinSpecs, MB, GoodSpec, CreativeSpec, GoodLimits, GoodLimit, GoodImage, GoodVideo, Limit, Video, Image
<1>4. /\ LinkedinSpecs[1].placement = <<"linkedin", LinkedinInfo[1]>>
      /\ LinkedinSpecs[2].placement = <<"linkedin", LinkedinInfo[2]>>
      /\ LinkedinSpecs[3].placement = <<"linkedin", LinkedinInfo[3]>>
  BY DEF LinkedinSpecs, LinkedinInfo, CreativeSpec
<1>5. DOMAIN LinkedinSpecs = {1, 2, 3}
  BY DEF LinkedinSpecs
<1> QED BY <1>1, <1>2, <1>3, <1>4, <1>5

\* The first of Meta.
LEMMA MetaFeedFit ==
  \A i \in DOMAIN MetaFeedSpecs : GoodSpec(MetaFeedSpecs[i]) /\ MetaFeedSpecs[i].placement = <<"meta", MetaInfo[i]>>
<1>1. GoodSpec(MetaFeedSpecs[1])
  BY DEF MetaFeedSpecs, MB, GoodSpec, CreativeSpec, GoodLimits, GoodLimit, GoodImage, GoodVideo, Limit, Video, Image
<1>2. GoodSpec(MetaFeedSpecs[2])
  BY DEF MetaFeedSpecs, MB, GoodSpec, CreativeSpec, GoodLimits, GoodLimit, GoodImage, GoodVideo, Limit, Video, Image
<1>3. /\ MetaFeedSpecs[1].placement = <<"meta", MetaInfo[1]>>
      /\ MetaFeedSpecs[2].placement = <<"meta", MetaInfo[2]>>
  BY DEF MetaFeedSpecs, MetaInfo, CreativeSpec
<1>4. DOMAIN MetaFeedSpecs = {1, 2}
  BY DEF MetaFeedSpecs
<1> QED BY <1>1, <1>2, <1>3, <1>4

\* The others of Meta.
LEMMA MetaOtherFit ==
  \A i \in DOMAIN MetaOtherSpecs : GoodSpec(MetaOtherSpecs[i]) /\ MetaOtherSpecs[i].placement = <<"meta", MetaInfo[i + 2]>>
<1>1. GoodSpec(MetaOtherSpecs[1])
  BY DEF MetaOtherSpecs, MB, GoodSpec, CreativeSpec, GoodLimits, GoodLimit, GoodImage, GoodVideo, Limit, Video, Image
<1>2. GoodSpec(MetaOtherSpecs[2])
  BY DEF MetaOtherSpecs, MB, GoodSpec, CreativeSpec, GoodLimits, GoodLimit, GoodImage, GoodVideo, Limit, Video, Image
<1>3. GoodSpec(MetaOtherSpecs[3])
  BY DEF MetaOtherSpecs, MB, GoodSpec, CreativeSpec, GoodLimits, GoodLimit, GoodImage, GoodVideo, Limit, Video, Image
<1>4. GoodSpec(MetaOtherSpecs[4])
  BY DEF MetaOtherSpecs, MB, GoodSpec, CreativeSpec, GoodLimits, GoodLimit, GoodImage, GoodVideo, Limit, Video, Image
<1>5. /\ MetaOtherSpecs[1].placement = <<"meta", MetaInfo[3]>>
      /\ MetaOtherSpecs[2].placement = <<"meta", MetaInfo[4]>>
      /\ MetaOtherSpecs[3].placement = <<"meta", MetaInfo[5]>>
      /\ MetaOtherSpecs[4].placement = <<"meta", MetaInfo[6]>>
  BY DEF MetaOtherSpecs, MetaInfo, CreativeSpec
<1>6. DOMAIN MetaOtherSpecs = {1, 2, 3, 4}
  BY DEF MetaOtherSpecs
<1> QED BY <1>1, <1>2, <1>3, <1>4, <1>5, <1>6

\* Those of Pinterest.
LEMMA PinterestFit ==
  \A i \in DOMAIN PinterestSpecs : GoodSpec(PinterestSpecs[i]) /\ PinterestSpecs[i].placement = <<"pinterest", PinterestInfo[i]>>
<1>1. GoodSpec(PinterestSpecs[1])
  BY DEF PinterestSpecs, MB, GoodSpec, CreativeSpec, GoodLimits, GoodLimit, GoodImage, GoodVideo, Limit, Video, Image
<1>2. GoodSpec(PinterestSpecs[2])
  BY DEF PinterestSpecs, MB, GoodSpec, CreativeSpec, GoodLimits, GoodLimit, GoodImage, GoodVideo, Limit, Video, Image
<1>3. GoodSpec(PinterestSpecs[3])
  BY DEF PinterestSpecs, MB, GoodSpec, CreativeSpec, GoodLimits, GoodLimit, GoodImage, GoodVideo, Limit, Video, Image
<1>4. GoodSpec(PinterestSpecs[4])
  BY DEF PinterestSpecs, MB, GoodSpec, CreativeSpec, GoodLimits, GoodLimit, GoodImage, GoodVideo, Limit, Video, Image
<1>5. /\ PinterestSpecs[1].placement = <<"pinterest", PinterestInfo[1]>>
      /\ PinterestSpecs[2].placement = <<"pinterest", PinterestInfo[2]>>
      /\ PinterestSpecs[3].placement = <<"pinterest", PinterestInfo[3]>>
      /\ PinterestSpecs[4].placement = <<"pinterest", PinterestInfo[4]>>
  BY DEF PinterestSpecs, PinterestInfo, CreativeSpec
<1>6. DOMAIN PinterestSpecs = {1, 2, 3, 4}
  BY DEF PinterestSpecs
<1> QED BY <1>1, <1>2, <1>3, <1>4, <1>5, <1>6

\* Those of Reddit.
LEMMA RedditFit ==
  \A i \in DOMAIN RedditSpecs : GoodSpec(RedditSpecs[i]) /\ RedditSpecs[i].placement = <<"reddit", RedditInfo[i]>>
<1>1. GoodSpec(RedditSpecs[1])
  BY DEF RedditSpecs, MB, GoodSpec, CreativeSpec, GoodLimits, GoodLimit, GoodImage, GoodVideo, Limit, Video, Image
<1>2. GoodSpec(RedditSpecs[2])
  BY DEF RedditSpecs, MB, GoodSpec, CreativeSpec, GoodLimits, GoodLimit, GoodImage, GoodVideo, Limit, Video, Image
<1>3. GoodSpec(RedditSpecs[3])
  BY DEF RedditSpecs, MB, GoodSpec, CreativeSpec, GoodLimits, GoodLimit, GoodImage, GoodVideo, Limit, Video, Image
<1>4. /\ RedditSpecs[1].placement = <<"reddit", RedditInfo[1]>>
      /\ RedditSpecs[2].placement = <<"reddit", RedditInfo[2]>>
      /\ RedditSpecs[3].placement = <<"reddit", RedditInfo[3]>>
  BY DEF RedditSpecs, RedditInfo, CreativeSpec
<1>5. DOMAIN RedditSpecs = {1, 2, 3}
  BY DEF RedditSpecs
<1> QED BY <1>1, <1>2, <1>3, <1>4, <1>5

\* The first of Snapchat.
LEMMA SnapchatFit ==
  \A i \in DOMAIN SnapchatSpecs : GoodSpec(SnapchatSpecs[i]) /\ SnapchatSpecs[i].placement = <<"snapchat", SnapchatInfo[i]>>
<1>1. GoodSpec(SnapchatSpecs[1])
  BY DEF SnapchatSpecs, MB, GoodSpec, CreativeSpec, GoodLimits, GoodLimit, GoodImage, GoodVideo, Limit, Video, Image
<1>2. GoodSpec(SnapchatSpecs[2])
  BY DEF SnapchatSpecs, MB, GoodSpec, CreativeSpec, GoodLimits, GoodLimit, GoodImage, GoodVideo, Limit, Video, Image
<1>3. GoodSpec(SnapchatSpecs[3])
  BY DEF SnapchatSpecs, MB, GoodSpec, CreativeSpec, GoodLimits, GoodLimit, GoodImage, GoodVideo, Limit, Video, Image
<1>4. /\ SnapchatSpecs[1].placement = <<"snapchat", SnapchatInfo[1]>>
      /\ SnapchatSpecs[2].placement = <<"snapchat", SnapchatInfo[2]>>
      /\ SnapchatSpecs[3].placement = <<"snapchat", SnapchatInfo[3]>>
  BY DEF SnapchatSpecs, SnapchatInfo, CreativeSpec
<1>5. DOMAIN SnapchatSpecs = {1, 2, 3}
  BY DEF SnapchatSpecs
<1> QED BY <1>1, <1>2, <1>3, <1>4, <1>5

\* The others of Snapchat.
LEMMA SnapchatOtherFit ==
  \A i \in DOMAIN SnapchatOtherSpecs : GoodSpec(SnapchatOtherSpecs[i]) /\ SnapchatOtherSpecs[i].placement = <<"snapchat", SnapchatInfo[i + 3]>>
<1>1. GoodSpec(SnapchatOtherSpecs[1])
  BY DEF SnapchatOtherSpecs, MB, GoodSpec, CreativeSpec, GoodLimits, GoodLimit, GoodImage, GoodVideo, Limit, Video, Image
<1>2. GoodSpec(SnapchatOtherSpecs[2])
  BY DEF SnapchatOtherSpecs, MB, GoodSpec, CreativeSpec, GoodLimits, GoodLimit, GoodImage, GoodVideo, Limit, Video, Image
<1>3. /\ SnapchatOtherSpecs[1].placement = <<"snapchat", SnapchatInfo[4]>>
      /\ SnapchatOtherSpecs[2].placement = <<"snapchat", SnapchatInfo[5]>>
  BY DEF SnapchatOtherSpecs, SnapchatInfo, CreativeSpec
<1>4. DOMAIN SnapchatOtherSpecs = {1, 2}
  BY DEF SnapchatOtherSpecs
<1> QED BY <1>1, <1>2, <1>3, <1>4

\* Those of TikTok.
LEMMA TiktokFit ==
  \A i \in DOMAIN TiktokSpecs : GoodSpec(TiktokSpecs[i]) /\ TiktokSpecs[i].placement = <<"tiktok", TiktokInfo[i]>>
<1>1. GoodSpec(TiktokSpecs[1])
  BY DEF TiktokSpecs, MB, GoodSpec, CreativeSpec, GoodLimits, GoodLimit, GoodImage, GoodVideo, Limit, Video, Image
<1>2. GoodSpec(TiktokSpecs[2])
  BY DEF TiktokSpecs, MB, GoodSpec, CreativeSpec, GoodLimits, GoodLimit, GoodImage, GoodVideo, Limit, Video, Image
<1>3. /\ TiktokSpecs[1].placement = <<"tiktok", TiktokInfo[1]>>
      /\ TiktokSpecs[2].placement = <<"tiktok", TiktokInfo[2]>>
  BY DEF TiktokSpecs, TiktokInfo, CreativeSpec
<1>4. DOMAIN TiktokSpecs = {1, 2}
  BY DEF TiktokSpecs
<1> QED BY <1>1, <1>2, <1>3, <1>4

\* Those of X.
LEMMA XFit ==
  \A i \in DOMAIN XSpecs : GoodSpec(XSpecs[i]) /\ XSpecs[i].placement = <<"x", XInfo[i]>>
<1>1. GoodSpec(XSpecs[1])
  BY DEF XSpecs, MB, GoodSpec, CreativeSpec, GoodLimits, GoodLimit, GoodImage, GoodVideo, Limit, Video, Image
<1>2. GoodSpec(XSpecs[2])
  BY DEF XSpecs, MB, GoodSpec, CreativeSpec, GoodLimits, GoodLimit, GoodImage, GoodVideo, Limit, Video, Image
<1>3. /\ XSpecs[1].placement = <<"x", XInfo[1]>>
      /\ XSpecs[2].placement = <<"x", XInfo[2]>>
  BY DEF XSpecs, XInfo, CreativeSpec
<1>4. DOMAIN XSpecs = {1, 2}
  BY DEF XSpecs
<1> QED BY <1>1, <1>2, <1>3, <1>4

\* The elements of two sequences in a row.
LEMMA ConcatRange ==
  ASSUME NEW s, NEW t, s \in Seq(Range(s)), t \in Seq(Range(t))
  PROVE  s \o t \in Seq(Range(s \o t)) /\ Range(s \o t) = Range(s) \cup Range(t)
<1> DEFINE S == Range(s) \cup Range(t)
<1>1. s \in Seq(S) /\ t \in Seq(S)
  BY SeqMonotonic
<1> HIDE DEF S
<1>2. s \o t \in Seq(S) /\ Range(s \o t) = Range(s) \cup Range(t)
  BY <1>1, RangeConcatenation, ConcatProperties
<1> QED BY <1>2 DEF S

\* The specifications of a set are of one platform, no two of the same placement.
PlatformSet(S, platform) ==
  /\ \A s \in S : GoodSpec(s) /\ s.placement[1] = platform
  /\ \A s \in S, t \in S : s.placement = t.placement => s = t

\* The specifications of Amazon are a set of its platform.
LEMMA AmazonPlaced == PlatformSet(Range(AmazonSpecs), "amazon")
<1>1. \A i, j \in DOMAIN AmazonInfo : AmazonInfo[i] = AmazonInfo[j] => i = j
  BY DEF AmazonInfo
<1>2. DOMAIN AmazonSpecs = DOMAIN AmazonInfo
  BY DEF AmazonSpecs, AmazonInfo
<1> QED BY <1>1, <1>2, AmazonFit DEF PlatformSet, Range

\* Those of Google.
LEMMA GooglePlaced == PlatformSet(Range(GoogleSpecs) \cup Range(YouTubeSpecs), "google")
<1>1. \A i, j \in DOMAIN GoogleInfo : GoogleInfo[i] = GoogleInfo[j] => i = j
  BY DEF GoogleInfo
<1>2. /\ \A i \in DOMAIN GoogleSpecs : i \in DOMAIN GoogleInfo
      /\ \A j \in DOMAIN YouTubeSpecs : j + 4 \in DOMAIN GoogleInfo
      /\ \A i \in DOMAIN GoogleSpecs, j \in DOMAIN YouTubeSpecs : i # j + 4
      /\ \A i, j \in DOMAIN YouTubeSpecs : i + 4 = j + 4 => i = j
  BY DEF GoogleSpecs, YouTubeSpecs, GoogleInfo
<1> QED BY <1>1, <1>2, GoogleFit, YouTubeFit DEF PlatformSet, Range

\* Those of LinkedIn.
LEMMA LinkedinPlaced == PlatformSet(Range(LinkedinSpecs), "linkedin")
<1>1. \A i, j \in DOMAIN LinkedinInfo : LinkedinInfo[i] = LinkedinInfo[j] => i = j
  BY DEF LinkedinInfo
<1>2. DOMAIN LinkedinSpecs = DOMAIN LinkedinInfo
  BY DEF LinkedinSpecs, LinkedinInfo
<1> QED BY <1>1, <1>2, LinkedinFit DEF PlatformSet, Range

\* Those of Meta.
LEMMA MetaPlaced == PlatformSet(Range(MetaFeedSpecs) \cup Range(MetaOtherSpecs), "meta")
<1>1. \A i, j \in DOMAIN MetaInfo : MetaInfo[i] = MetaInfo[j] => i = j
  BY DEF MetaInfo
<1>2. /\ \A i \in DOMAIN MetaFeedSpecs : i \in DOMAIN MetaInfo
      /\ \A j \in DOMAIN MetaOtherSpecs : j + 2 \in DOMAIN MetaInfo
      /\ \A i \in DOMAIN MetaFeedSpecs, j \in DOMAIN MetaOtherSpecs : i # j + 2
      /\ \A i, j \in DOMAIN MetaOtherSpecs : i + 2 = j + 2 => i = j
  BY DEF MetaFeedSpecs, MetaOtherSpecs, MetaInfo
<1> QED BY <1>1, <1>2, MetaFeedFit, MetaOtherFit DEF PlatformSet, Range

\* Those of Pinterest.
LEMMA PinterestPlaced == PlatformSet(Range(PinterestSpecs), "pinterest")
<1>1. \A i, j \in DOMAIN PinterestInfo : PinterestInfo[i] = PinterestInfo[j] => i = j
  BY DEF PinterestInfo
<1>2. DOMAIN PinterestSpecs = DOMAIN PinterestInfo
  BY DEF PinterestSpecs, PinterestInfo
<1> QED BY <1>1, <1>2, PinterestFit DEF PlatformSet, Range

\* Those of Reddit.
LEMMA RedditPlaced == PlatformSet(Range(RedditSpecs), "reddit")
<1>1. \A i, j \in DOMAIN RedditInfo : RedditInfo[i] = RedditInfo[j] => i = j
  BY DEF RedditInfo
<1>2. DOMAIN RedditSpecs = DOMAIN RedditInfo
  BY DEF RedditSpecs, RedditInfo
<1> QED BY <1>1, <1>2, RedditFit DEF PlatformSet, Range

\* Those of Snapchat.
LEMMA SnapchatPlaced == PlatformSet(Range(SnapchatSpecs) \cup Range(SnapchatOtherSpecs), "snapchat")
<1>1. \A i, j \in DOMAIN SnapchatInfo : SnapchatInfo[i] = SnapchatInfo[j] => i = j
  BY DEF SnapchatInfo
<1>2. /\ \A i \in DOMAIN SnapchatSpecs : i \in DOMAIN SnapchatInfo
      /\ \A j \in DOMAIN SnapchatOtherSpecs : j + 3 \in DOMAIN SnapchatInfo
      /\ \A i \in DOMAIN SnapchatSpecs, j \in DOMAIN SnapchatOtherSpecs : i # j + 3
      /\ \A i, j \in DOMAIN SnapchatOtherSpecs : i + 3 = j + 3 => i = j
  BY DEF SnapchatSpecs, SnapchatOtherSpecs, SnapchatInfo
<1> QED BY <1>1, <1>2, SnapchatFit, SnapchatOtherFit DEF PlatformSet, Range

\* Those of TikTok.
LEMMA TiktokPlaced == PlatformSet(Range(TiktokSpecs), "tiktok")
<1>1. \A i, j \in DOMAIN TiktokInfo : TiktokInfo[i] = TiktokInfo[j] => i = j
  BY DEF TiktokInfo
<1>2. DOMAIN TiktokSpecs = DOMAIN TiktokInfo
  BY DEF TiktokSpecs, TiktokInfo
<1> QED BY <1>1, <1>2, TiktokFit DEF PlatformSet, Range

\* Those of X.
LEMMA XPlaced == PlatformSet(Range(XSpecs), "x")
<1>1. \A i, j \in DOMAIN XInfo : XInfo[i] = XInfo[j] => i = j
  BY DEF XInfo
<1>2. DOMAIN XSpecs = DOMAIN XInfo
  BY DEF XSpecs, XInfo
<1> QED BY <1>1, <1>2, XFit DEF PlatformSet, Range

\* Every specification of the registry is acceptable and of a platform that has a click
\* parameter, and no two are of one placement.
LEMMA AllSpecsPlaced ==
  /\ AllSpecs \in Seq(Range(AllSpecs))
  /\ \A s \in Range(AllSpecs) : GoodSpec(s)
  /\ \A s \in Range(AllSpecs) :
       s.placement[1] \in {"amazon", "google", "linkedin", "meta", "pinterest", "reddit", "snapchat", "tiktok", "x"}
  /\ \A s, t \in Range(AllSpecs) : s.placement = t.placement => s = t
<1> DEFINE S1 == AmazonSpecs
           S2 == S1 \o GoogleSpecs
           S3 == S2 \o YouTubeSpecs
           S4 == S3 \o LinkedinSpecs
           S5 == S4 \o MetaFeedSpecs
           S6 == S5 \o MetaOtherSpecs
           S7 == S6 \o PinterestSpecs
           S8 == S7 \o RedditSpecs
           S9 == S8 \o SnapchatSpecs
           S10 == S9 \o SnapchatOtherSpecs
           S11 == S10 \o TiktokSpecs
           S12 == S11 \o XSpecs
<1>1. AmazonSpecs \in Seq(Range(AmazonSpecs))
  BY DEF AmazonSpecs, Range
<1>2. GoogleSpecs \in Seq(Range(GoogleSpecs))
  BY DEF GoogleSpecs, Range
<1>3. YouTubeSpecs \in Seq(Range(YouTubeSpecs))
  BY DEF YouTubeSpecs, Range
<1>4. LinkedinSpecs \in Seq(Range(LinkedinSpecs))
  BY DEF LinkedinSpecs, Range
<1>5. MetaFeedSpecs \in Seq(Range(MetaFeedSpecs))
  BY DEF MetaFeedSpecs, Range
<1>6. MetaOtherSpecs \in Seq(Range(MetaOtherSpecs))
  BY DEF MetaOtherSpecs, Range
<1>7. PinterestSpecs \in Seq(Range(PinterestSpecs))
  BY DEF PinterestSpecs, Range
<1>8. RedditSpecs \in Seq(Range(RedditSpecs))
  BY DEF RedditSpecs, Range
<1>9. SnapchatSpecs \in Seq(Range(SnapchatSpecs))
  BY DEF SnapchatSpecs, Range
<1>10. SnapchatOtherSpecs \in Seq(Range(SnapchatOtherSpecs))
  BY DEF SnapchatOtherSpecs, Range
<1>11. TiktokSpecs \in Seq(Range(TiktokSpecs))
  BY DEF TiktokSpecs, Range
<1>12. XSpecs \in Seq(Range(XSpecs))
  BY DEF XSpecs, Range
<1>13. S12 = AllSpecs
  BY DEF AllSpecs
<1> HIDE DEF S1
<1>14. S1 \in Seq(Range(S1)) /\ Range(S1) = Range(AmazonSpecs)
  BY <1>1 DEF S1
<1>15. S2 \in Seq(Range(S2)) /\ Range(S2) = Range(S1) \cup Range(GoogleSpecs)
  <2> HIDE DEF S1
  <2> QED BY <1>14, <1>2, ConcatRange DEF S2
<1> HIDE DEF S2
<1>16. S3 \in Seq(Range(S3)) /\ Range(S3) = Range(S2) \cup Range(YouTubeSpecs)
  <2> HIDE DEF S2
  <2> QED BY <1>15, <1>3, ConcatRange DEF S3
<1> HIDE DEF S3
<1>17. S4 \in Seq(Range(S4)) /\ Range(S4) = Range(S3) \cup Range(LinkedinSpecs)
  <2> HIDE DEF S3
  <2> QED BY <1>16, <1>4, ConcatRange DEF S4
<1> HIDE DEF S4
<1>18. S5 \in Seq(Range(S5)) /\ Range(S5) = Range(S4) \cup Range(MetaFeedSpecs)
  <2> HIDE DEF S4
  <2> QED BY <1>17, <1>5, ConcatRange DEF S5
<1> HIDE DEF S5
<1>19. S6 \in Seq(Range(S6)) /\ Range(S6) = Range(S5) \cup Range(MetaOtherSpecs)
  <2> HIDE DEF S5
  <2> QED BY <1>18, <1>6, ConcatRange DEF S6
<1> HIDE DEF S6
<1>20. S7 \in Seq(Range(S7)) /\ Range(S7) = Range(S6) \cup Range(PinterestSpecs)
  <2> HIDE DEF S6
  <2> QED BY <1>19, <1>7, ConcatRange DEF S7
<1> HIDE DEF S7
<1>21. S8 \in Seq(Range(S8)) /\ Range(S8) = Range(S7) \cup Range(RedditSpecs)
  <2> HIDE DEF S7
  <2> QED BY <1>20, <1>8, ConcatRange DEF S8
<1> HIDE DEF S8
<1>22. S9 \in Seq(Range(S9)) /\ Range(S9) = Range(S8) \cup Range(SnapchatSpecs)
  <2> HIDE DEF S8
  <2> QED BY <1>21, <1>9, ConcatRange DEF S9
<1> HIDE DEF S9
<1>23. S10 \in Seq(Range(S10)) /\ Range(S10) = Range(S9) \cup Range(SnapchatOtherSpecs)
  <2> HIDE DEF S9
  <2> QED BY <1>22, <1>10, ConcatRange DEF S10
<1> HIDE DEF S10
<1>24. S11 \in Seq(Range(S11)) /\ Range(S11) = Range(S10) \cup Range(TiktokSpecs)
  <2> HIDE DEF S10
  <2> QED BY <1>23, <1>11, ConcatRange DEF S11
<1> HIDE DEF S11
<1>25. S12 \in Seq(Range(S12)) /\ Range(S12) = Range(S11) \cup Range(XSpecs)
  <2> HIDE DEF S11
  <2> QED BY <1>24, <1>12, ConcatRange DEF S12
<1> HIDE DEF S12
<1>26. Range(AllSpecs) = Range(AmazonSpecs) \cup Range(GoogleSpecs) \cup Range(YouTubeSpecs) \cup Range(LinkedinSpecs) \cup Range(MetaFeedSpecs) \cup Range(MetaOtherSpecs) \cup Range(PinterestSpecs) \cup Range(RedditSpecs) \cup Range(SnapchatSpecs) \cup Range(SnapchatOtherSpecs) \cup Range(TiktokSpecs) \cup Range(XSpecs)
  BY <1>13, <1>14, <1>15, <1>16, <1>17, <1>18, <1>19, <1>20, <1>21, <1>22, <1>23, <1>24, <1>25
<1> QED BY <1>13, <1>25, <1>26, AmazonPlaced, GooglePlaced, LinkedinPlaced, MetaPlaced, PinterestPlaced,
       RedditPlaced, SnapchatPlaced, TiktokPlaced, XPlaced DEF PlatformSet

\* A nonempty set of integers below N has a maximum.
LEMMA MaxIsIn ==
  ASSUME NEW S \in SUBSET Int, S # {}, NEW N \in Int, \A x \in S : x <= N
  PROVE  Max(S) \in S /\ \A y \in S : y <= Max(S)
<1> DEFINE D == {n \in Nat : N - n \in S}
<1>1. PICK z \in S : TRUE
  OBVIOUS
<1>2. N - z \in D /\ D \in SUBSET Nat
  <2>1. z \in Int /\ z <= N /\ N - (N - z) = z
    BY <1>1
  <2> QED BY <2>1
<1>3. PICK n \in D : \A m \in D : n <= m
  BY <1>2, NatLeast
<1>4. n \in Nat /\ N - n \in S
  BY <1>3
<1>5. ASSUME NEW y \in S
      PROVE  N - n >= y
  <2>1. y \in Int /\ y <= N /\ N - (N - y) = y
    OBVIOUS
  <2>2. N - y \in D
    BY <2>1
  <2>3. n <= N - y
    BY <1>3, <2>2
  <2> HIDE DEF D
  <2> QED BY <1>4, <2>1, <2>3
<1>6. \E x \in S : \A y \in S : x >= y
  BY <1>4, <1>5
<1>7. Max(S) \in S /\ \A y \in S : Max(S) >= y
  BY <1>6 DEF Max
<1> QED
  <2>1. ASSUME NEW y \in S PROVE y <= Max(S)
    BY <1>7
  <2> QED BY <1>7, <2>1

\* The specification of a placement is one of the registry.
LEMMA SpecByPlacementIn ==
  ASSUME NEW p \in Placements
  PROVE  SpecByPlacement[p] \in Range(AllSpecs)
<1> DEFINE I == {i \in DOMAIN AllSpecs : AllSpecs[i].placement = p}
<1>1. AllSpecs \in Seq(Range(AllSpecs))
  BY AllSpecsPlaced
<1>2. I # {} /\ I \in SUBSET Int /\ Len(AllSpecs) \in Int /\ \A x \in I : x <= Len(AllSpecs)
  BY <1>1 DEF Placements
<1> HIDE DEF I
<1>3. Max(I) \in I
  BY <1>2, MaxIsIn
<1> QED BY <1>3 DEF SpecByPlacement, I, Range

\* What ads.platform.specs looks up are specifications of the registry.
LEMMA SpecSetTyped ==
  ASSUME NEW platforms, NEW placements, platforms \in Seq(Range(platforms)),
         placements = None \/ placements \in Seq(Range(placements))
  PROVE  GetSpecSet(platforms, placements) \in Seq(Range(AllSpecs))
<1> DEFINE S == Range(AllSpecs)
<1>1. AllSpecs \in Seq(S)
  BY AllSpecsPlaced
<1>2. ASSUME NEW p
      PROVE  SpecsByPlatform(p) \in Seq(S)
  <2> DEFINE I == {i \in DOMAIN AllSpecs : AllSpecs[i].platform = p}
  <2>1. SpecsByPlatform(p) = KeptAt(AllSpecs, I)
    BY DEF SpecsByPlatform, Only, KeptAt
  <2> HIDE DEF I, S
  <2> QED BY <1>1, <2>1, KeptRange
<1>3. CASE ~(placements # None /\ placements # <<>>)
  <2> DEFINE u == [i \in DOMAIN platforms |-> SpecsByPlatform(platforms[i])]
  <2> HIDE DEF S
  <2>1. u \in Seq(Seq(S))
    BY <1>2
  <2>2. GetSpecSet(platforms, placements) = FlattenSeq(u)
    BY <1>3 DEF GetSpecSet
  <2> HIDE DEF u
  <2>3. FlattenSeq(u) \in Seq(S)
    BY <2>1, FlattenRange
  <2> QED BY <2>2, <2>3 DEF S
<1>4. CASE placements # None /\ placements # <<>>
  <2> DEFINE I == {i \in DOMAIN placements : placements[i] \in Placements}
             kept == KeptAt(placements, I)
  <2>1. Only(placements, LAMBDA p : p \in Placements) = kept
    BY DEF Only, KeptAt
  <2>2. placements \in Seq(Range(placements))
    BY <1>4
  <2>3. kept \in Seq(Range(placements)) /\ Range(kept) = {placements[i] : i \in DOMAIN placements \cap I}
    <3> HIDE DEF I
    <3> QED BY <2>2, KeptRange
  <2>4. \A i \in DOMAIN kept : kept[i] \in Placements
    <3> HIDE DEF kept
    <3>1. \A i \in DOMAIN kept : kept[i] \in Range(kept)
      BY DEF Range
    <3> QED BY <2>3, <3>1
  <2>5. GetSpecSet(platforms, placements) = [i \in DOMAIN kept |-> SpecByPlacement[kept[i]]]
    <3> HIDE DEF kept
    <3> QED BY <1>4, <2>1 DEF GetSpecSet
  <2> HIDE DEF kept, S
  <2>6. \A i \in DOMAIN kept : SpecByPlacement[kept[i]] \in S
    BY <2>4, SpecByPlacementIn DEF S
  <2> QED BY <2>3, <2>5, <2>6 DEF S
<1> QED BY <1>3, <1>4

\* Cutting a text to a limit leaves a text within it.
LEMMA TruncateFits ==
  ASSUME NEW t, IsText(t), NEW max \in Nat \ {0}
  PROVE  IsText(TruncateIfNeeded(t, max)) /\ TruncateIfNeeded(t, max).len <= max
<1>1. CASE t.len <= max
  BY <1>1 DEF TruncateIfNeeded
<1>2. CASE ~(t.len <= max)
  <2> DEFINE S == {s \in t.spaces : s < max - 1} \cup {-1}
             lastSpace == Max(S)
             end == IF 10 * lastSpace > 6 * max THEN lastSpace ELSE max - 1
             cut == TruncateIfNeeded(t, max)
  <2>1. t.len \in Nat /\ t.spaces \subseteq 0..(t.len - 1) /\ \A p \in t.says : p.end \in 1..t.len
    BY DEF IsText
  <2>2. S \in SUBSET Int /\ S # {} /\ max \in Int /\ \A x \in S : x <= max - 2 \/ x = -1
    BY <2>1
  <2>3. lastSpace \in S
    <3>1. \A x \in S : x <= max
      BY <2>2
    <3> HIDE DEF S
    <3> QED BY <2>2, <3>1, MaxIsIn
  <2>4. lastSpace \in Int /\ (lastSpace <= max - 2 \/ lastSpace = -1)
    BY <2>2, <2>3
  <2>5. cut = [CutAt(t, end) EXCEPT !.len = end + 1]
    BY <1>2 DEF TruncateIfNeeded
  <2> HIDE DEF S, lastSpace
  <2>6. end \in Nat /\ end <= max - 1
    BY <2>4
  <2> HIDE DEF end, cut
  <2>7. cut = [len |-> end + 1, spaces |-> {s \in t.spaces : s < end}, says |-> {p \in t.says : p.end <= end}]
    BY <2>5 DEF CutAt
  <2>8. cut.len = end + 1 /\ cut.spaces = {s \in t.spaces : s < end} /\ cut.says = {p \in t.says : p.end <= end}
    BY <2>7
  <2>9. cut = [len |-> cut.len, spaces |-> cut.spaces, says |-> cut.says]
    BY <2>7
  <2>10. cut.len \in Nat /\ cut.len <= max
    BY <2>6, <2>8
  <2>11. cut.spaces \subseteq 0..(cut.len - 1)
    BY <2>1, <2>6, <2>8
  <2>12. \A p \in cut.says : p.end \in 1..cut.len
    BY <2>1, <2>6, <2>8
  <2>13. IsText(cut)
    BY <2>9, <2>10, <2>11, <2>12 DEF IsText
  <2> QED BY <2>10, <2>13 DEF cut
<1> QED BY <1>1, <1>2

\* A text of no length is the empty one.
LEMMA EmptyText ==
  ASSUME NEW t, IsText(t), t.len = 0
  PROVE  t = Text(0)
<1>1. t.spaces = {} /\ t.says = {}
  BY DEF IsText
<1> QED BY <1>1 DEF IsText, Text

\* What the copy node makes for a placement: each field it has is a text within the
\* limits of that placement.
Fits(copy, limits) ==
  /\ copy = [f \in CopyFields |-> copy[f]]
  /\ \A f \in CopyFields : copy[f] = None \/ IsText(copy[f])
  /\ \A f \in CopyFields \cap DOMAIN limits : copy[f] = None \/ copy[f].len <= limits[f].max
AdaptationFits(a) == a.placement \in DOMAIN Limits /\ Fits(a.copy, Limits[a.placement])

SpecsTyped == specs \in Seq(Range(AllSpecs))

\* The limits of a placement are those of a specification.
LEMMA LimitsGoodNow ==
  ASSUME SpecsTyped, NEW p \in DOMAIN Limits
  PROVE  GoodLimits(Limits[p])
<1>1. PICK i \in DOMAIN specs : specs[i].placement = p
  BY DEF Limits
<1>2. specs[i] \in Range(specs)
  BY DEF Range
<1>3. Range(specs) \subseteq Range(AllSpecs)
  BY DEF SpecsTyped, Range
<1> DEFINE s == CHOOSE s \in Range(specs) : s.placement = p
<1>4. s \in Range(specs)
  BY <1>1, <1>2
<1>5. Limits[p] = s.textLimits
  BY DEF Limits
<1> HIDE DEF s
<1> QED BY <1>3, <1>4, <1>5, AllSpecsPlaced DEF GoodSpec

\* Copy adapted to a placement fits it.
LEMMA AdaptFits ==
  ASSUME SpecsTyped, NEW p \in DOMAIN Limits, NEW copy, IsCopy(copy)
  PROVE  AdaptationFits(Adapt(copy, p))
<1> DEFINE headline == IF copy.headline = None THEN Text(0) ELSE copy.headline
           whole == [copy EXCEPT !.headline = headline]
           cut == [f \in DOMAIN whole |-> Trim(whole[f], f, Limits[p])]
<1>1. Adapt(copy, p).placement = p /\ Adapt(copy, p).copy = cut
  BY DEF Adapt
<1>2. copy = [f \in CopyFields |-> copy[f]] /\ \A f \in CopyFields : copy[f] = None \/ IsText(copy[f])
  BY DEF IsCopy
<1>3. IsText(Text(0))
  BY DEF IsText, Text
<1>4. DOMAIN whole = CopyFields /\ \A f \in CopyFields : whole[f] = None \/ IsText(whole[f])
  <2>1. DOMAIN copy = CopyFields /\ "headline" \in CopyFields
    BY <1>2 DEF CopyFields
  <2> QED BY <1>2, <1>3, <2>1
<1> HIDE DEF whole
<1>5. GoodLimits(Limits[p])
  BY LimitsGoodNow
<1>6. ASSUME NEW f \in CopyFields
      PROVE  /\ cut[f] = None \/ IsText(cut[f])
             /\ f \in DOMAIN Limits[p] => cut[f] = None \/ cut[f].len <= Limits[p][f].max
  <2>1. cut[f] = Trim(whole[f], f, Limits[p])
    BY <1>4
  <2>2. CASE whole[f] = None \/ f \notin DOMAIN Limits[p]
    BY <1>4, <2>1, <2>2 DEF Trim
  <2>3. CASE ~(whole[f] = None \/ f \notin DOMAIN Limits[p])
    <3>1. Limits[p][f].max \in Nat \ {0} /\ IsText(whole[f])
      BY <1>4, <1>5, <2>3 DEF GoodLimits, GoodLimit
    <3>2. cut[f] = TruncateIfNeeded(whole[f], Limits[p][f].max)
      BY <2>1, <2>3 DEF Trim
    <3> QED BY <3>1, <3>2, TruncateFits
  <2> QED BY <2>2, <2>3
<1>7. cut = [f \in CopyFields |-> cut[f]]
  BY <1>4
<1> HIDE DEF cut
<1> QED BY <1>1, <1>6, <1>7 DEF AdaptationFits, Fits

-----------------------------------------------------------------------------
(* What the gates say. *)

\* What a text rule says when it is hit, and the rules that copy hits.
Flag(r) ==
  [rule |-> r.id, category |-> r.category, autoResolvable |-> r.autoResolvable,
   status |-> IF r.severity \in {"critical", "high"} THEN "fail" ELSE "warning"]
HitBy(says, platforms, r) ==
  r.enabled /\ (r.platforms = {} \/ r.platforms \cap platforms # {}) /\ (r.keywords \cup r.patterns) \cap says # {}
Hits(says, platforms, rules) == {Flag(r) : r \in {x \in Range(rules) : HitBy(says, platforms, x)}}

\* A field of the copy is outside its limits.
OutOfLimits(copy, limits) ==
  {f \in CopyFields \cap DOMAIN limits :
     /\ copy[f] # None
     /\ (limits[f].min # None /\ copy[f].len < limits[f].min) \/ copy[f].len > limits[f].max}

\* A function on an interval is a sequence of its values.
LEMMA IntervalIsSeq ==
  ASSUME NEW f, NEW n \in Nat, DOMAIN f = 1..n, f = [i \in 1..n |-> f[i]]
  PROVE  f \in Seq(Range(f))
<1>1. \A i \in 1..n : f[i] \in Range(f)
  BY DEF Range
<1> QED BY <1>1

\* The built-in rules of the two packs are the same, and none has the id of a check.
LEMMA BuiltIn ==
  /\ Creative!BuiltInRules = Policy!BuiltInRules
  /\ Policy!BuiltInRules \in Seq(Range(Policy!BuiltInRules))
  /\ \A r \in Range(Policy!BuiltInRules) : r.id \notin AssetRules \cup {"format-text"}
<1> DEFINE B == Policy!BuiltInRules
           named == {"claims-guarantee", "claims-income", "claims-superlative", "trademark-competitor",
                     "prohibited-before-after", "prohibited-urgency-scam", "targeting-discrimination"}
<1>1. Creative!BuiltInRules = B
  BY DEF Creative!BuiltInRules, Policy!BuiltInRules, Creative!Rule, Policy!Rule
<1>2. DOMAIN B = 1..7
  BY DEF Policy!BuiltInRules
<1>3. B = [i \in 1..7 |-> B[i]]
  BY DEF Policy!BuiltInRules
<1>4. /\ B[1].id \in named /\ B[2].id \in named /\ B[3].id \in named /\ B[4].id \in named
      /\ B[5].id \in named /\ B[6].id \in named /\ B[7].id \in named
  BY DEF Policy!BuiltInRules, Policy!Rule
<1> HIDE DEF B
<1>5. B \in Seq(Range(B))
  BY <1>2, <1>3, IntervalIsSeq
<1>6. \A i \in DOMAIN B : B[i].id \in named
  BY <1>2, <1>4
<1>7. \A id \in named : id \notin AssetRules \cup {"format-text"}
  BY DEF AssetRules
<1> HIDE DEF named
<1>8. \A r \in Range(B) : r.id \notin AssetRules \cup {"format-text"}
  BY <1>6, <1>7 DEF Range
<1> QED BY <1>1, <1>5, <1>8 DEF B

\* What the rules that apply say: the first part of what both gates report.
HitFlags(kept, says) ==
  FlattenSeq([i \in DOMAIN kept |->
    IF (kept[i].keywords \cup kept[i].patterns) \cap says = {} THEN <<>> ELSE <<Flag(kept[i])>>])

\* They are the hits.
LEMMA HitsOfRules ==
  ASSUME NEW rules, NEW says, NEW platforms, NEW kept \in Seq(Range(rules)),
         \A r \in Range(rules) :
           r \in Range(kept) <=> r.enabled /\ (r.platforms = {} \/ r.platforms \cap platforms # {})
  PROVE  /\ HitFlags(kept, says) \in Seq({Flag(r) : r \in Range(rules)})
         /\ Range(HitFlags(kept, says)) = Hits(says, platforms, rules)
<1> DEFINE T == {Flag(r) : r \in Range(rules)}
           Of(r) == IF (r.keywords \cup r.patterns) \cap says = {} THEN <<>> ELSE <<Flag(r)>>
           flags == [i \in DOMAIN kept |-> Of(kept[i])]
<1>2. DOMAIN kept = 1..Len(kept) /\ Len(kept) \in Nat /\ \A i \in DOMAIN kept : kept[i] \in Range(rules)
  OBVIOUS
<1>3. \A r \in Range(rules) : Of(r) \in Seq(T)
  <2>1. \A x \in T : <<x>> \in Seq(T)
    OBVIOUS
  <2>2. <<>> \in Seq(T)
    BY EmptySeq
  <2> HIDE DEF T
  <2>3. \A r \in Range(rules) : Flag(r) \in T
    BY DEF T
  <2> QED BY <2>1, <2>2, <2>3
<1>4. \A r : Range(Of(r)) = IF (r.keywords \cup r.patterns) \cap says = {} THEN {} ELSE {Flag(r)}
  <2>1. Range(<<>>) = {} /\ \A x : Range(<<x>>) = {x}
    BY DEF Range
  <2> QED BY <2>1
<1> HIDE DEF T, Of
<1>5. flags \in Seq(Seq(T))
  <2>1. \A i \in DOMAIN kept : Of(kept[i]) \in Seq(T)
    BY <1>2, <1>3
  <2> QED BY <1>2, <2>1
<1>6. DOMAIN flags = DOMAIN kept /\ \A i \in DOMAIN kept : flags[i] = Of(kept[i])
  OBVIOUS
<1> HIDE DEF flags
<1>7. FlattenSeq(flags) \in Seq(T) /\ Range(FlattenSeq(flags)) = UNION {Range(flags[i]) : i \in DOMAIN flags}
  BY <1>5, FlattenRange
<1>8. UNION {Range(flags[i]) : i \in DOMAIN flags} = UNION {Range(Of(r)) : r \in Range(kept)}
  <2>1. \A i \in DOMAIN flags : kept[i] \in Range(kept) /\ Range(flags[i]) = Range(Of(kept[i]))
    BY <1>6 DEF Range
  <2>2. \A r \in Range(kept) : \E i \in DOMAIN flags : r = kept[i]
    BY <1>6 DEF Range
  <2> QED BY <2>1, <2>2
<1>9. UNION {Range(Of(r)) : r \in Range(kept)} = Hits(says, platforms, rules)
  <2>2. \A r \in Range(kept) : r \in Range(rules)
    BY <1>2 DEF Range
  <2>3. ASSUME NEW c
        PROVE  c \in UNION {Range(Of(r)) : r \in Range(kept)} <=> c \in Hits(says, platforms, rules)
    <3>1. c \in UNION {Range(Of(r)) : r \in Range(kept)} <=> \E r \in Range(kept) : c \in Range(Of(r))
      OBVIOUS
    <3>2. \A r : c \in Range(Of(r)) <=> (r.keywords \cup r.patterns) \cap says # {} /\ c = Flag(r)
      BY <1>4
    <3>3. c \in Hits(says, platforms, rules) <=> \E r \in Range(rules) : HitBy(says, platforms, r) /\ c = Flag(r)
      BY DEF Hits
    <3> QED BY <2>2, <3>1, <3>2, <3>3 DEF HitBy
  <2> QED BY <2>3
<1>10. HitFlags(kept, says) = FlattenSeq(flags)
  BY DEF HitFlags, flags, Of
<1> QED BY <1>7, <1>8, <1>9, <1>10 DEF T

\* The gates flatten as their caller does.
LEMMA FlattenSame ==
  ASSUME NEW s
  PROVE  Policy!FlattenSeq(s) = FlattenSeq(s) /\ Creative!FlattenSeq(s) = FlattenSeq(s)
BY DEF Policy!FlattenSeq, Creative!FlattenSeq, FlattenSeq

AllRules(custom) == Policy!BuiltInRules \o custom
Applies(r, platforms) == r.enabled /\ (r.platforms = {} \/ r.platforms \cap platforms # {})

\* The rules of a gate are a sequence; those of a campaign come last.
LEMMA AllRulesTyped ==
  ASSUME NEW custom, custom \in Seq(Range(custom))
  PROVE  /\ AllRules(custom) \in Seq(Range(AllRules(custom)))
         /\ Range(AllRules(custom)) = Range(Policy!BuiltInRules) \cup Range(custom)
BY BuiltIn, ConcatRange DEF AllRules

\* Keeping the rules that apply.
LEMMA RulesKept ==
  ASSUME NEW rules, rules \in Seq(Range(rules)), NEW platforms, NEW I,
         I = {i \in DOMAIN rules : Applies(rules[i], platforms)}
  PROVE  /\ KeptAt(rules, I) \in Seq(Range(rules))
         /\ \A r \in Range(rules) : r \in Range(KeptAt(rules, I)) <=> Applies(r, platforms)
<1>1. KeptAt(rules, I) \in Seq(Range(rules)) /\ Range(KeptAt(rules, I)) = {rules[i] : i \in DOMAIN rules \cap I}
  BY KeptRange
<1>2. ASSUME NEW r \in Range(rules)
      PROVE  r \in {rules[i] : i \in DOMAIN rules \cap I} <=> Applies(r, platforms)
  BY DEF Range
<1> QED BY <1>1, <1>2

\* A sequence of one part is that part when flattened.
LEMMA FlattenOne ==
  ASSUME NEW T, NEW x \in Seq(T), NEW u, u = <<x>>
  PROVE  FlattenSeq(u) = x
<1>1. <<>> \in Seq(Seq(T))
  BY EmptySeq
<1>2. FlattenSeq(Append(<<>>, x)) = FlattenSeq(<<>>) \o x
  BY <1>1, FlattenAppend
<1>3. <<>> \o x = x
  BY ConcatEmptySeq
<1>4. Append(<<>>, x) = u
  OBVIOUS
<1> QED BY <1>2, <1>3, <1>4, FlattenEmpty

\* The length checks of the policy gate.
LEMMA PolicyLengths ==
  ASSUME NEW copy, \A f \in CopyFields : copy[f] = None \/ copy[f].len \in Nat, NEW limits
  PROVE  LET flags == Policy!CheckTextLengths(copy, limits)
         IN  /\ flags \in Seq(Range(flags))
             /\ (\A c \in Range(flags) : c.status # "fail") <=> OutOfLimits(copy, limits) = {}
<1> DEFINE F == Policy!Fields
           I == {i \in DOMAIN F : /\ F[i] \in DOMAIN limits /\ copy[F[i]] # None
                                  /\ Policy!LengthStatus(copy[F[i]].len, limits[F[i]]) # "pass"}
           checked == KeptAt(F, I)
           Status(f) == Policy!LengthStatus(copy[f].len, limits[f])
           flags == [i \in DOMAIN checked |->
                       [rule |-> "format-text", category |-> "format", autoResolvable |-> TRUE,
                        status |-> Status(checked[i])]]
<1>1. F \in Seq(CopyFields) /\ Range(F) = CopyFields
  <2>1. DOMAIN F = 1..4 /\ F = [i \in 1..4 |-> F[i]]
    BY DEF Policy!Fields
  <2>2. Range(F) = CopyFields
    BY DEF Policy!Fields, CopyFields, Range
  <2> HIDE DEF F
  <2> QED BY <2>1, <2>2, IntervalIsSeq
<1>2. Policy!CheckTextLengths(copy, limits) = flags
  <2> DEFINE u == [i \in DOMAIN F |-> IF i \in I THEN <<F[i]>> ELSE <<>>]
  <2>1. Policy!FlattenSeq(u) = checked
    BY FlattenSame DEF KeptAt
  <2>2. Policy!CheckTextLengths(copy, limits) =
          LET kept == Policy!FlattenSeq(u)
          IN  [i \in DOMAIN kept |->
                [rule |-> "format-text", category |-> "format", autoResolvable |-> TRUE,
                 status |-> Policy!LengthStatus(copy[kept[i]].len, limits[kept[i]])]]
    BY DEF Policy!CheckTextLengths, Policy!Only
  <2> HIDE DEF u
  <2> QED BY <2>1, <2>2
<1>3. checked \in Seq(CopyFields) /\ Range(checked) = {F[i] : i \in DOMAIN F \cap I}
  <2> HIDE DEF I, F
  <2> QED BY <1>1, KeptRange
<1>4. \A f \in CopyFields : f \in Range(checked) <=> f \in DOMAIN limits /\ copy[f] # None /\ Status(f) # "pass"
  <2>1. \A i \in DOMAIN F : i \in I <=> F[i] \in DOMAIN limits /\ copy[F[i]] # None /\ Status(F[i]) # "pass"
    BY DEF Status
  <2>2. \A f \in CopyFields : \E i \in DOMAIN F : f = F[i]
    BY <1>1 DEF Range
  <2> HIDE DEF F, Status, checked, I
  <2> QED BY <1>3, <2>1, <2>2
<1>5. \A f : Status(f) = "fail" <=>
               (limits[f].min # None /\ copy[f].len < limits[f].min) \/ copy[f].len > limits[f].max
  BY DEF Policy!LengthStatus
<1>6. DOMAIN checked = 1..Len(checked) /\ Len(checked) \in Nat
      /\ \A i \in DOMAIN checked : checked[i] \in CopyFields
  <2>1. checked \in Seq(CopyFields)
    BY <1>3
  <2> HIDE DEF checked
  <2> QED BY <2>1
<1> HIDE DEF checked, Status, F
<1>7. flags \in Seq(Range(flags))
  <2>1. DOMAIN flags = 1..Len(checked) /\ flags = [i \in 1..Len(checked) |-> flags[i]]
    BY <1>6
  <2> HIDE DEF flags
  <2> QED BY <1>6, <2>1, IntervalIsSeq
<1>8. (\A c \in Range(flags) : c.status # "fail") <=> \A f \in Range(checked) : Status(f) # "fail"
  <2>1. DOMAIN flags = DOMAIN checked /\ \A i \in DOMAIN checked : flags[i].status = Status(checked[i])
    OBVIOUS
  <2> HIDE DEF flags
  <2> QED BY <2>1 DEF Range
<1>9. (\A f \in Range(checked) : Status(f) # "fail") <=> OutOfLimits(copy, limits) = {}
  <2>1. \A f \in Range(checked) : f \in CopyFields
    BY <1>6 DEF Range
  <2> QED BY <1>4, <1>5, <2>1 DEF OutOfLimits
<1> HIDE DEF flags
<1> QED BY <1>2, <1>7, <1>8, <1>9

\* The length checks of the creative gate.
LEMMA CreativeLengths ==
  ASSUME NEW copy, \A f \in CopyFields : copy[f] = None \/ copy[f].len \in Nat, NEW limits
  PROVE  LET flags == Creative!CheckTextLengths(copy, limits)
         IN  /\ flags \in Seq(Range(flags))
             /\ \A c \in Range(flags) : c.rule = "format-text"
             /\ (\A c \in Range(flags) : c.status # "fail") <=> OutOfLimits(copy, limits) = {}
<1> DEFINE F == Creative!Fields
           failed == Creative!Fail("format-text", TRUE)
           warned == [failed EXCEPT !.status = "warning"]
           Piece(f) == IF f \notin DOMAIN limits \/ copy[f] = None THEN <<>>
                       ELSE IF Creative!Below(copy[f].len, limits[f].min) \/ copy[f].len > limits[f].max
                         THEN <<failed>>
                         ELSE Creative!If(Creative!Above(copy[f].len, limits[f].recommended), warned)
           T == {failed, warned}
           u == [i \in DOMAIN F |-> Piece(F[i])]
           flags == FlattenSeq(u)
<1>1. F \in Seq(CopyFields) /\ Range(F) = CopyFields
  <2>1. DOMAIN F = 1..4 /\ F = [i \in 1..4 |-> F[i]]
    BY DEF Creative!Fields
  <2>2. Range(F) = CopyFields
    BY DEF Creative!Fields, CopyFields, Range
  <2> HIDE DEF F
  <2> QED BY <2>1, <2>2, IntervalIsSeq
<1>2. Creative!CheckTextLengths(copy, limits) = flags
  <2>1. Creative!CheckTextLengths(copy, limits) = Creative!FlattenSeq(u)
    BY DEF Creative!CheckTextLengths
  <2> HIDE DEF u
  <2> QED BY <2>1, FlattenSame
<1>3. /\ failed.rule = "format-text" /\ failed.status = "fail"
      /\ warned.rule = "format-text" /\ warned.status = "warning"
  BY DEF Creative!Fail
<1> HIDE DEF failed, warned
<1>4. ASSUME NEW f \in CopyFields
      PROVE  /\ Piece(f) \in {<<>>, <<failed>>, <<warned>>}
             /\ Piece(f) = <<failed>> <=> f \in OutOfLimits(copy, limits)
  <2>1. <<failed>> # <<>> /\ <<failed>> # <<warned>>
    <3>1. failed # warned
      BY <1>3
    <3> QED BY <3>1
  <2>2. CASE f \notin DOMAIN limits \/ copy[f] = None
    BY <2>1, <2>2 DEF OutOfLimits
  <2>3. CASE ~(f \notin DOMAIN limits \/ copy[f] = None)
    <3>1. copy[f].len # None
      BY <2>3, NoneAssumption
    <3>2. Creative!Below(copy[f].len, limits[f].min) <=> limits[f].min # None /\ copy[f].len < limits[f].min
      BY <3>1 DEF Creative!Below
    <3>3. f \in OutOfLimits(copy, limits)
            <=> Creative!Below(copy[f].len, limits[f].min) \/ copy[f].len > limits[f].max
      BY <2>3, <3>2 DEF OutOfLimits
    <3> QED BY <2>1, <2>3, <3>3 DEF Creative!If
  <2> QED BY <2>2, <2>3
<1>5. /\ <<>> \in Seq(T) /\ <<failed>> \in Seq(T) /\ <<warned>> \in Seq(T)
      /\ Range(<<>>) = {} /\ Range(<<failed>>) = {failed} /\ Range(<<warned>>) = {warned}
  <2>1. Range(<<>>) = {} /\ \A x : Range(<<x>>) = {x}
    BY DEF Range
  <2>2. \A x \in T : <<x>> \in Seq(T)
    OBVIOUS
  <2> QED BY <2>1, <2>2, EmptySeq
<1> HIDE DEF T, Piece
<1>6. DOMAIN F = 1..Len(F) /\ Len(F) \in Nat /\ \A i \in DOMAIN F : F[i] \in CopyFields
  <2>1. F \in Seq(CopyFields)
    BY <1>1
  <2> HIDE DEF F
  <2> QED BY <2>1
<1> HIDE DEF F
<1>7. u \in Seq(Seq(T)) /\ DOMAIN u = DOMAIN F /\ \A i \in DOMAIN F : u[i] = Piece(F[i])
  <2>1. \A i \in DOMAIN F : Piece(F[i]) \in Seq(T)
    BY <1>4, <1>5, <1>6
  <2> QED BY <1>6, <2>1
<1> HIDE DEF u
<1>8. flags \in Seq(T) /\ Range(flags) = UNION {Range(u[i]) : i \in DOMAIN u}
  BY <1>7, FlattenRange
<1> HIDE DEF flags
<1>9. flags \in Seq(Range(flags)) /\ \A c \in Range(flags) : c \in T
  BY <1>8 DEF Range
<1>10. \A c \in T : c.rule = "format-text" /\ (c.status = "fail" <=> c = failed)
  BY <1>3 DEF T
<1>11. failed \in Range(flags) <=> \E f \in CopyFields : failed \in Range(Piece(f))
  <2>1. failed \in Range(flags) <=> \E i \in DOMAIN F : failed \in Range(Piece(F[i]))
    BY <1>7, <1>8
  <2>2. \A f \in CopyFields : \E i \in DOMAIN F : f = F[i]
    BY <1>1 DEF Range
  <2> QED BY <1>6, <2>1, <2>2
<1>12. \A f \in CopyFields : failed \in Range(Piece(f)) <=> f \in OutOfLimits(copy, limits)
  <2>1. failed # warned
    BY <1>3
  <2>2. \A f \in CopyFields : failed \in Range(Piece(f)) <=> Piece(f) = <<failed>>
    BY <1>4, <1>5, <2>1
  <2> QED BY <1>4, <2>2
<1>13. failed \in Range(flags) <=> OutOfLimits(copy, limits) # {}
  BY <1>11, <1>12 DEF OutOfLimits
<1>14. (\A c \in Range(flags) : c.status # "fail") <=> failed \notin Range(flags)
  BY <1>3, <1>9, <1>10
<1> QED BY <1>2, <1>9, <1>10, <1>13, <1>14

\* The format checks of an asset are named after the assets.
LEMMA AssetFlags ==
  ASSUME NEW asset, NEW spec
  PROVE  /\ Creative!CheckAssetFormat(asset, spec) \in Seq(Range(Creative!CheckAssetFormat(asset, spec)))
         /\ \A c \in Range(Creative!CheckAssetFormat(asset, spec)) : c.rule \in AssetRules
<1> DEFINE T == {Creative!Fail(rule, b) : rule \in AssetRules, b \in BOOLEAN}
           flags == Creative!CheckAssetFormat(asset, spec)
<1>1. \A c \in T : c.rule \in AssetRules
  BY DEF Creative!Fail
<1>2. \A condition : \A rule \in AssetRules, b \in BOOLEAN :
        Creative!If(condition, Creative!Fail(rule, b)) \in Seq(T)
  <2>1. \A rule \in AssetRules, b \in BOOLEAN : Creative!Fail(rule, b) \in T
    OBVIOUS
  <2> HIDE DEF T
  <2> QED BY <2>1, EmptySeq DEF Creative!If
<1>3. <<>> \in Seq(T)
  BY EmptySeq
<1>4. \A x \in Seq(T), y \in Seq(T) : x \o y \in Seq(T)
  BY ConcatProperties
<1> HIDE DEF T
<1>5. "format-image-dimensions" \in AssetRules /\ "format-image-filesize" \in AssetRules
      /\ "format-video-duration-min" \in AssetRules /\ "format-video-duration-max" \in AssetRules
      /\ "format-video-filesize" \in AssetRules
  BY DEF AssetRules
<1>6. \A image : Creative!CheckImage(asset, image) \in Seq(T)
  BY <1>2, <1>4, <1>5 DEF Creative!CheckImage
<1>7. \A v : Creative!CheckVideo(asset, v) \in Seq(T)
  BY <1>2, <1>4, <1>5 DEF Creative!CheckVideo
<1>8. flags \in Seq(T)
  BY <1>3, <1>6, <1>7 DEF Creative!CheckAssetFormat
<1> HIDE DEF flags
<1>9. \A c \in Range(flags) : c \in T
  BY <1>8 DEF Range
<1>10. flags \in Seq(Range(flags))
  BY <1>8 DEF Range
<1> QED BY <1>1, <1>9, <1>10 DEF flags

\* The part of a report that the rules make, in either gate.
RuleFlags(says, platforms, rules) ==
  HitFlags(KeptAt(rules, {i \in DOMAIN rules : Applies(rules[i], platforms)}), says)

\* It is a sequence of the hits.
LEMMA RuleFlagsAreHits ==
  ASSUME NEW rules, rules \in Seq(Range(rules)), NEW says, NEW platforms
  PROVE  /\ RuleFlags(says, platforms, rules) \in Seq(Range(RuleFlags(says, platforms, rules)))
         /\ Range(RuleFlags(says, platforms, rules)) = Hits(says, platforms, rules)
<1> DEFINE I == {i \in DOMAIN rules : Applies(rules[i], platforms)}
           kept == KeptAt(rules, I)
           flags == RuleFlags(says, platforms, rules)
           T == {Flag(r) : r \in Range(rules)}
<1>1. /\ kept \in Seq(Range(rules))
      /\ \A r \in Range(rules) : r \in Range(kept) <=> Applies(r, platforms)
  <2> HIDE DEF I
  <2> QED BY RulesKept DEF I
<1>2. flags = HitFlags(kept, says)
  BY DEF RuleFlags
<1> HIDE DEF kept, flags
<1>3. \A r \in Range(rules) : r \in Range(kept) <=> r.enabled /\ (r.platforms = {} \/ r.platforms \cap platforms # {})
  BY <1>1 DEF Applies
<1>4. flags \in Seq(T) /\ Range(flags) = Hits(says, platforms, rules)
  BY <1>1, <1>2, <1>3, HitsOfRules
<1> HIDE DEF T
<1>5. flags \in Seq(Range(flags))
  BY <1>4 DEF Range
<1> QED BY <1>4, <1>5 DEF flags

\* Both gates report the rules alike.
LEMMA PolicyRuleFlags ==
  ASSUME NEW custom, NEW says, NEW platforms
  PROVE  LET rules == Policy!Only(Policy!BuiltInRules \o custom, LAMBDA r : Policy!RuleApplies(r, platforms))
         IN  Policy!FlattenSeq([i \in DOMAIN rules |-> Policy!EvaluateRule(rules[i], says)])
               = RuleFlags(says, platforms, AllRules(custom))
<1> DEFINE all == AllRules(custom)
           I == {i \in DOMAIN all : Applies(all[i], platforms)}
           kept == KeptAt(all, I)
           u == [i \in DOMAIN all |-> IF i \in I THEN <<all[i]>> ELSE <<>>]
           v == [i \in DOMAIN kept |->
                   IF (kept[i].keywords \cup kept[i].patterns) \cap says = {} THEN <<>> ELSE <<Flag(kept[i])>>]
<1>1. Policy!Only(Policy!BuiltInRules \o custom, LAMBDA r : Policy!RuleApplies(r, platforms)) = Policy!FlattenSeq(u)
  BY DEF Policy!Only, Policy!RuleApplies, Applies, AllRules
<1>2. Policy!FlattenSeq(u) = kept
  <2>1. kept = FlattenSeq(u)
    BY DEF KeptAt
  <2> HIDE DEF u, kept
  <2> QED BY <2>1, FlattenSame
<1> HIDE DEF kept, u
<1>3. \A r : Policy!EvaluateRule(r, says)
               = IF (r.keywords \cup r.patterns) \cap says = {} THEN <<>> ELSE <<Flag(r)>>
  BY DEF Policy!EvaluateRule, Policy!RuleStatus, Flag
<1>4. [i \in DOMAIN kept |-> Policy!EvaluateRule(kept[i], says)] = v
  BY <1>3
<1>5. Policy!FlattenSeq(v) = FlattenSeq(v)
  <2> HIDE DEF v
  <2> QED BY FlattenSame
<1>6. FlattenSeq(v) = RuleFlags(says, platforms, all)
  BY DEF RuleFlags, HitFlags, kept
<1> HIDE DEF v
<1> QED BY <1>1, <1>2, <1>4, <1>5, <1>6

\* The same of the creative gate.
LEMMA CreativeRuleFlags ==
  ASSUME NEW custom, NEW says, NEW platforms
  PROVE  LET rules == Creative!Only(Creative!BuiltInRules \o custom,
                        LAMBDA r : r.enabled /\ (r.platforms = {} \/ r.platforms \cap platforms # {}))
         IN  Creative!FlattenSeq([i \in DOMAIN rules |-> Creative!EvaluateRule(rules[i], says)])
               = RuleFlags(says, platforms, AllRules(custom))
<1> DEFINE all == AllRules(custom)
           I == {i \in DOMAIN all : Applies(all[i], platforms)}
           kept == KeptAt(all, I)
           u == [i \in DOMAIN all |-> IF i \in I THEN <<all[i]>> ELSE <<>>]
           v == [i \in DOMAIN kept |->
                   IF (kept[i].keywords \cup kept[i].patterns) \cap says = {} THEN <<>> ELSE <<Flag(kept[i])>>]
<1>1. Creative!Only(Creative!BuiltInRules \o custom,
        LAMBDA r : r.enabled /\ (r.platforms = {} \/ r.platforms \cap platforms # {})) = Creative!FlattenSeq(u)
  <2>1. Creative!BuiltInRules \o custom = all
    BY BuiltIn DEF AllRules
  <2> HIDE DEF all
  <2> QED BY <2>1 DEF Creative!Only, Applies
<1>2. Creative!FlattenSeq(u) = kept
  <2>1. kept = FlattenSeq(u)
    BY DEF KeptAt
  <2> HIDE DEF u, kept
  <2> QED BY <2>1, FlattenSame
<1> HIDE DEF kept, u
<1>3. \A r : Creative!EvaluateRule(r, says)
               = IF (r.keywords \cup r.patterns) \cap says = {} THEN <<>> ELSE <<Flag(r)>>
  BY DEF Creative!EvaluateRule, Creative!Severe, Flag
<1>4. [i \in DOMAIN kept |-> Creative!EvaluateRule(kept[i], says)] = v
  BY <1>3
<1>5. Creative!FlattenSeq(v) = FlattenSeq(v)
  <2> HIDE DEF v
  <2> QED BY FlattenSame
<1>6. FlattenSeq(v) = RuleFlags(says, platforms, all)
  BY DEF RuleFlags, HitFlags, kept
<1> HIDE DEF v
<1> QED BY <1>1, <1>2, <1>4, <1>5, <1>6

\* What the policy gate finds: hits, and a field out of its limits.
LEMMA PolicyGate ==
  ASSUME NEW copy, \A f \in CopyFields : copy[f] = None \/ copy[f].len \in Nat,
         NEW platforms, NEW custom, custom \in Seq(Range(custom)), NEW limits, NEW p \in DOMAIN limits
  PROVE  Policy!PolicyCheck(copy, platforms, <<p>>, custom, limits, <<>>).isCompliant
           <=> /\ \A c \in Hits(Policy!Says(copy), platforms, AllRules(custom)) : c.status # "fail"
               /\ OutOfLimits(copy, limits[p]) = {}
<1> DEFINE says == Policy!Says(copy)
           A == RuleFlags(says, platforms, AllRules(custom))
           B == Policy!CheckTextLengths(copy, limits[p])
           limited == Policy!Only(<<p>>, LAMBDA x : x \in DOMAIN limits)
           guards == Policy!Only(<<>>, LAMBDA g : g # None /\ g.status \in {"fail", "warning"})
           rules == Policy!Only(Policy!BuiltInRules \o custom, LAMBDA r : Policy!RuleApplies(r, platforms))
           A0 == Policy!FlattenSeq([i \in DOMAIN rules |-> Policy!EvaluateRule(rules[i], says)])
           B0 == Policy!FlattenSeq([i \in DOMAIN limited |-> Policy!CheckTextLengths(copy, limits[limited[i]])])
           flags == A0 \o B0 \o guards
<1>1. Policy!PolicyCheck(copy, platforms, <<p>>, custom, limits, <<>>).isCompliant
        <=> \A i \in DOMAIN flags : flags[i].status # "fail"
  BY DEF Policy!PolicyCheck
<1>2. A0 = A
  BY PolicyRuleFlags
<1>3. limited = <<p>>
  <2> DEFINE u == [i \in DOMAIN <<p>> |-> IF <<p>>[i] \in DOMAIN limits THEN <<<<p>>[i]>> ELSE <<>>]
  <2>1. limited = Policy!FlattenSeq(u)
    BY DEF Policy!Only
  <2>2. u = <<<<p>>>> /\ <<p>> \in Seq({p})
    OBVIOUS
  <2> HIDE DEF u, limited
  <2>3. FlattenSeq(u) = <<p>>
    BY <2>2, FlattenOne
  <2> QED BY <2>1, <2>3, FlattenSame
<1>4. B \in Seq(Range(B)) /\ ((\A c \in Range(B) : c.status # "fail") <=> OutOfLimits(copy, limits[p]) = {})
  BY PolicyLengths
<1>5. B0 = B
  <2> DEFINE u == [i \in DOMAIN limited |-> Policy!CheckTextLengths(copy, limits[limited[i]])]
  <2>1. u = <<B>>
    <3> HIDE DEF limited, B
    <3>1. u = [i \in DOMAIN <<p>> |-> Policy!CheckTextLengths(copy, limits[<<p>>[i]])]
      BY <1>3
    <3> QED BY <3>1 DEF B
  <2> HIDE DEF u, B
  <2>2. FlattenSeq(u) = B
    BY <1>4, <2>1, FlattenOne
  <2>3. Policy!FlattenSeq(u) = B
    BY <2>2, FlattenSame
  <2> QED BY <2>3 DEF u
<1>6. guards = <<>>
  <2>1. Policy!FlattenSeq(<<>>) = <<>>
    BY FlattenSame, FlattenEmpty
  <2>2. guards = Policy!FlattenSeq(<<>>)
    BY DEF Policy!Only
  <2> QED BY <2>1, <2>2
<1>7. A \in Seq(Range(A)) /\ Range(A) = Hits(says, platforms, AllRules(custom))
  BY AllRulesTyped, RuleFlagsAreHits
<1> HIDE DEF A, B, A0, B0, guards, says
<1>8. flags = A \o B
  <2>1. A \o B \in Seq(Range(A \o B))
    BY <1>4, <1>7, ConcatRange
  <2>2. (A \o B) \o <<>> = A \o B
    BY <2>1, ConcatEmptySeq
  <2> QED BY <1>2, <1>5, <1>6, <2>2
<1>9. Range(A \o B) = Range(A) \cup Range(B)
  BY <1>4, <1>7, ConcatRange
<1>10. (\A i \in DOMAIN flags : flags[i].status # "fail") <=> \A c \in Range(flags) : c.status # "fail"
  BY DEF Range
<1> HIDE DEF flags
<1> QED BY <1>1, <1>4, <1>7, <1>8, <1>9, <1>10 DEF says

\* What the format checks of the assets say.
AssetChecks(assets, spec) == UNION {Range(Creative!CheckAssetFormat(a, spec)) : a \in Range(assets)}

\* What the creative gate finds against copy and assets.
LEMMA CreativeGate ==
  ASSUME NEW copy, \A f \in CopyFields : copy[f] = None \/ copy[f].len \in Nat,
         NEW assets, assets \in Seq(Range(assets)), NEW spec,
         NEW platforms, NEW custom, custom \in Seq(Range(custom)), NEW limits, NEW p \in DOMAIN limits
  PROVE  \A c : c \in Range(Creative!CreativeValidate(copy, assets, platforms, <<p>>, custom, spec, limits).violations)
                <=> /\ \/ c \in Hits(Policy!Says(copy), platforms, AllRules(custom))
                       \/ c \in AssetChecks(assets, spec)
                       \/ c \in Range(Creative!CheckTextLengths(copy, limits[p]))
                    /\ c.status = "fail"
<1> DEFINE says == UNION {{q.what : q \in copy[Creative!Fields[f]].says} :
                            f \in {g \in DOMAIN Creative!Fields : copy[Creative!Fields[g]] # None}}
           A == RuleFlags(says, platforms, AllRules(custom))
           B == Creative!CheckTextLengths(copy, limits[p])
           limited == Creative!Only(<<p>>, LAMBDA x : x \in DOMAIN limits)
           rules == Creative!Only(Creative!BuiltInRules \o custom,
                      LAMBDA r : r.enabled /\ (r.platforms = {} \/ r.platforms \cap platforms # {}))
           A0 == Creative!FlattenSeq([i \in DOMAIN rules |-> Creative!EvaluateRule(rules[i], says)])
           B0 == Creative!FlattenSeq([i \in DOMAIN limited |-> Creative!CheckTextLengths(copy, limits[limited[i]])])
           D == Creative!FlattenSeq([i \in DOMAIN assets |-> Creative!CheckAssetFormat(assets[i], spec)])
           checks == A0 \o D \o B0
           I == {i \in DOMAIN checks : checks[i].status = "fail"}
<1>1. Creative!CreativeValidate(copy, assets, platforms, <<p>>, custom, spec, limits).violations
        = Creative!Only(checks, LAMBDA c : c.status = "fail")
  BY DEF Creative!CreativeValidate
<1>1a. says = Policy!Says(copy)
  BY DEF Policy!Says, Policy!Fields, Creative!Fields
<1>2. A0 = A
  BY CreativeRuleFlags
<1>3. limited = <<p>>
  <2> DEFINE u == [i \in DOMAIN <<p>> |-> IF <<p>>[i] \in DOMAIN limits THEN <<<<p>>[i]>> ELSE <<>>]
  <2>1. limited = Creative!FlattenSeq(u)
    BY DEF Creative!Only
  <2>2. u = <<<<p>>>> /\ <<p>> \in Seq({p})
    OBVIOUS
  <2> HIDE DEF u, limited
  <2>3. FlattenSeq(u) = <<p>>
    BY <2>2, FlattenOne
  <2> QED BY <2>1, <2>3, FlattenSame
<1>4. B \in Seq(Range(B))
  BY CreativeLengths
<1>5. B0 = B
  <2> DEFINE u == [i \in DOMAIN limited |-> Creative!CheckTextLengths(copy, limits[limited[i]])]
  <2>1. u = <<B>>
    <3> HIDE DEF limited, B
    <3>1. u = [i \in DOMAIN <<p>> |-> Creative!CheckTextLengths(copy, limits[<<p>>[i]])]
      BY <1>3
    <3> QED BY <3>1 DEF B
  <2> HIDE DEF u, B
  <2>2. FlattenSeq(u) = B
    BY <1>4, <2>1, FlattenOne
  <2>3. Creative!FlattenSeq(u) = B
    BY <2>2, FlattenSame
  <2> QED BY <2>3 DEF u
<1>6. D \in Seq(Range(D)) /\ Range(D) = AssetChecks(assets, spec)
  <2> DEFINE Of(a) == Creative!CheckAssetFormat(a, spec)
             u == [i \in DOMAIN assets |-> Of(assets[i])]
             T == AssetChecks(assets, spec)
  <2>1. \A a \in Range(assets) : Of(a) \in Seq(T)
    <3>1. \A a \in Range(assets) : Of(a) \in Seq(Range(Of(a))) /\ Range(Of(a)) \subseteq T
      BY AssetFlags DEF AssetChecks
    <3> HIDE DEF T, Of
    <3> QED BY <3>1, SeqMonotonic
  <2>2. DOMAIN assets = 1..Len(assets) /\ Len(assets) \in Nat /\ \A i \in DOMAIN assets : assets[i] \in Range(assets)
    BY DEF Range
  <2> HIDE DEF Of, T
  <2>3. u \in Seq(Seq(T)) /\ DOMAIN u = DOMAIN assets /\ \A i \in DOMAIN u : u[i] = Of(assets[i])
    BY <2>1, <2>2
  <2>4. Creative!FlattenSeq(u) = D
    BY DEF Of
  <2> HIDE DEF u, D
  <2>5. D \in Seq(T) /\ Range(D) = UNION {Range(u[i]) : i \in DOMAIN u}
    BY <2>3, <2>4, FlattenRange, FlattenSame
  <2>6. UNION {Range(u[i]) : i \in DOMAIN u} = T
    <3>1. \A i \in DOMAIN assets : assets[i] \in Range(assets)
      BY DEF Range
    <3>2. \A a \in Range(assets) : \E i \in DOMAIN assets : a = assets[i]
      BY DEF Range
    <3>3. T = UNION {Range(Of(a)) : a \in Range(assets)}
      BY DEF T, AssetChecks, Of
    <3> QED BY <2>3, <3>1, <3>2, <3>3
  <2>7. D \in Seq(Range(D))
    BY <2>5, <2>6
  <2> QED BY <2>5, <2>6, <2>7 DEF T
<1>7. A \in Seq(Range(A)) /\ Range(A) = Hits(says, platforms, AllRules(custom))
  BY AllRulesTyped, RuleFlagsAreHits
<1> HIDE DEF A, B, A0, B0, D, says
<1>8. checks \in Seq(Range(checks)) /\ Range(checks) = Range(A) \cup Range(D) \cup Range(B)
  <2> DEFINE E == A \o D
  <2>1. E \in Seq(Range(E)) /\ Range(E) = Range(A) \cup Range(D)
    BY <1>6, <1>7, ConcatRange
  <2> HIDE DEF E
  <2>2. E \o B \in Seq(Range(E \o B)) /\ Range(E \o B) = Range(E) \cup Range(B)
    BY <1>4, <2>1, ConcatRange
  <2>3. checks = E \o B
    BY <1>2, <1>5 DEF E
  <2> HIDE DEF checks
  <2> QED BY <2>1, <2>2, <2>3
<1> HIDE DEF checks
<1>9. Creative!Only(checks, LAMBDA c : c.status = "fail") = KeptAt(checks, I)
  <2> DEFINE u == [i \in DOMAIN checks |-> IF i \in I THEN <<checks[i]>> ELSE <<>>]
  <2>1. Creative!Only(checks, LAMBDA c : c.status = "fail") = Creative!FlattenSeq(u)
    BY DEF Creative!Only
  <2>2. KeptAt(checks, I) = FlattenSeq(u)
    BY DEF KeptAt
  <2> HIDE DEF u
  <2> QED BY <2>1, <2>2, FlattenSame
<1>10. Range(KeptAt(checks, I)) = {checks[i] : i \in DOMAIN checks \cap I}
  <2> HIDE DEF I
  <2> QED BY <1>8, KeptRange
<1>11. {checks[i] : i \in DOMAIN checks \cap I} = {c \in Range(checks) : c.status = "fail"}
  BY DEF Range
<1> HIDE DEF I
<1> DEFINE V == Creative!CreativeValidate(copy, assets, platforms, <<p>>, custom, spec, limits).violations
<1>12. Range(V) = {c \in Range(checks) : c.status = "fail"}
  BY <1>1, <1>9, <1>10, <1>11
<1> HIDE DEF V
<1>13. Range(checks) = Hits(Policy!Says(copy), platforms, AllRules(custom)) \cup AssetChecks(assets, spec)
                         \cup Range(Creative!CheckTextLengths(copy, limits[p]))
  BY <1>1a, <1>6, <1>7, <1>8 DEF B
<1> QED BY <1>12, <1>13 DEF V

-----------------------------------------------------------------------------
(* The inductive invariant. *)

\* The variants are those of well-formed copy, adapted to every placement.
VariantFits(v) ==
  /\ DOMAIN v.copy = CopyFields
  /\ v.platformAdaptations \in Seq(Range(v.platformAdaptations)) /\ Len(v.platformAdaptations) = Len(specs)
  /\ \A i \in DOMAIN specs :
       v.platformAdaptations[i].placement = specs[i].placement /\ AdaptationFits(v.platformAdaptations[i])
VariantsFit == variants \in Seq(Range(variants)) /\ \A v \in Range(variants) : VariantFits(v)

\* The images are a list.
AssetsTyped == shoot.images \in Seq(Range(shoot.images))

\* A report is what the gates say now of an adaptation.
ReportsFit ==
  \A i \in DOMAIN reports :
    reports[i] = Report(reports[i].adaptation) /\ AdaptationFits(reports[i].adaptation)

\* Before the gates there is no report, and what a report is about stays after them.
IInv ==
  /\ order \in Orders
  /\ SpecsTyped
  /\ stage = "specs" => variants = <<>> /\ shoot = Nothing /\ video = None
  /\ stage \in {"specs", "copy", "images", "video", "gates"} => reports = <<>>
  /\ VariantsFit
  /\ AssetsTyped
  /\ ReportsFit

\* The invariant holds before the first node runs.
LEMMA InvAtFirst == Init => IInv
<1> SUFFICES ASSUME Init PROVE IInv
  OBVIOUS
<1>1. /\ order \in Orders /\ specs = <<>> /\ variants = <<>> /\ reports = <<>> /\ shoot = Nothing /\ video = None
  BY DEF Init
<1>2. <<>> \in Seq(Range(<<>>)) /\ Range(<<>>) = {} /\ <<>> \in Seq(Range(AllSpecs)) /\ DOMAIN <<>> = {}
  BY EmptySeq DEF Range
<1>3. shoot.images = <<>>
  BY <1>1 DEF Nothing
<1> QED BY <1>1, <1>2, <1>3 DEF IInv, SpecsTyped, VariantsFit, AssetsTyped, ReportsFit

\* What the variants are depends on the specifications only.
LEMMA FitsKept ==
  ASSUME UNCHANGED <<order, specs>>
  PROVE  /\ \A a : AdaptationFits(a)' <=> AdaptationFits(a)
         /\ UNCHANGED <<shoot, video>> => \A a : Report(a)' = Report(a)
BY DEF AdaptationFits, Limits, TargetPlacements, Report, TargetPlatforms, Assets, Made, SpecOf

\* Variants stay adapted while the specifications stay.
LEMMA VariantsKept ==
  ASSUME VariantsFit, UNCHANGED <<order, specs, variants>>
  PROVE  VariantsFit'
BY FitsKept DEF VariantsFit, VariantFits

\* The images stay a list.
LEMMA AssetsKept ==
  ASSUME AssetsTyped, UNCHANGED shoot
  PROVE  AssetsTyped'
BY DEF AssetsTyped

\* Reports stay what the gates say while nothing they read changes.
LEMMA ReportsKept ==
  ASSUME ReportsFit, UNCHANGED <<order, specs, shoot, video, reports>>
  PROVE  ReportsFit'
BY FitsKept DEF ReportsFit

\* Specifications stay those of the registry.
LEMMA SpecsKept ==
  ASSUME SpecsTyped, UNCHANGED specs
  PROVE  SpecsTyped'
BY DEF SpecsTyped

\* Without a report there is nothing to say.
LEMMA NoReports == reports = <<>> => ReportsFit
BY DEF ReportsFit

\* Looking up the specifications.
LEMMA ResolveKeeps ==
  ASSUME IInv, ResolveSpecs
  PROVE  IInv'
<1>1. /\ stage = "specs" /\ UNCHANGED <<order, variants, shoot, aborted, video, reports, links, pack>>
      /\ order \in Orders /\ variants = <<>> /\ shoot = Nothing /\ video = None /\ reports = <<>>
      /\ stage' \in {"failed", "copy"}
  BY DEF ResolveSpecs, IInv, Fail, GoOn
<1>2. SpecsTyped'
  <2> DEFINE r == PlatformSpecs(order.platforms, order.placements)
  <2>1. IF r.status = "error" THEN UNCHANGED specs ELSE specs' = r.specs
    BY DEF ResolveSpecs, Fail, GoOn
  <2>2. CASE order.platforms = None
    <3>1. r.status = "error"
      BY <2>2 DEF PlatformSpecs
    <3> QED BY <2>1, <3>1 DEF IInv, SpecsTyped
  <2>3. CASE order.platforms # None
    <3>1. r.status # "error" /\ r.specs = GetSpecSet(order.platforms, order.placements)
      BY <2>3 DEF PlatformSpecs
    <3>2. order.platforms \in Seq(Range(order.platforms))
          /\ (order.placements = None \/ order.placements \in Seq(Range(order.placements)))
      BY <1>1, <2>3, OrdersAssumption
    <3>3. GetSpecSet(order.platforms, order.placements) \in Seq(Range(AllSpecs))
      BY <3>2, SpecSetTyped
    <3> QED BY <2>1, <3>1, <3>3 DEF SpecsTyped
  <2> QED BY <2>2, <2>3
<1>3. variants' = <<>> /\ shoot' = Nothing /\ video' = None /\ reports' = <<>> /\ order' \in Orders
  BY <1>1
<1>4. <<>> \in Seq(Range(<<>>)) /\ Range(<<>>) = {}
  BY EmptySeq DEF Range
<1>5. VariantsFit'
  BY <1>3, <1>4 DEF VariantsFit
<1>6. AssetsTyped'
  <2>1. shoot'.images = <<>>
    BY <1>3 DEF Nothing
  <2> QED BY <1>3, <1>4, <2>1 DEF AssetsTyped
<1>7. ReportsFit'
  BY <1>3 DEF ReportsFit
<1> QED BY <1>1, <1>2, <1>3, <1>5, <1>6, <1>7 DEF IInv

\* Copy is adapted to every placement in turn.
LEMMA AdaptedFits ==
  ASSUME SpecsTyped, NEW copy, IsCopy(copy), NEW shown, DOMAIN shown = CopyFields
  PROVE  VariantFits(Variant(copy, shown))
<1> DEFINE list == Adapted(copy)
<1>1. DOMAIN specs = 1..Len(specs) /\ Len(specs) \in Nat
  BY DEF SpecsTyped
<1>2. DOMAIN TargetPlacements = DOMAIN specs /\ \A i \in DOMAIN specs : TargetPlacements[i] = specs[i].placement
  BY DEF TargetPlacements
<1>3. list = [i \in 1..Len(specs) |-> Adapt(copy, specs[i].placement)]
  BY <1>1, <1>2 DEF Adapted
<1>4. \A i \in DOMAIN specs : specs[i].placement \in DOMAIN Limits
  BY DEF Limits
<1>5. \A p : Adapt(copy, p).placement = p
  BY DEF Adapt
<1>6. \A i \in DOMAIN specs : AdaptationFits(Adapt(copy, specs[i].placement))
  BY <1>4, AdaptFits
<1> HIDE DEF list
<1>7. DOMAIN list = 1..Len(specs) /\ list = [i \in 1..Len(specs) |-> list[i]]
      /\ \A i \in 1..Len(specs) : list[i] = Adapt(copy, specs[i].placement)
  BY <1>3
<1>8. list \in Seq(Range(list))
  BY <1>1, <1>7, IntervalIsSeq
<1>9. Len(list) = Len(specs)
  BY <1>1, <1>7, <1>8
<1>10. Variant(copy, shown).copy = shown /\ Variant(copy, shown).platformAdaptations = list
  BY DEF Variant, list
<1> QED BY <1>1, <1>5, <1>6, <1>7, <1>8, <1>9, <1>10 DEF VariantFits

\* Variants from an answer of the model.
LEMMA ParseFits ==
  ASSUME SpecsTyped, NEW n \in 1..10, NEW reply \in CopyReplies(n), ~Unusable(reply)
  PROVE  /\ ParseVariants(reply) \in Seq(Range(ParseVariants(reply)))
         /\ \A v \in Range(ParseVariants(reply)) : VariantFits(v)
<1> DEFINE parsed == ParseVariants(reply)
<1>1. \/ reply.kind = "empty array"
      \/ /\ reply.kind = "prose" /\ reply.lines \in Seq(Range(reply.lines)) /\ reply.lines # <<>>
         /\ \A line \in Range(reply.lines) : IsText(line)
      \/ /\ reply.kind = "items" /\ reply.items \in Seq(Range(reply.items))
         /\ \A item \in Range(reply.items) : IsCopy(item)
  BY RepliesAssumption
<1>2. ASSUME NEW lines, lines \in Seq(Range(lines)), lines # <<>>, \A line \in Range(lines) : IsText(line)
      PROVE  /\ FallbackParse(lines) \in Seq(Range(FallbackParse(lines)))
             /\ \A v \in Range(FallbackParse(lines)) : VariantFits(v)
  <2> DEFINE copy == [headline |-> lines[1], description |-> IF Len(lines) > 1 THEN lines[2] ELSE None,
                      bodyText |-> None, ctaText |-> None]
             shown == [copy EXCEPT !.headline = CutAt(lines[1], Least(lines[1].len, 40))]
             v == Variant(copy, shown)
  <2>1. FallbackParse(lines) = <<v>>
    BY DEF FallbackParse
  <2>2. IsText(lines[1]) /\ (Len(lines) > 1 => IsText(lines[2]))
    <3>1. \A i \in 1..Len(lines) : lines[i] \in Range(lines)
      BY DEF Range
    <3>2. Len(lines) \in Nat /\ Len(lines) # 0
      BY <1>2
    <3> QED BY <1>2, <3>1, <3>2
  <2>3. DOMAIN copy = CopyFields /\ DOMAIN shown = CopyFields
    BY DEF CopyFields
  <2>4. IsCopy(copy)
    <3>1. copy = [f \in CopyFields |-> copy[f]]
      BY <2>3
    <3>2. \A f \in CopyFields : copy[f] = None \/ IsText(copy[f])
      BY <2>2 DEF CopyFields
    <3> HIDE DEF copy
    <3> QED BY <3>1, <3>2 DEF IsCopy
  <2> HIDE DEF copy, shown
  <2>5. VariantFits(v)
    BY <2>3, <2>4, AdaptedFits
  <2> HIDE DEF v
  <2>6. Range(<<v>>) = {v} /\ <<v>> \in Seq({v})
    BY DEF Range
  <2> QED BY <2>1, <2>5, <2>6
<1>3. CASE reply.kind = "items"
  <2> DEFINE items == reply.items
             AsVariant(item) == Variant(item, [item EXCEPT !.headline = IF @ = None THEN Text(0) ELSE @])
  <2>1. items \in Seq(Range(items)) /\ \A item \in Range(items) : IsCopy(item)
    BY <1>1, <1>3
  <2>2. parsed = [i \in DOMAIN items |-> AsVariant(items[i])]
    BY <1>3 DEF ParseVariants
  <2>3. \A item \in Range(items) : VariantFits(AsVariant(item))
    <3>1. ASSUME NEW item \in Range(items)
          PROVE  DOMAIN [item EXCEPT !.headline = IF @ = None THEN Text(0) ELSE @] = CopyFields
      <4>1. DOMAIN item = CopyFields
        BY <2>1 DEF IsCopy
      <4> QED BY <4>1
    <3> QED BY <2>1, <3>1, AdaptedFits
  <2>4. DOMAIN items = 1..Len(items) /\ Len(items) \in Nat /\ \A i \in DOMAIN items : items[i] \in Range(items)
    <3> HIDE DEF items
    <3> QED BY <2>1 DEF Range
  <2> HIDE DEF items, AsVariant, parsed
  <2>5. DOMAIN parsed = 1..Len(items) /\ parsed = [i \in 1..Len(items) |-> parsed[i]]
        /\ \A i \in 1..Len(items) : VariantFits(parsed[i])
    BY <2>2, <2>3, <2>4
  <2>6. parsed \in Seq(Range(parsed))
    BY <2>4, <2>5, IntervalIsSeq
  <2>7. \A v \in Range(parsed) : VariantFits(v)
    BY <2>5 DEF Range
  <2> QED BY <2>6, <2>7 DEF parsed
<1>4. CASE reply.kind = "prose"
  <2>1. parsed = FallbackParse(reply.lines)
    BY <1>4 DEF ParseVariants
  <2> QED BY <1>1, <1>2, <1>4, <2>1
<1>5. CASE reply.kind = "empty array"
  <2>1. parsed = FallbackParse(<<Text(2)>>)
    BY <1>5 DEF ParseVariants
  <2> DEFINE two == Text(2)
  <2>2. IsText(two)
    BY DEF IsText, Text
  <2> HIDE DEF two
  <2>3. <<two>> \in Seq(Range(<<two>>)) /\ Range(<<two>>) = {two} /\ <<two>> # <<>>
    BY DEF Range
  <2>4. /\ FallbackParse(<<two>>) \in Seq(Range(FallbackParse(<<two>>)))
        /\ \A v \in Range(FallbackParse(<<two>>)) : VariantFits(v)
    BY <1>2, <2>2, <2>3
  <2> QED BY <2>1, <2>4 DEF two
<1> QED BY <1>1, <1>3, <1>4, <1>5

\* The numbers of variants and of images asked for are within what the nodes allow.
LEMMA CountsTyped ==
  ASSUME order \in Orders
  PROVE  VariantCount(order.variantCount) \in 1..10 /\ CountPerPrompt \in 1..8
<1>1. {order.variantCount, order.count} \subseteq Nat \cup {None}
  BY OrdersAssumption
<1> QED BY <1>1 DEF VariantCount, CountPerPrompt, Least, Most

\* Writing the copy.
LEMMA CopyKeeps ==
  ASSUME IInv, NEW reply \in CopyReplies(VariantCount(order.variantCount)), CopyGenerate(reply)
  PROVE  IInv'
<1>1. /\ stage = "copy" /\ stage' \in {"failed", "images"}
      /\ UNCHANGED <<order, specs, shoot, aborted, video, reports, links, pack>>
      /\ IF Unusable(reply) THEN UNCHANGED variants ELSE variants' = ParseVariants(reply)
  BY DEF CopyGenerate, Fail, GoOn
<1>2. order \in Orders /\ SpecsTyped /\ reports = <<>> /\ AssetsTyped /\ VariantsFit
  BY <1>1 DEF IInv
<1>3. VariantsFit'
  <2>1. CASE Unusable(reply)
    BY <1>1, <1>2, <2>1, VariantsKept
  <2>2. CASE ~Unusable(reply)
    <3>1. VariantCount(order.variantCount) \in 1..10
      BY <1>2, CountsTyped
    <3>2. /\ ParseVariants(reply) \in Seq(Range(ParseVariants(reply)))
          /\ \A v \in Range(ParseVariants(reply)) : VariantFits(v)
      BY <1>2, <2>2, <3>1, ParseFits
    <3>3. \A v : VariantFits(v)' <=> VariantFits(v)
      BY <1>1, FitsKept DEF VariantFits
    <3> QED BY <1>1, <2>2, <3>2, <3>3 DEF VariantsFit
  <2> QED BY <2>1, <2>2
<1>4. SpecsTyped' /\ AssetsTyped' /\ reports' = <<>> /\ order' \in Orders
  BY <1>1, <1>2, SpecsKept, AssetsKept
<1>5. ReportsFit'
  BY <1>4 DEF ReportsFit
<1> QED BY <1>1, <1>3, <1>4, <1>5 DEF IInv

\* A call of the image node.
LEMMA ShootKeeps ==
  ASSUME IInv, NEW reply \in ImageReplies(CountPerPrompt), ShootNext(reply)
  PROVE  IInv'
<1>1. /\ stage = "images" /\ stage' \in {"failed", "images"}
      /\ UNCHANGED <<order, specs, variants, aborted, video, reports, links, pack>>
  BY DEF ShootNext, ImageCallFails, ImageCallAnswers, Fail
<1>2. order \in Orders /\ SpecsTyped /\ reports = <<>> /\ AssetsTyped /\ VariantsFit
  BY <1>1 DEF IInv
<1>3. AssetsTyped'
  <2>1. CASE reply.thrown # None
    <3>1. UNCHANGED shoot
      BY <2>1 DEF ShootNext, ImageCallFails
    <3> QED BY <1>1, <1>2, <3>1, AssetsKept
  <2>2. CASE reply.thrown = None
    <3> DEFINE dimensions == ImageDimensions(FirstSpec, order.ratio, MaxDimension)
               n == Len(shoot.stats)
               I == {i \in DOMAIN reply.images : reply.images[i] # None}
               images == KeptAt(reply.images, I)
               more == [j \in DOMAIN images |-> ImageAsset(images[j], dimensions, n)]
    <3>1. Only(reply.images, LAMBDA image : image # None) = images
      BY DEF Only, KeptAt
    <3>2. shoot'.images = shoot.images \o more
      <4> DEFINE kept == Only(reply.images, LAMBDA image : image # None)
      <4>1. ImageCallAnswers(reply)
        BY <2>2 DEF ShootNext
      <4>2. shoot'.images = shoot.images \o [j \in DOMAIN kept |-> ImageAsset(kept[j], dimensions, n)]
        <5>1. \A a, b, c : [images |-> a, stats |-> b, filtered |-> c].images = a
          OBVIOUS
        <5> HIDE DEF kept
        <5>2. PICK a, b, c : shoot' = [images |-> a, stats |-> b, filtered |-> c]
                  /\ a = shoot.images \o [j \in DOMAIN kept |-> ImageAsset(kept[j], dimensions, n)]
          BY <4>1, Zenon DEF ImageCallAnswers, kept
        <5> QED BY <5>1, <5>2
      <4>3. kept = images
        BY <3>1
      <4> HIDE DEF kept, images
      <4> QED BY <4>2, <4>3
    <3>3. images \in Seq(Range(reply.images))
      <4>1. CountPerPrompt \in 1..8
        BY <1>2, CountsTyped
      <4>2. reply.images \in Seq(Range(reply.images))
        BY <2>2, <4>1, ImagesAssumption
      <4> HIDE DEF I
      <4> QED BY <4>2, KeptRange
    <3>5. DOMAIN images = 1..Len(images) /\ Len(images) \in Nat
      <4> HIDE DEF images
      <4> QED BY <3>3
    <3> HIDE DEF images, dimensions, n
    <3>6. DOMAIN more = 1..Len(images) /\ more = [i \in 1..Len(images) |-> more[i]]
      BY <3>5
    <3> HIDE DEF more
    <3>7. more \in Seq(Range(more))
      BY <3>5, <3>6, IntervalIsSeq
    <3> DEFINE all == shoot.images \o more
    <3>8. all \in Seq(Range(all))
      BY <1>2, <3>7, ConcatRange DEF AssetsTyped
    <3>9. shoot'.images = all
      BY <3>2
    <3> HIDE DEF all
    <3> QED BY <3>8, <3>9 DEF AssetsTyped
  <2> QED BY <2>1, <2>2
<1>4. SpecsTyped' /\ VariantsFit' /\ reports' = <<>> /\ order' \in Orders
  BY <1>1, <1>2, SpecsKept, VariantsKept
<1>5. ReportsFit'
  BY <1>4 DEF ReportsFit
<1> QED BY <1>1, <1>3, <1>4, <1>5 DEF IInv

\* Making the video.
LEMMA VideoKeeps ==
  ASSUME IInv, NEW reply \in VideoReplies, VideoGenerate(reply)
  PROVE  IInv'
<1>1. /\ stage = "video" /\ stage' \in {"failed", "gates"}
      /\ UNCHANGED <<order, specs, variants, shoot, aborted, reports, links, pack>>
      /\ \/ UNCHANGED video
         \/ video' = VideoAsset(reply, VideoDimensions(FirstSpec, order.ratio), Duration)
  BY DEF VideoGenerate, Fail, GoOn
<1>2. order \in Orders /\ SpecsTyped /\ reports = <<>> /\ AssetsTyped /\ VariantsFit
  BY <1>1 DEF IInv
<1>3. AssetsTyped'
  BY <1>1, <1>2, AssetsKept
<1>4. SpecsTyped' /\ VariantsFit' /\ reports' = <<>> /\ order' \in Orders
  BY <1>1, <1>2, SpecsKept, VariantsKept
<1>5. ReportsFit'
  BY <1>4 DEF ReportsFit
<1> QED BY <1>1, <1>3, <1>4, <1>5 DEF IInv

\* The gates report on the adaptations of the variants.
LEMMA GatesKeep ==
  ASSUME IInv, RunGates
  PROVE  IInv'
<1>1. /\ stage = "gates" /\ stage' = "links"
      /\ UNCHANGED <<order, specs, variants, shoot, aborted, video, links, pack>>
  BY DEF RunGates, GoOn
<1>2. order \in Orders /\ SpecsTyped /\ AssetsTyped /\ VariantsFit
  BY DEF IInv
<1> DEFINE T == {Report(a) : a \in UNION {Range(v.platformAdaptations) : v \in Range(variants)}}
           Of(v) == [a \in DOMAIN v.platformAdaptations |-> Report(v.platformAdaptations[a])]
           lists == [v \in DOMAIN variants |-> Of(variants[v])]
<1>3. reports' = FlattenSeq(lists)
  BY DEF RunGates
<1>4. ASSUME NEW v \in Range(variants)
      PROVE  /\ Of(v) \in Seq(T)
             /\ \A r \in Range(Of(v)) : r = Report(r.adaptation) /\ AdaptationFits(r.adaptation)
  <2> DEFINE list == v.platformAdaptations
  <2>1. VariantFits(v)
    BY <1>2 DEF VariantsFit
  <2>2. list \in Seq(Range(list)) /\ DOMAIN list = 1..Len(list) /\ Len(list) \in Nat /\ DOMAIN list = DOMAIN specs
    <3>1. list \in Seq(Range(list)) /\ Len(list) = Len(specs)
      BY <2>1 DEF VariantFits
    <3>2. DOMAIN specs = 1..Len(specs)
      BY <1>2 DEF SpecsTyped
    <3> HIDE DEF list
    <3> QED BY <3>1, <3>2
  <2>3. \A i \in DOMAIN list : Report(list[i]) \in T
    BY DEF Range
  <2>4. \A i \in DOMAIN list : AdaptationFits(list[i])
    BY <2>1, <2>2 DEF VariantFits
  <2>5. \A a : Report(a).adaptation = a
    BY DEF Report
  <2>6. Of(v) = [i \in DOMAIN list |-> Report(list[i])]
    OBVIOUS
  <2> HIDE DEF list, T, Of
  <2>7. Of(v) \in Seq(T)
    BY <2>2, <2>3, <2>6
  <2>8. \A r \in Range(Of(v)) : \E i \in DOMAIN list : r = Report(list[i])
    BY <2>6 DEF Range
  <2> QED BY <2>4, <2>5, <2>7, <2>8
<1>5. lists \in Seq(Seq(T)) /\ DOMAIN lists = DOMAIN variants /\ \A i \in DOMAIN lists : lists[i] = Of(variants[i])
  <2>1. DOMAIN variants = 1..Len(variants) /\ Len(variants) \in Nat /\ \A i \in DOMAIN variants : variants[i] \in Range(variants)
    BY <1>2 DEF VariantsFit, Range
  <2>2. \A i \in DOMAIN variants : Of(variants[i]) \in Seq(T)
    BY <1>4, <2>1
  <2> HIDE DEF T, Of
  <2> QED BY <2>1, <2>2
<1> HIDE DEF T, Of, lists
<1>6. Range(reports') = UNION {Range(lists[i]) : i \in DOMAIN lists} /\ reports' \in Seq(T)
  BY <1>3, <1>5, FlattenRange
<1>7. \A r \in Range(reports') : r = Report(r.adaptation) /\ AdaptationFits(r.adaptation)
  <2>1. \A i \in DOMAIN lists : variants[i] \in Range(variants)
    BY <1>5 DEF Range
  <2> QED BY <1>4, <1>5, <1>6, <2>1
<1>8. ReportsFit'
  <2>1. \A a : Report(a)' = Report(a) /\ (AdaptationFits(a)' <=> AdaptationFits(a))
    BY <1>1, FitsKept
  <2>2. \A i \in DOMAIN reports' : reports'[i] \in Range(reports')
    BY DEF Range
  <2> QED BY <1>7, <2>1, <2>2 DEF ReportsFit
<1>9. SpecsTyped' /\ VariantsFit' /\ AssetsTyped' /\ order' \in Orders
  BY <1>1, <1>2, SpecsKept, VariantsKept, AssetsKept
<1> QED BY <1>1, <1>8, <1>9 DEF IInv

\* The other steps leave alone what the reports are about.
LEMMA OthersKeep ==
  ASSUME IInv, CopyRefused \/ Abort \/ ShootRefused \/ ShootEnds \/ BuildLinks \/ ExportPack \/ UNCHANGED vars
  PROVE  IInv'
<1>1. /\ UNCHANGED <<order, specs, variants, shoot, video, reports>>
      /\ \/ UNCHANGED stage
         \/ stage = "copy" /\ stage' = "failed"
         \/ stage = "images" /\ stage' \in {"failed", "video"}
         \/ stage = "links" /\ stage' \in {"failed", "export"}
         \/ stage = "export" /\ stage' \in {"failed", "done"}
  BY DEF CopyRefused, Abort, ShootRefused, ShootEnds, BuildLinks, ExportPack, vars, Fail, GoOn
<1>2. SpecsTyped' /\ VariantsFit' /\ AssetsTyped' /\ ReportsFit'
  BY <1>1, SpecsKept, VariantsKept, AssetsKept, ReportsKept DEF IInv
<1> QED BY <1>1, <1>2 DEF IInv

\* Every step keeps the invariant.
LEMMA InvIsKept == IInv /\ [Next]_vars => IInv'
<1> SUFFICES ASSUME IInv, [Next]_vars PROVE IInv'
  OBVIOUS
<1> QED BY ResolveKeeps, CopyKeeps, ShootKeeps, VideoKeeps, GatesKeep, OthersKeep DEF Next

\* In every reachable state each report is what the gates say of an adaptation that fits
\* its placement.
THEOREM StudioInvariant == Spec => []IInv
<1> QED BY InvAtFirst, InvIsKept, PTL DEF Spec

-----------------------------------------------------------------------------
(* What the reports say. *)

\* What the text rules say of an adaptation, and what its length checks say.
RuleHits(a) == Hits(Policy!Says(a.copy), TargetPlatforms, AllRules(order.rules))
LengthChecks(a) == Range(Creative!CheckTextLengths(a.copy, Limits[a.placement]))

\* The assets are a list: those of the campaign, the images and the video.
LEMMA AssetsListed ==
  ASSUME order \in Orders, AssetsTyped
  PROVE  Assets \in Seq(Range(Assets))
<1> DEFINE more == IF video = None THEN <<>> ELSE <<video>>
           made == shoot.images \o more
           own == order.assets
<1>1. more \in Seq(Range(more))
  <2>1. Range(<<>>) = {} /\ \A x : Range(<<x>>) = {x}
    BY DEF Range
  <2>2. <<>> \in Seq({}) /\ <<video>> \in Seq({video})
    BY EmptySeq
  <2> QED BY <2>1, <2>2
<1>2. Assets = own \o made /\ own \in Seq(Range(own))
  BY OrdersAssumption DEF Assets, Made
<1> HIDE DEF more, own
<1>3. made \in Seq(Range(made))
  BY <1>1, ConcatRange DEF AssetsTyped
<1> HIDE DEF made
<1>4. own \o made \in Seq(Range(own \o made))
  BY <1>2, <1>3, ConcatRange
<1> QED BY <1>2, <1>4

\* A report says compliant when no text rule of weight is hit and no field is out of its
\* limits; its violations are those of the rules, of the assets and of the lengths, which
\* their ids tell apart.
LEMMA ReportSays ==
  ASSUME IInv, NEW i \in DOMAIN reports, NEW a, a = reports[i].adaptation
  PROVE  /\ reports[i].policy.isCompliant
              <=> (\A c \in RuleHits(a) : c.status # "fail") /\ OutOfLimits(a.copy, Limits[a.placement]) = {}
         /\ \A c : c \in Range(reports[i].creative.violations)
                    <=> (c \in RuleHits(a) \/ c \in AssetChecks(Assets, SpecOf) \/ c \in LengthChecks(a)) /\ c.status = "fail"
         /\ \A c \in RuleHits(a) : c.rule \notin AssetRules \cup {"format-text"}
         /\ \A c \in AssetChecks(Assets, SpecOf) : c.rule \in AssetRules
         /\ \A c \in LengthChecks(a) : c.rule = "format-text"
         /\ (\A c \in LengthChecks(a) : c.status # "fail") <=> OutOfLimits(a.copy, Limits[a.placement]) = {}
<1>1. reports[i] = Report(a) /\ AdaptationFits(a)
  BY DEF IInv, ReportsFit
<1>2. a.placement \in DOMAIN Limits /\ \A f \in CopyFields : a.copy[f] = None \/ a.copy[f].len \in Nat
  BY <1>1 DEF AdaptationFits, Fits, IsText
<1>3. order.rules \in Seq(Range(order.rules))
      /\ \A rule \in Range(order.rules) : rule.id \notin AssetRules \cup {"format-text"}
  BY OrdersAssumption DEF IInv
<1>4. Assets \in Seq(Range(Assets))
  BY AssetsListed DEF IInv
<1>5. /\ reports[i].policy = Policy!PolicyCheck(a.copy, TargetPlatforms, <<a.placement>>, order.rules, Limits, <<>>)
      /\ reports[i].creative
           = Creative!CreativeValidate(a.copy, Assets, TargetPlatforms, <<a.placement>>, order.rules, SpecOf, Limits)
  BY <1>1 DEF Report
<1>6. reports[i].policy.isCompliant
        <=> (\A c \in RuleHits(a) : c.status # "fail") /\ OutOfLimits(a.copy, Limits[a.placement]) = {}
  <2>1. Policy!PolicyCheck(a.copy, TargetPlatforms, <<a.placement>>, order.rules, Limits, <<>>).isCompliant
        <=> (\A c \in RuleHits(a) : c.status # "fail") /\ OutOfLimits(a.copy, Limits[a.placement]) = {}
    BY <1>2, <1>3, PolicyGate DEF RuleHits
  <2> QED BY <1>5, <2>1
<1>7. \A c : c \in Range(reports[i].creative.violations)
               <=> (c \in RuleHits(a) \/ c \in AssetChecks(Assets, SpecOf) \/ c \in LengthChecks(a)) /\ c.status = "fail"
  <2> DEFINE V == Creative!CreativeValidate(a.copy, Assets, TargetPlatforms, <<a.placement>>, order.rules, SpecOf, Limits).violations
  <2>1. \A c : c \in Range(V)
               <=> (c \in RuleHits(a) \/ c \in AssetChecks(Assets, SpecOf) \/ c \in LengthChecks(a)) /\ c.status = "fail"
    <3> DEFINE assets == Assets
               spec == SpecOf
               copy == a.copy
               limits == Limits
               platforms == TargetPlatforms
               custom == order.rules
               p == a.placement
    <3>1. /\ \A f \in CopyFields : copy[f] = None \/ copy[f].len \in Nat
          /\ assets \in Seq(Range(assets)) /\ custom \in Seq(Range(custom)) /\ p \in DOMAIN limits
      BY <1>2, <1>3, <1>4
    <3> HIDE DEF V, assets, spec, copy, limits, platforms, custom, p
    <3>2. V = Creative!CreativeValidate(copy, assets, platforms, <<p>>, custom, spec, limits).violations
      BY Zenon DEF V, assets, spec, copy, limits, platforms, custom, p
    <3>3. /\ RuleHits(a) = Hits(Policy!Says(copy), platforms, AllRules(custom))
          /\ AssetChecks(Assets, SpecOf) = AssetChecks(assets, spec)
          /\ LengthChecks(a) = Range(Creative!CheckTextLengths(copy, limits[p]))
      BY Zenon DEF RuleHits, LengthChecks, assets, spec, copy, limits, platforms, custom, p
    <3>4. \A c : c \in Range(Creative!CreativeValidate(copy, assets, platforms, <<p>>, custom, spec, limits).violations)
                <=> /\ \/ c \in Hits(Policy!Says(copy), platforms, AllRules(custom))
                       \/ c \in AssetChecks(assets, spec)
                       \/ c \in Range(Creative!CheckTextLengths(copy, limits[p]))
                    /\ c.status = "fail"
      BY <3>1, CreativeGate
    <3> QED BY <3>2, <3>3, <3>4
  <2>2. reports[i].creative.violations = V
    BY <1>5
  <2> HIDE DEF V
  <2> QED BY <2>1, <2>2
<1>8. \A c \in RuleHits(a) : c.rule \notin AssetRules \cup {"format-text"}
  <2>1. \A r \in Range(AllRules(order.rules)) : r.id \notin AssetRules \cup {"format-text"}
    BY <1>3, AllRulesTyped, BuiltIn
  <2>2. \A r : Flag(r).rule = r.id
    BY DEF Flag
  <2>3. \A c \in RuleHits(a) : \E r \in Range(AllRules(order.rules)) : c = Flag(r)
    BY DEF RuleHits, Hits
  <2> QED BY <2>1, <2>2, <2>3
<1>9. \A c \in AssetChecks(Assets, SpecOf) : c.rule \in AssetRules
  BY AssetFlags DEF AssetChecks
<1>10. /\ \A c \in LengthChecks(a) : c.rule = "format-text"
       /\ (\A c \in LengthChecks(a) : c.status # "fail") <=> OutOfLimits(a.copy, Limits[a.placement]) = {}
  BY <1>2, CreativeLengths DEF LengthChecks
<1> QED BY <1>6, <1>7, <1>8, <1>9, <1>10

\* The two gates agree on every adaptation.
LEMMA GatesAgreeNow == IInv => GatesAgree
<1> SUFFICES ASSUME IInv, NEW i \in DOMAIN reports
             PROVE  reports[i].policy.isCompliant
                      <=> \A c \in Range(reports[i].creative.violations) : c.rule \in AssetRules
  BY DEF GatesAgree
<1> DEFINE a == reports[i].adaptation
           R == RuleHits(a)
           A == AssetChecks(Assets, SpecOf)
           L == LengthChecks(a)
           V == Range(reports[i].creative.violations)
<1>1. /\ reports[i].policy.isCompliant <=> (\A c \in R : c.status # "fail") /\ (\A c \in L : c.status # "fail")
      /\ \A c : c \in V <=> (c \in R \/ c \in A \/ c \in L) /\ c.status = "fail"
      /\ \A c \in R : c.rule \notin AssetRules
      /\ \A c \in A : c.rule \in AssetRules
      /\ \A c \in L : c.rule = "format-text"
  BY ReportSays
<1>2. "format-text" \notin AssetRules
  BY DEF AssetRules
<1> HIDE DEF a, R, A, L, V
<1>3. (\A c \in V : c.rule \in AssetRules) <=> (\A c \in R : c.status # "fail") /\ (\A c \in L : c.status # "fail")
  BY <1>1, <1>2
<1> QED BY <1>1, <1>3 DEF V

\* What fails the length check of a gate is empty.
LEMMA CopyFitsNow == IInv => CopyFitsItsPlacement
<1> SUFFICES ASSUME IInv, NEW i \in Violations({"format-text"})
             PROVE  \E f \in DOMAIN reports[i].adaptation.copy : reports[i].adaptation.copy[f] = Text(0)
  BY DEF CopyFitsItsPlacement
<1> DEFINE a == reports[i].adaptation
<1>1. i \in DOMAIN reports /\ \E c \in Range(reports[i].creative.violations) : c.rule = "format-text"
  BY DEF Violations
<1>2. PICK c \in Range(reports[i].creative.violations) : c.rule = "format-text"
  BY <1>1
<1>3. c \in LengthChecks(a) /\ c.status = "fail"
  <2>1. "format-text" \notin AssetRules
    BY DEF AssetRules
  <2> QED BY <1>1, <1>2, <2>1, ReportSays
<1>4. OutOfLimits(a.copy, Limits[a.placement]) # {}
  BY <1>1, <1>3, ReportSays
<1>5. a.placement \in DOMAIN Limits /\ Fits(a.copy, Limits[a.placement])
  BY <1>1 DEF IInv, ReportsFit, AdaptationFits
<1>6. GoodLimits(Limits[a.placement])
  BY <1>5, LimitsGoodNow DEF IInv
<1> HIDE DEF a
<1>7. PICK f \in CopyFields \cap DOMAIN Limits[a.placement] :
        /\ a.copy[f] # None
        /\ \/ Limits[a.placement][f].min # None /\ a.copy[f].len < Limits[a.placement][f].min
           \/ a.copy[f].len > Limits[a.placement][f].max
  BY <1>4 DEF OutOfLimits
<1>8. IsText(a.copy[f]) /\ a.copy[f].len <= Limits[a.placement][f].max /\ f \in DOMAIN a.copy
  BY <1>5, <1>7 DEF Fits
<1>9. Limits[a.placement][f].max \in Nat /\ Limits[a.placement][f].min \in {None, 1}
  BY <1>6, <1>7 DEF GoodLimits, GoodLimit
<1>10. a.copy[f].len = 0
  <2>1. a.copy[f].len \in Nat
    BY <1>8 DEF IsText
  <2> QED BY <1>7, <1>8, <1>9, <2>1
<1>11. a.copy[f] = Text(0)
  BY <1>8, <1>10, EmptyText
<1> QED BY <1>8, <1>11 DEF a

\* The first specification is one of the registry.
LEMMA FirstIsGood ==
  ASSUME IInv, FirstSpec # None
  PROVE  GoodSpec(FirstSpec)
<1>1. specs # <<>> /\ FirstSpec = specs[1]
  BY DEF FirstSpec
<1>2. 1 \in DOMAIN specs /\ specs[1] \in Range(specs) /\ Range(specs) \subseteq Range(AllSpecs)
  BY <1>1 DEF IInv, SpecsTyped, Range
<1> QED BY <1>1, <1>2, AllSpecsPlaced

\* What the nodes ask for suits the first placement.
LEMMA ShotsFitNow == IInv => ShotsFitTheirPlacement
<1> DEFINE m == FirstSpec.imageSpec
           v == FirstSpec.videoSpec
           asked == ImageDimensions(FirstSpec, order.ratio, MaxDimension)
           images ==
             m # None /\ MaxDimension >= Most(m.minWidth, m.minHeight) =>
               \A a \in Range(shoot.images) :
                 a.width = asked.width /\ a.height = asked.height => a.width >= m.minWidth /\ a.height >= m.minHeight
           film ==
             v # None /\ order.duration = v.recommendedDuration /\ video # None /\ video.durationSeconds = Duration =>
               video.durationSeconds \in v.minDuration..v.maxDuration
<1>0. (FirstSpec # None => images /\ film) => ShotsFitTheirPlacement
  BY Zenon DEF ShotsFitTheirPlacement
<1> SUFFICES ASSUME IInv, FirstSpec # None PROVE images /\ film
  BY <1>0
<1>1. GoodImage(m) /\ GoodVideo(v)
  BY FirstIsGood DEF GoodSpec
<1>2. ASSUME m # None, MaxDimension >= Most(m.minWidth, m.minHeight)
      PROVE  asked.width >= m.minWidth /\ asked.height >= m.minHeight
  <2>1. asked = [width |-> Least(m.recommendedWidth, MaxDimension), height |-> Least(m.recommendedHeight, MaxDimension)]
    BY <1>2 DEF ImageDimensions
  <2>2. MaxDimension \in Nat
    <3>1. order.maxDimension \in Nat \cup {None}
      BY OrdersAssumption DEF IInv
    <3> QED BY <3>1 DEF MaxDimension
  <2>3. /\ m.minWidth \in Nat /\ m.minHeight \in Nat /\ m.recommendedWidth \in Nat /\ m.recommendedHeight \in Nat
        /\ m.minWidth <= m.recommendedWidth /\ m.minHeight <= m.recommendedHeight
    BY <1>1, <1>2 DEF GoodImage
  <2>4. asked.width = Least(m.recommendedWidth, MaxDimension) /\ asked.height = Least(m.recommendedHeight, MaxDimension)
    BY <2>1
  <2> HIDE DEF m, asked
  <2> QED BY <1>2, <2>2, <2>3, <2>4 DEF Least, Most
<1>3. ASSUME v # None, order.duration = v.recommendedDuration
      PROVE  Duration \in v.minDuration..v.maxDuration
  <2>1. /\ v.recommendedDuration \in Nat /\ v.minDuration \in Nat /\ v.maxDuration \in Nat
        /\ v.minDuration <= v.recommendedDuration /\ v.recommendedDuration <= v.maxDuration
    BY <1>1, <1>3 DEF GoodVideo
  <2> HIDE DEF v
  <2>2. Duration = v.recommendedDuration
    BY <1>3, <2>1, NoneAssumption DEF Duration
  <2> QED BY <2>1, <2>2
<1> HIDE DEF m, v, asked
<1>4. images
  BY <1>2
<1>5. film
  BY <1>3
<1> QED BY <1>4, <1>5

\* Whatever the campaign and the answers of the model, what fails the length check of a
\* gate is a field left empty: truncation never leaves a text too long for its placement.
THEOREM CopyFits == Spec => []CopyFitsItsPlacement
<1> QED BY StudioInvariant, CopyFitsNow, PTL

\* The copies of the text rules in the two packs never disagree, whatever the custom rules.
THEOREM GatesAgreeAlways == Spec => []GatesAgree
<1> QED BY StudioInvariant, GatesAgreeNow, PTL

\* For every specification, order and answer: an image that came at the size asked for is
\* no smaller than its placement accepts, and a video of the recommended length is of a
\* length it accepts.
THEOREM ShotsFit == Spec => []ShotsFitTheirPlacement
<1> QED BY StudioInvariant, ShotsFitNow, PTL

-----------------------------------------------------------------------------
(* The export. *)

\* Once built, the links are those of the campaign; an export, once made, is what the
\* campaign, its variants, assets and links still say.
LinksNow ==
  [i \in DOMAIN order.platforms |->
     TrackingLink(order.platforms[i], order.campaign, None, order.custom, order.includeClickId)]
Combinations(items) == Total(items, LAMBDA item : Len(item.placements))
PackInv ==
  /\ stage \notin {"specs", "failed"} => order.platforms # None
  /\ stage \in {"export", "done"} => links = LinksNow
  /\ pack # None => /\ stage = "done"
                    /\ pack.rows = CsvRows(Items) /\ pack.combinationCount = Combinations(Items)

\* There is no export at first.
LEMMA PackAtFirst == Init => PackInv
BY DEF Init, PackInv

\* What the export and the links are made of determines them.
LEMMA ExportKept ==
  ASSUME UNCHANGED <<order, specs, variants, shoot, video, links>>
  PROVE  LinksNow' = LinksNow /\ CsvRows(Items)' = CsvRows(Items) /\ Combinations(Items)' = Combinations(Items)
<1>1. LinksNow' = LinksNow
  BY DEF LinksNow
<1>2. Items' = Items
  BY DEF Items, Assets, Made, TargetPlacements
<1>3. CsvRows(Items)' = CsvRows(Items)
  BY <1>2
<1>4. Combinations(Items)' = Combinations(Items)
  BY <1>2
<1> QED BY <1>1, <1>3, <1>4

\* Every step keeps that.
LEMMA PackIsKept == PackInv /\ [Next]_vars => PackInv'
<1> SUFFICES ASSUME PackInv, [Next]_vars PROVE PackInv'
  OBVIOUS
<1> USE DEF PackInv
<1>1. ASSUME ResolveSpecs PROVE PackInv'
  <2>1. /\ stage = "specs" /\ stage' \in {"failed", "copy"} /\ UNCHANGED <<order, pack>>
        /\ stage' = "copy" => order.platforms # None
    BY <1>1 DEF ResolveSpecs, Fail, GoOn, PlatformSpecs
  <2> QED BY <2>1
<1>2. ASSUME CopyRefused \/ ShootRefused PROVE PackInv'
  <2>1. stage \notin {"specs", "failed", "done"} /\ stage' = "failed" /\ UNCHANGED <<order, pack>>
    BY <1>2 DEF CopyRefused, ShootRefused, Fail
  <2> QED BY <2>1
<1>3. ASSUME NEW reply \in CopyReplies(VariantCount(order.variantCount)), CopyGenerate(reply)
      PROVE  PackInv'
  <2>1. stage = "copy" /\ stage' \in {"failed", "images"} /\ UNCHANGED <<order, pack>>
    BY <1>3 DEF CopyGenerate, Fail, GoOn
  <2> QED BY <2>1
<1>4. ASSUME Abort PROVE PackInv'
  <2>1. stage = "images" /\ stage' = "images" /\ UNCHANGED <<order, pack>>
    BY <1>4 DEF Abort
  <2> QED BY <2>1
<1>5. ASSUME NEW reply \in ImageReplies(CountPerPrompt), ShootNext(reply) PROVE PackInv'
  <2>1. stage = "images" /\ stage' \in {"failed", "images"} /\ UNCHANGED <<order, pack>>
    BY <1>5 DEF ShootNext, ImageCallFails, ImageCallAnswers, Fail
  <2> QED BY <2>1
<1>6. ASSUME ShootEnds PROVE PackInv'
  <2>1. stage = "images" /\ stage' = "video" /\ UNCHANGED <<order, pack>>
    BY <1>6 DEF ShootEnds, GoOn
  <2> QED BY <2>1
<1>7. ASSUME NEW reply \in VideoReplies, VideoGenerate(reply) PROVE PackInv'
  <2>1. stage = "video" /\ stage' \in {"failed", "gates"} /\ UNCHANGED <<order, pack>>
    BY <1>7 DEF VideoGenerate, Fail, GoOn
  <2> QED BY <2>1
<1>8. ASSUME RunGates PROVE PackInv'
  <2>1. stage = "gates" /\ stage' = "links" /\ UNCHANGED <<order, pack>>
    BY <1>8 DEF RunGates, GoOn
  <2> QED BY <2>1
<1>9. ASSUME BuildLinks PROVE PackInv'
  <2>1. /\ stage = "links" /\ UNCHANGED <<order, pack>>
        /\ stage' = "failed" \/ (stage' = "export" /\ links' = LinksNow)
    BY <1>9 DEF BuildLinks, Fail, GoOn, LinksNow
  <2>2. LinksNow' = LinksNow
    BY <2>1 DEF LinksNow
  <2> QED BY <2>1, <2>2
<1>10. ASSUME ExportPack PROVE PackInv'
  <2>1. /\ stage = "export" /\ UNCHANGED <<order, specs, variants, shoot, video, links>>
        /\ \/ stage' = "failed" /\ UNCHANGED pack
           \/ stage' = "done" /\ pack'.rows = CsvRows(Items) /\ pack'.combinationCount = Combinations(Items)
    <3>1. /\ stage = "export" /\ UNCHANGED <<order, specs, variants, shoot, video, links>>
          /\ (stage' = "failed" /\ UNCHANGED pack) \/ (stage' = "done" /\ ~UNCHANGED pack) \/ stage' = "done"
      BY <1>10 DEF ExportPack, Fail, GoOn
    <3>2. \A a, b, c, d, e : LET p == [items |-> a, totalAssetSize |-> b, combinationCount |-> c, rows |-> d, manifest |-> e]
                             IN p.rows = d /\ p.combinationCount = c
      OBVIOUS
    <3>3. CASE PackRefused(Items)
      BY <1>10, <3>1, <3>3 DEF ExportPack, Fail
    <3>4. CASE ~PackRefused(Items)
      <4>1. PICK a, b, c, d, e :
              /\ c = Combinations(Items) /\ d = CsvRows(Items)
              /\ pack' = [items |-> a, totalAssetSize |-> b, combinationCount |-> c, rows |-> d, manifest |-> e]
        BY <1>10, <3>4, Zenon DEF ExportPack, Combinations
      <4>2. stage' = "done"
        BY <1>10, <3>4 DEF ExportPack, GoOn
      <4> QED BY <3>1, <3>2, <4>1, <4>2
    <3> QED BY <3>3, <3>4
  <2>2. LinksNow' = LinksNow /\ CsvRows(Items)' = CsvRows(Items) /\ Combinations(Items)' = Combinations(Items)
    BY <2>1, ExportKept
  <2> QED BY <2>1, <2>2
<1>11. ASSUME UNCHANGED vars PROVE PackInv'
  <2>1. UNCHANGED <<order, stage, specs, variants, shoot, video, links, pack>>
    BY <1>11 DEF vars
  <2>2. LinksNow' = LinksNow /\ CsvRows(Items)' = CsvRows(Items) /\ Combinations(Items)' = Combinations(Items)
    BY <2>1, ExportKept
  <2> QED BY <2>1, <2>2
<1> QED BY <1>1, <1>2, <1>3, <1>4, <1>5, <1>6, <1>7, <1>8, <1>9, <1>10, <1>11 DEF Next

\* The export and the links are those of the campaign as it is.
THEOREM PackInvariant == Spec => []PackInv
<1> QED BY PackAtFirst, PackIsKept, PTL DEF Spec

\* The link of a platform the campaign names tells its clicks.
LEMMA LinkFound ==
  ASSUME IInv, stage # "specs", order.platforms # None, links = LinksNow,
         NEW item, item.trackingLinks = links,
         NEW p, p[1] \in Range(order.platforms), p[1] \in DOMAIN ClickIdParams
  PROVE  /\ LinkOf(item, p) \in Range(links) /\ LinkOf(item, p).platform = p[1]
         /\ order.includeClickId => ClickIdParams[p[1]] \in DOMAIN LinkOf(item, p).params
<1> DEFINE at == {i \in DOMAIN links : links[i].platform = p[1]}
           Link(i) == TrackingLink(order.platforms[i], order.campaign, None, order.custom, order.includeClickId)
<1>1. DOMAIN links = DOMAIN order.platforms /\ \A i \in DOMAIN links : links[i] = Link(i)
  BY DEF LinksNow
<1>2. order.platforms \in Seq(Range(order.platforms))
  BY OrdersAssumption DEF IInv
<1>3. DOMAIN links \subseteq Nat
  BY <1>1, <1>2
<1>4. \A i : Link(i).platform = order.platforms[i]
  BY DEF TrackingLink
<1> HIDE DEF Link
<1>5. at # {} /\ at \in SUBSET Nat
  BY <1>1, <1>3, <1>4 DEF Range
<1> HIDE DEF at
<1>6. PICK n \in at : \A m \in at : n <= m
  BY <1>5, NatLeast
<1> DEFINE k == CHOOSE i \in at : \A j \in at : i <= j
<1>7. k \in at
  BY <1>6
<1>8. LinkOf(item, p) = links[k]
  BY <1>5 DEF LinkOf, FirstOf, at
<1> HIDE DEF k
<1>9. k \in DOMAIN links /\ links[k].platform = p[1] /\ order.platforms[k] = p[1] /\ links[k] = Link(k)
  BY <1>1, <1>4, <1>7 DEF at
<1>10. order.includeClickId => ClickIdParams[p[1]] \in DOMAIN links[k].params
  <2> SUFFICES ASSUME order.includeClickId PROVE ClickIdParams[p[1]] \in DOMAIN Link(k).params
    BY <1>9
  <2> DEFINE utm == BuildUTMParams(order.platforms[k], order.campaign, None)
             id == Lookup(ClickIdParams, order.platforms[k])
             first == <<<<"utm_source", utm.source>>, <<"utm_medium", utm.medium>>, <<"utm_campaign", utm.campaign>>>>
             pair == <<id, Lookup(ClickIdMacros, order.platforms[k])>>
             more == [i \in DOMAIN order.custom |-> <<Sanitized[order.custom[i][1]], order.custom[i][2]>>]
             pairs == first \o <<>> \o <<pair>> \o <<>> \o more
  <2>1. id = ClickIdParams[p[1]] /\ id # None
    <3>1. ClickIdParams[p[1]] \in Range(ClickIdParams)
      BY DEF Range
    <3> QED BY <1>9, <3>1, ClickIdsAssumption DEF Lookup
  <2>2. Link(k).params = Params(pairs)
    BY <2>1 DEF Link, TrackingLink
  <2>3. 4 \in DOMAIN pairs /\ pairs[4] = pair
    <3>1. first \in Seq(Range(first)) /\ Len(first) = 3
      <4>1. \A a, b, c : /\ DOMAIN <<a, b, c>> = 1..3 /\ Len(<<a, b, c>>) = 3
                         /\ <<a, b, c>> = [i \in 1..3 |-> <<a, b, c>>[i]]
        OBVIOUS
      <4> DEFINE a == <<"utm_source", utm.source>>
                 b == <<"utm_medium", utm.medium>>
                 c == <<"utm_campaign", utm.campaign>>
      <4> HIDE DEF a, b, c
      <4>2. DOMAIN <<a, b, c>> = 1..3 /\ <<a, b, c>> = [i \in 1..3 |-> <<a, b, c>>[i]] /\ Len(<<a, b, c>>) = 3
        BY <4>1
      <4>3. <<a, b, c>> \in Seq(Range(<<a, b, c>>))
        BY <4>2, IntervalIsSeq
      <4> QED BY <4>2, <4>3 DEF a, b, c
    <3>2. more \in Seq(Range(more))
      <4>1. order.custom \in Seq(Range(order.custom))
        BY OrdersAssumption DEF IInv
      <4>2. DOMAIN order.custom = 1..Len(order.custom) /\ Len(order.custom) \in Nat
        BY <4>1
      <4>3. DOMAIN more = 1..Len(order.custom) /\ more = [i \in 1..Len(order.custom) |-> more[i]]
        BY <4>2
      <4> HIDE DEF more
      <4> QED BY <4>2, <4>3, IntervalIsSeq
    <3> DEFINE S == Range(first) \cup {pair} \cup Range(more)
    <3> HIDE DEF first, pair, more
    <3>3. first \in Seq(S) /\ pair \in S /\ more \in Seq(S)
      <4>1. Range(first) \subseteq S /\ Range(more) \subseteq S /\ pair \in S
        OBVIOUS
      <4> HIDE DEF S
      <4> QED BY <3>1, <3>2, <4>1, SeqMonotonic
    <3> HIDE DEF S
    <3> DEFINE front == first \o <<pair>>
    <3>4. first \o <<>> = first /\ front \o <<>> = front
      <4>1. front \in Seq(S)
        BY <3>3
      <4> HIDE DEF front
      <4> QED BY <3>3, <4>1, ConcatEmptySeq
    <3>5. 4 \in DOMAIN (front \o more) /\ (front \o more)[4] = pair
      <4>1. 4 = Len(first) + 1
        BY <3>1
      <4> QED BY <3>3, <4>1, PlaceAfter
    <3> HIDE DEF front
    <3>6. pairs = front \o more
      BY <3>4 DEF front
    <3> HIDE DEF pairs
    <3> QED BY <3>5, <3>6
  <2>4. id \in DOMAIN Params(pairs)
    <3>1. pair[1] = id
      OBVIOUS
    <3> HIDE DEF pairs, pair
    <3> QED BY <2>3, <3>1 DEF Params
  <2> QED BY <2>1, <2>2, <2>4
<1> QED BY <1>8, <1>9, <1>10 DEF Range

\* The copy exported for a placement is the one adapted to it.
LEMMA CopyFound ==
  ASSUME NEW v, VariantFits(v), DOMAIN specs \subseteq Nat, NEW i \in DOMAIN specs, NEW p, p = specs[i].placement,
         DOMAIN v.platformAdaptations = DOMAIN specs
  PROVE  \E a \in Range(v.platformAdaptations) :
           a.placement = p /\ \A f \in DOMAIN a.copy : a.copy[f] \in {None, CopyOf(v, p)[f]}
<1> DEFINE list == v.platformAdaptations
           at == {j \in DOMAIN list : list[j].placement = p}
<1>1. DOMAIN v.copy = CopyFields
      /\ \A j \in DOMAIN specs : list[j].placement = specs[j].placement /\ AdaptationFits(list[j])
  BY DEF VariantFits
<1>2. at # {} /\ at \in SUBSET Nat
  BY <1>1
<1> HIDE DEF at
<1>3. PICK n \in at : \A m \in at : n <= m
  BY <1>2, NatLeast
<1> DEFINE k == CHOOSE j \in at : \A m \in at : j <= m
<1>4. k \in at
  BY <1>3
<1>5. CopyOf(v, p) = [f \in DOMAIN v.copy |-> IF list[k].copy[f] = None THEN v.copy[f] ELSE list[k].copy[f]]
  <2> DEFINE nothing == [copy |-> [f \in DOMAIN v.copy |-> None]]
             found == FirstOf(list, LAMBDA a : a.placement = p, nothing)
  <2>1. found = list[k]
    <3> HIDE DEF nothing
    <3> QED BY <1>2 DEF FirstOf, at
  <2>2. CopyOf(v, p) = [f \in DOMAIN v.copy |-> IF found.copy[f] = None THEN v.copy[f] ELSE found.copy[f]]
    BY Zenon DEF CopyOf
  <2> HIDE DEF found
  <2> QED BY <2>1, <2>2
<1> HIDE DEF k
<1>6. k \in DOMAIN specs /\ list[k].placement = p
  BY <1>4 DEF at
<1>7. DOMAIN list[k].copy = CopyFields
  <2>1. list[k].copy = [f \in CopyFields |-> list[k].copy[f]]
    BY <1>1, <1>6 DEF AdaptationFits, Fits
  <2> QED BY <2>1
<1>8. list[k] \in Range(list)
  BY <1>6 DEF Range
<1>9. \A f \in DOMAIN list[k].copy : list[k].copy[f] \in {None, CopyOf(v, p)[f]}
  <2> SUFFICES ASSUME NEW f \in DOMAIN list[k].copy, list[k].copy[f] # None
               PROVE  list[k].copy[f] = CopyOf(v, p)[f]
    OBVIOUS
  <2>1. f \in DOMAIN v.copy
    BY <1>1, <1>7
  <2> QED BY <1>5, <2>1
<1> HIDE DEF list
<1> QED BY <1>6, <1>8, <1>9 DEF list

\* The row of the ad of variant i at placement p, and the rows of that ad.
Row(i, p) ==
  [adId |-> i, placement |-> p, copy |-> CopyOf(variants[i], p),
   asset |-> IF Assets = <<>> THEN None ELSE Assets[1], link |-> LinkOf(Items[i], p)]
RowsOf(i) == [k \in DOMAIN TargetPlacements |-> Row(i, TargetPlacements[k])]

\* There is an ad for each variant.
LEMMA ItemsAre ==
  /\ DOMAIN Items = DOMAIN variants
  /\ \A i \in DOMAIN variants :
       /\ Items[i].adId = i /\ Items[i].copyVariants = <<variants[i]>> /\ Items[i].assets = Assets
       /\ Items[i].trackingLinks = links /\ Items[i].placements = TargetPlacements
BY DEF Items

\* The placements are those of the specifications.
LEMMA PlacementsAre ==
  ASSUME SpecsTyped
  PROVE  /\ TargetPlacements \in Seq(Range(TargetPlacements)) /\ Len(TargetPlacements) = Len(specs)
         /\ DOMAIN TargetPlacements = 1..Len(specs) /\ DOMAIN specs = 1..Len(specs) /\ Len(specs) \in Nat
         /\ \A k \in DOMAIN specs : TargetPlacements[k] = specs[k].placement
<1>1. DOMAIN specs = 1..Len(specs) /\ Len(specs) \in Nat
  BY DEF SpecsTyped
<1>2. DOMAIN TargetPlacements = 1..Len(specs) /\ \A k \in DOMAIN specs : TargetPlacements[k] = specs[k].placement
  BY <1>1 DEF TargetPlacements
<1>3. TargetPlacements = [k \in 1..Len(specs) |-> TargetPlacements[k]]
  BY <1>1 DEF TargetPlacements
<1>4. TargetPlacements \in Seq(Range(TargetPlacements))
  BY <1>1, <1>2, <1>3, IntervalIsSeq
<1>5. Len(TargetPlacements) = Len(specs)
  BY <1>1, <1>2, <1>4
<1> QED BY <1>1, <1>2, <1>4, <1>5

\* The rows of the export: for each variant, one at each placement.
LEMMA RowsAre ==
  ASSUME IInv
  PROVE  /\ Len(CsvRows(Items)) = Len(variants) * Len(specs)
         /\ \A r \in Range(CsvRows(Items)) :
              \E i \in DOMAIN variants, k \in DOMAIN specs : r = Row(i, specs[k].placement)
<1> DEFINE rows == [i \in DOMAIN variants |-> RowsOf(i)]
           T == {Row(i, specs[k].placement) : i \in DOMAIN variants, k \in DOMAIN specs}
           n == Len(specs)
           S == {x \in Seq(T) : Len(x) = n}
<1>1. /\ variants \in Seq(Range(variants)) /\ SpecsTyped
      /\ DOMAIN variants = 1..Len(variants) /\ Len(variants) \in Nat
  <2>1. variants \in Seq(Range(variants)) /\ SpecsTyped
    BY DEF IInv, VariantsFit
  <2> QED BY <2>1
<1>2. /\ DOMAIN TargetPlacements = 1..n /\ DOMAIN specs = 1..n /\ n \in Nat
      /\ \A k \in DOMAIN specs : TargetPlacements[k] = specs[k].placement
  BY <1>1, PlacementsAre
<1>3. ASSUME NEW i \in DOMAIN variants
      PROVE  RowsOf(i) \in Seq(T) /\ RowsOf(i) \in S
  <2>1. RowsOf(i) = [k \in 1..n |-> Row(i, specs[k].placement)]
    BY <1>2 DEF RowsOf
  <2>2. \A k \in 1..n : Row(i, specs[k].placement) \in T
    BY <1>2
  <2> HIDE DEF T, n
  <2>3. RowsOf(i) \in Seq(T)
    BY <1>2, <2>1, <2>2
  <2>4. DOMAIN RowsOf(i) = 1..n
    BY <2>1
  <2>5. Len(RowsOf(i)) = n
    BY <1>2, <2>3, <2>4
  <2> QED BY <2>3, <2>5
<1>4. ASSUME NEW i \in DOMAIN variants
      PROVE  FlattenSeq([v \in DOMAIN Items[i].copyVariants |->
               [p \in DOMAIN Items[i].placements |->
                 [adId |-> Items[i].adId, placement |-> Items[i].placements[p],
                  copy |-> CopyOf(Items[i].copyVariants[v], Items[i].placements[p]),
                  asset |-> IF Items[i].assets = <<>> THEN None ELSE Items[i].assets[1],
                  link |-> LinkOf(Items[i], Items[i].placements[p])]]]) = RowsOf(i)
  <2> DEFINE u == [v \in DOMAIN <<variants[i]>> |->
               [p \in DOMAIN TargetPlacements |->
                 [adId |-> i, placement |-> TargetPlacements[p],
                  copy |-> CopyOf(<<variants[i]>>[v], TargetPlacements[p]),
                  asset |-> IF Assets = <<>> THEN None ELSE Assets[1],
                  link |-> LinkOf(Items[i], TargetPlacements[p])]]]
  <2>1. u = <<RowsOf(i)>>
    <3>1. DOMAIN <<variants[i]>> = {1} /\ <<variants[i]>>[1] = variants[i]
      OBVIOUS
    <3>2. DOMAIN u = {1} /\ u[1] = RowsOf(i)
      BY <3>1, Zenon DEF RowsOf, Row
    <3>3. u = [v \in {1} |-> u[v]]
      BY <3>1
    <3> HIDE DEF u
    <3> QED BY <3>2, <3>3
  <2> HIDE DEF u, T
  <2>2. FlattenSeq(u) = RowsOf(i)
    BY <1>3, <2>1, FlattenOne
  <2>3. /\ Items[i].adId = i /\ Items[i].copyVariants = <<variants[i]>> /\ Items[i].assets = Assets
        /\ Items[i].placements = TargetPlacements
    BY ItemsAre
  <2> QED BY <2>2, <2>3, Zenon DEF u
<1>5. CsvRows(Items) = FlattenSeq(rows)
  <2> HIDE DEF T, S
  <2>1. DOMAIN Items = DOMAIN variants
    BY ItemsAre
  <2> QED BY <1>4, <2>1, Zenon DEF CsvRows
<1>6. rows \in Seq(Seq(T)) /\ rows \in Seq(S) /\ DOMAIN rows = DOMAIN variants /\ Len(rows) = Len(variants)
      /\ \A i \in DOMAIN variants : rows[i] = RowsOf(i)
  <2> HIDE DEF T, S
  <2>1. rows \in Seq(Seq(T)) /\ rows \in Seq(S)
    BY <1>1, <1>3
  <2>2. DOMAIN rows = 1..Len(variants) /\ \A i \in DOMAIN variants : rows[i] = RowsOf(i)
    BY <1>1
  <2> HIDE DEF rows
  <2>3. Len(rows) = Len(variants)
    BY <1>1, <2>1, <2>2
  <2> QED BY <1>1, <2>1, <2>2, <2>3
<1> HIDE DEF rows
<1>7. Len(FlattenSeq(rows)) = Len(rows) * n
  <2> HIDE DEF n, T
  <2> QED BY <1>2, <1>6, FlattenLength
<1>8. FlattenSeq(rows) \in Seq(T) /\ Range(FlattenSeq(rows)) = UNION {Range(rows[i]) : i \in DOMAIN rows}
  <2> HIDE DEF T, S
  <2> QED BY <1>6, FlattenRange
<1>9. \A r \in Range(FlattenSeq(rows)) : r \in T
  <2> HIDE DEF T, S
  <2> QED BY <1>8 DEF Range
<1> QED BY <1>5, <1>6, <1>7, <1>9

\* The ads number as many as the rows.
LEMMA CombinationsAre ==
  ASSUME IInv
  PROVE  Combinations(Items) = Len(variants) * Len(specs)
<1> DEFINE N == Len(Items)
           of == [i \in DOMAIN Items |-> Len(Items[i].placements)]
           g == [n \in 0..N |-> n * Len(specs)]
<1>1. variants \in Seq(Range(variants)) /\ SpecsTyped
  BY DEF IInv, VariantsFit
<1>2. DOMAIN variants = 1..Len(variants) /\ Len(variants) \in Nat
  BY <1>1
<1>3. Len(Items) = Len(variants) /\ DOMAIN Items = DOMAIN variants
  <2>1. Items = [i \in 1..Len(variants) |-> Items[i]] /\ DOMAIN Items = 1..Len(variants)
    BY <1>2 DEF Items
  <2>2. Items \in Seq(Range(Items))
    BY <1>2, <2>1, IntervalIsSeq
  <2> QED BY <1>2, <2>1, <2>2
<1>4. Len(specs) \in Nat /\ \A i \in 1..N : of[i] = Len(specs)
  <2>1. \A i \in 1..N : Items[i].placements = TargetPlacements
    BY <1>2, <1>3, ItemsAre
  <2> QED BY <1>1, <2>1, PlacementsAre
<1>5. Combinations(Items) = SumOf(of)
  BY DEF Combinations, Total, Each
<1>6. N \in Nat
  BY <1>2, <1>3
<1>7. of \in Seq(Int) /\ Len(of) = N
  <2>1. \A i \in 1..N : of[i] \in Int
    BY <1>2, <1>3, <1>4
  <2> QED BY <1>2, <1>3, <1>6, <2>1
<1>8. g[0] = 0 /\ \A n \in 1..N : g[n] = g[n - 1] + of[n]
  <2>1. 0 \in 0..N /\ \A n \in 1..N : n \in 0..N /\ n - 1 \in 0..N
    BY <1>6
  <2>2. \A n \in 1..N : n * Len(specs) = (n - 1) * Len(specs) + Len(specs)
    BY <1>4
  <2>3. \A n \in 1..N : of[n] = Len(specs)
    BY <1>2, <1>3, <1>4
  <2>4. g[0] = 0 * Len(specs) /\ \A n \in 1..N : g[n] = n * Len(specs) /\ g[n - 1] = (n - 1) * Len(specs)
    <3> HIDE DEF N
    <3> QED BY <2>1
  <2>5. 0 * Len(specs) = 0
    BY <1>4
  <2> HIDE DEF of, N, g
  <2> QED BY <2>2, <2>3, <2>4, <2>5
<1>9. SumOf(of) = g[Len(of)]
  <2> HIDE DEF of, g, N
  <2> QED BY <1>7, <1>8, SumIs
<1>10. g[N] = N * Len(specs)
  BY <1>6
<1> QED BY <1>3, <1>5, <1>7, <1>9, <1>10

\* Every row has the copy of its placement and the link of its platform.
LEMMA RowsTrackedNow == IInv /\ PackInv => RowsAreTracked
<1> SUFFICES ASSUME IInv, PackInv, pack # None PROVE RowsAreTracked
  BY DEF RowsAreTracked
<1>1. /\ stage = "done" /\ order.platforms # None /\ links = LinksNow
      /\ pack.rows = CsvRows(Items) /\ pack.combinationCount = Combinations(Items)
  BY DEF PackInv
<1>2. /\ Len(pack.rows) = Len(variants) * Len(specs) /\ pack.combinationCount = Len(variants) * Len(specs)
      /\ \A r \in Range(pack.rows) :
              \E i \in DOMAIN variants, k \in DOMAIN specs : r = Row(i, specs[k].placement)
  BY <1>1, RowsAre, CombinationsAre
<1>3. ASSUME NEW r \in Range(pack.rows)
      PROVE  /\ \E a \in Range(variants[r.adId].platformAdaptations) :
                  a.placement = r.placement /\ \A f \in DOMAIN a.copy : a.copy[f] \in {None, r.copy[f]}
             /\ r.placement[1] \in Range(order.platforms) =>
                  /\ r.link \in Range(links) /\ r.link.platform = r.placement[1]
                  /\ order.includeClickId => ClickIdParams[r.placement[1]] \in DOMAIN r.link.params
  <2>1. PICK i \in DOMAIN variants, k \in DOMAIN specs : r = Row(i, specs[k].placement)
    BY <1>2
  <2> DEFINE p == specs[k].placement
             v == variants[i]
  <2>2. r.adId = i /\ r.placement = p /\ r.copy = CopyOf(v, p) /\ r.link = LinkOf(Items[i], p)
    BY <2>1 DEF Row
  <2>3. VariantFits(v) /\ SpecsTyped
    BY DEF IInv, VariantsFit, Range
  <2>4. DOMAIN specs = 1..Len(specs) /\ Len(specs) \in Nat /\ DOMAIN specs \subseteq Nat
    BY <2>3, PlacementsAre
  <2>5. DOMAIN v.platformAdaptations = DOMAIN specs
    BY <2>3, <2>4 DEF VariantFits
  <2>6. \E a \in Range(v.platformAdaptations) :
           a.placement = p /\ \A f \in DOMAIN a.copy : a.copy[f] \in {None, CopyOf(v, p)[f]}
    BY <2>3, <2>4, <2>5, CopyFound
  <2>7. p[1] \in DOMAIN ClickIdParams
    <3>1. specs[k] \in Range(AllSpecs)
      BY <2>3 DEF SpecsTyped
    <3>2. p[1] \in {"amazon", "google", "linkedin", "meta", "pinterest", "reddit", "snapchat", "tiktok", "x"}
      BY <3>1, AllSpecsPlaced
    <3> HIDE DEF p
    <3> QED BY <3>2 DEF ClickIdParams
  <2>8. Items[i].trackingLinks = links
    BY ItemsAre
  <2> HIDE DEF p, v
  <2>9. p[1] \in Range(order.platforms) =>
          /\ LinkOf(Items[i], p) \in Range(links) /\ LinkOf(Items[i], p).platform = p[1]
          /\ order.includeClickId => ClickIdParams[p[1]] \in DOMAIN LinkOf(Items[i], p).params
    BY <1>1, <2>7, <2>8, LinkFound
  <2> QED BY <2>2, <2>6, <2>9 DEF v
<1> QED BY <1>2, <1>3 DEF RowsAreTracked

\* Every ad is exported once at every placement, with the copy of that placement and a link
\* that tells the clicks of its platform.
THEOREM RowsTracked == Spec => []RowsAreTracked
<1> QED BY StudioInvariant, PackInvariant, RowsTrackedNow, PTL
=============================================================================
