------------------------------- MODULE AdSpecs -------------------------------
(***************************************************************************)
(* The creative specifications of the ad platforms and the node            *)
(* ads.platform.specs that looks them up.  A placement is the platform and *)
(* the name that its id joins with a dash; lengths are characters, sizes   *)
(* KiB, durations seconds.  Names, labels, formats, aspect ratios, call to *)
(* action presets and guidance are left out: no node reads them.           *)
(***************************************************************************)
EXTENDS Lists

CONSTANT None   \* no value

Limit(min, max, recommended) == [min |-> min, max |-> max, recommended |-> recommended]
Image(minWidth, minHeight, width, height, maxSize) ==
  [minWidth |-> minWidth, minHeight |-> minHeight, recommendedWidth |-> width,
   recommendedHeight |-> height, maxFileSize |-> maxSize]
Video(minDuration, maxDuration, duration, minWidth, minHeight, width, height, maxSize) ==
  [minWidth |-> minWidth, minHeight |-> minHeight, recommendedWidth |-> width,
   recommendedHeight |-> height, maxFileSize |-> maxSize,
   minDuration |-> minDuration, maxDuration |-> maxDuration, recommendedDuration |-> duration]
Zone(top, height) == [top |-> top, height |-> height]
CreativeSpec(platform, placement, types, zones, limits, image, video) ==
  [platform |-> platform, placement |-> placement, supportedTypes |-> types, safeZones |-> zones,
   textLimits |-> limits, imageSpec |-> image, videoSpec |-> video]
MB == 1024

-----------------------------------------------------------------------------
AmazonInfo == <<"display", "video", "audio">>
GoogleInfo ==
  <<"search", "display", "youtube-instream", "youtube-shorts",
    "youtube-bumper", "youtube-nonskippable", "youtube-infeed", "discovery">>
LinkedinInfo == <<"feed", "message", "text">>
MetaInfo == <<"feed", "stories", "reels", "right-column", "marketplace", "messenger">>
PinterestInfo == <<"home-feed", "search", "browse", "related-pins">>
RedditInfo == <<"feed", "conversation", "trending">>
SnapchatInfo == <<"single-image", "single-video", "story", "collection", "lenses">>
TiktokInfo == <<"feed", "topview">>
XInfo == <<"timeline", "explore">>

AmazonSpecs == <<
  CreativeSpec("amazon", <<"amazon", "display">>, {"image"}, {},
               [headline |-> Limit(1, 50, 30), description |-> Limit(1, 90, 60)],
               Image(320, 50, 728, 90, 200), None),
  CreativeSpec("amazon", <<"amazon", "video">>, {"video"}, {Zone(85, 15)},
               [headline |-> Limit(1, 90, None), description |-> Limit(1, 150, None)],
               None, Video(6, 120, 30, 1280, 720, 1920, 1080, 500 * MB)),
  CreativeSpec("amazon", <<"amazon", "audio">>, {"image"}, {},
               [headline |-> Limit(1, 50, None), description |-> Limit(1, 90, None)],
               Image(300, 250, 640, 640, 200), None) >>
GoogleSpecs == <<
  CreativeSpec("google", <<"google", "search">>, {}, {},
               [headline |-> Limit(1, 30, 30), description |-> Limit(1, 90, 80),
                displayUrl |-> Limit(None, 15, None)],
               None, None),
  CreativeSpec("google", <<"google", "display">>, {"image", "video"}, {},
               [headline |-> Limit(1, 30, None), description |-> Limit(1, 90, None), bodyText |-> Limit(1, 90, 60)],
               Image(600, 314, 1200, 628, 5 * MB), None),
  CreativeSpec("google", <<"google", "youtube-instream">>, {"video"}, {},
               [headline |-> Limit(1, 15, None), description |-> Limit(1, 90, None),
                displayUrl |-> Limit(None, 15, None)],
               None, Video(12, 180, 30, 1920, 1080, 1920, 1080, 256 * MB)),
  CreativeSpec("google", <<"google", "youtube-shorts">>, {"video"}, {},
               [headline |-> Limit(1, 30, None), description |-> Limit(1, 90, None)],
               None, Video(6, 60, 20, 1080, 1920, 1080, 1920, 256 * MB)) >>
YouTubeSpecs == <<
  CreativeSpec("google", <<"google", "youtube-bumper">>, {"video"}, {},
               [headline |-> Limit(1, 15, None), description |-> Limit(1, 90, None)],
               None, Video(1, 6, 6, 1920, 1080, 1920, 1080, 256 * MB)),
  CreativeSpec("google", <<"google", "youtube-nonskippable">>, {"video"}, {},
               [headline |-> Limit(1, 15, None), description |-> Limit(1, 90, None),
                displayUrl |-> Limit(None, 15, None)],
               None, Video(6, 15, 15, 1920, 1080, 1920, 1080, 256 * MB)),
  CreativeSpec("google", <<"google", "youtube-infeed">>, {"video"}, {},
               [headline |-> Limit(1, 100, None), description |-> Limit(1, 70, None)],
               Image(1280, 720, 1280, 720, 2 * MB), Video(1, 600, 60, 1280, 720, 1920, 1080, 256 * MB)),
  CreativeSpec("google", <<"google", "discovery">>, {"image", "video", "carousel"}, {},
               [headline |-> Limit(1, 40, None), description |-> Limit(1, 90, None)],
               Image(600, 314, 1200, 628, 5 * MB), None) >>
LinkedinSpecs == <<
  CreativeSpec("linkedin", <<"linkedin", "feed">>, {"image", "video", "carousel"}, {},
               [headline |-> Limit(1, 70, 50), description |-> Limit(1, 100, None), bodyText |-> Limit(1, 600, 150)],
               Image(400, 400, 1200, 628, 5 * MB), Video(3, 600, 30, 480, 360, 1920, 1080, 200 * MB)),
  CreativeSpec("linkedin", <<"linkedin", "message">>, {"image"}, {},
               [headline |-> Limit(1, 60, 40), bodyText |-> Limit(1, 1500, 500), ctaText |-> Limit(1, 25, None)],
               Image(300, 250, 300, 250, 2 * MB), None),
  CreativeSpec("linkedin", <<"linkedin", "text">>, {"image"}, {},
               [headline |-> Limit(1, 25, None), description |-> Limit(1, 75, None)],
               Image(100, 100, 100, 100, 2 * MB), None) >>
MetaFeedSpecs == <<
  CreativeSpec("meta", <<"meta", "feed">>, {"image", "video", "carousel"}, {Zone(0, 10), Zone(90, 10)},
               [headline |-> Limit(1, 40, 27), description |-> Limit(1, 125, 90), bodyText |-> Limit(1, 2200, 125)],
               Image(600, 600, 1080, 1080, 30 * MB), Video(1, 240, 15, 600, 600, 1080, 1080, 4096 * MB)),
  CreativeSpec("meta", <<"meta", "stories">>, {"image", "video"}, {Zone(0, 14), Zone(80, 20)},
               [headline |-> Limit(1, 40, 27), description |-> Limit(1, 125, None)],
               Image(1080, 1920, 1080, 1920, 30 * MB), Video(1, 120, 15, 1080, 1920, 1080, 1920, 4096 * MB)) >>
MetaOtherSpecs == <<
  CreativeSpec("meta", <<"meta", "reels">>, {"video"}, {Zone(0, 15), Zone(30, 40), Zone(75, 25)},
               [headline |-> Limit(1, 40, None), description |-> Limit(1, 72, None)],
               None, Video(3, 90, 30, 1080, 1920, 1080, 1920, 4096 * MB)),
  CreativeSpec("meta", <<"meta", "right-column">>, {"image"}, {},
               [headline |-> Limit(1, 40, 25), description |-> Limit(1, 125, None)],
               Image(254, 254, 1080, 1080, 30 * MB), None),
  CreativeSpec("meta", <<"meta", "marketplace">>, {"image", "video"}, {},
               [headline |-> Limit(1, 40, None), description |-> Limit(1, 125, None), bodyText |-> Limit(1, 2200, 125)],
               Image(600, 600, 1080, 1080, 30 * MB), None),
  CreativeSpec("meta", <<"meta", "messenger">>, {"image"}, {},
               [headline |-> Limit(1, 40, 25), description |-> Limit(1, 125, None)],
               Image(254, 254, 1080, 1080, 30 * MB), None) >>
PinterestSpecs == <<
  CreativeSpec("pinterest", <<"pinterest", "home-feed">>, {"image", "video", "carousel"}, {},
               [headline |-> Limit(1, 100, 40), description |-> Limit(1, 500, 100)],
               Image(600, 600, 1000, 1500, 20 * MB), Video(4, 900, 15, 240, 240, 1080, 1920, 2048 * MB)),
  CreativeSpec("pinterest", <<"pinterest", "search">>, {"image", "video"}, {},
               [headline |-> Limit(1, 100, 40), description |-> Limit(1, 500, 100)],
               Image(600, 600, 1000, 1500, 20 * MB), None),
  CreativeSpec("pinterest", <<"pinterest", "browse">>, {"image", "video", "carousel"}, {},
               [headline |-> Limit(1, 100, 40), description |-> Limit(1, 500, None)],
               Image(600, 600, 1000, 1500, 20 * MB), None),
  CreativeSpec("pinterest", <<"pinterest", "related-pins">>, {"image"}, {},
               [headline |-> Limit(1, 100, 40), description |-> Limit(1, 500, None)],
               Image(600, 900, 1000, 1500, 20 * MB), None) >>
RedditSpecs == <<
  CreativeSpec("reddit", <<"reddit", "feed">>, {"image", "video", "carousel"}, {},
               [headline |-> Limit(1, 300, 100), bodyText |-> Limit(1, 300, None),
                displayUrl |-> Limit(None, 25, None)],
               Image(400, 300, 1200, 628, 3 * MB), Video(1, 180, 30, 720, 720, 1920, 1080, 1024 * MB)),
  CreativeSpec("reddit", <<"reddit", "conversation">>, {"image", "video"}, {},
               [headline |-> Limit(1, 300, 100), bodyText |-> Limit(1, 300, None)],
               Image(400, 300, 1200, 628, 3 * MB), Video(1, 60, 15, 720, 720, 1920, 1080, 512 * MB)),
  CreativeSpec("reddit", <<"reddit", "trending">>, {"image"}, {},
               [headline |-> Limit(1, 100, 50), bodyText |-> Limit(1, 200, None)],
               Image(1200, 628, 1200, 628, 3 * MB), None) >>
SnapchatSpecs == <<
  CreativeSpec("snapchat", <<"snapchat", "single-image">>, {"image"}, {Zone(0, 10), Zone(82, 18)},
               [headline |-> Limit(1, 34, 25), description |-> Limit(1, 34, None), ctaText |-> Limit(1, 20, None)],
               Image(1080, 1920, 1080, 1920, 5 * MB), None),
  CreativeSpec("snapchat", <<"snapchat", "single-video">>, {"video"}, {Zone(0, 10), Zone(82, 18)},
               [headline |-> Limit(1, 34, 25), description |-> Limit(1, 34, None), ctaText |-> Limit(1, 20, None)],
               None, Video(3, 180, 6, 1080, 1920, 1080, 1920, 1024 * MB)),
  CreativeSpec("snapchat", <<"snapchat", "story">>, {"image", "video"}, {Zone(0, 12), Zone(85, 15)},
               [headline |-> Limit(1, 34, 25), description |-> Limit(1, 34, None)],
               Image(1080, 1920, 1080, 1920, 5 * MB), Video(3, 180, 6, 1080, 1920, 1080, 1920, 1024 * MB)) >>
SnapchatOtherSpecs == <<
  CreativeSpec("snapchat", <<"snapchat", "collection">>, {"image", "video", "carousel"}, {},
               [headline |-> Limit(1, 34, None), description |-> Limit(1, 55, None)],
               Image(1080, 1920, 1080, 1920, 5 * MB), Video(3, 180, 10, 1080, 1920, 1080, 1920, 1024 * MB)),
  CreativeSpec("snapchat", <<"snapchat", "lenses">>, {"image"}, {},
               [headline |-> Limit(1, 34, None)],
               Image(150, 150, 200, 200, 1 * MB), None) >>
TiktokSpecs == <<
  CreativeSpec("tiktok", <<"tiktok", "feed">>, {"image", "video"}, {Zone(35, 30), Zone(75, 25)},
               [headline |-> Limit(1, 100, 50), description |-> Limit(1, 100, 80)],
               Image(720, 1280, 1080, 1920, 20 * MB), Video(5, 60, 21, 720, 1280, 1080, 1920, 500 * MB)),
  CreativeSpec("tiktok", <<"tiktok", "topview">>, {"video"}, {Zone(0, 12), Zone(85, 15)},
               [headline |-> Limit(1, 100, 50), description |-> Limit(1, 100, None)],
               None, Video(5, 60, 15, 1080, 1920, 1080, 1920, 500 * MB)) >>
XSpecs == <<
  CreativeSpec("x", <<"x", "timeline">>, {"image", "video", "carousel"}, {},
               [headline |-> Limit(1, 280, 100), description |-> Limit(1, 280, None)],
               Image(600, 335, 1200, 675, 5 * MB), Video(1, 140, 15, 640, 360, 1920, 1080, 512 * MB)),
  CreativeSpec("x", <<"x", "explore">>, {"image", "video"}, {},
               [headline |-> Limit(1, 70, 50), description |-> Limit(1, 280, None)],
               Image(600, 335, 1200, 675, 5 * MB), Video(6, 60, 15, 1280, 720, 1920, 1080, 512 * MB)) >>

-----------------------------------------------------------------------------
(* The registry. *)

PlatformInfo ==
  [amazon |-> AmazonInfo, google |-> GoogleInfo, linkedin |-> LinkedinInfo, meta |-> MetaInfo,
   pinterest |-> PinterestInfo, reddit |-> RedditInfo, snapchat |-> SnapchatInfo,
   tiktok |-> TiktokInfo, x |-> XInfo]
AllSpecs ==
  AmazonSpecs \o GoogleSpecs \o YouTubeSpecs \o LinkedinSpecs \o MetaFeedSpecs \o MetaOtherSpecs
    \o PinterestSpecs \o RedditSpecs \o SnapchatSpecs \o SnapchatOtherSpecs \o TiktokSpecs \o XSpecs

Placements == {AllSpecs[i].placement : i \in DOMAIN AllSpecs}

\* Map.set: of two specs of one placement the later stays.
SpecByPlacement ==
  [p \in Placements |-> AllSpecs[Max({i \in DOMAIN AllSpecs : AllSpecs[i].placement = p})]]
SpecsByPlatform(platform) == Only(AllSpecs, LAMBDA s : s.platform = platform)

-----------------------------------------------------------------------------
(* ads.platform.specs: placements, when any are given, take the place of the
   platforms; a placement or a platform nobody knows gives nothing. *)

GetSpecSet(platforms, placements) ==
  IF placements # None /\ placements # <<>>
    THEN [i \in DOMAIN Only(placements, LAMBDA p : p \in Placements) |->
            SpecByPlacement[Only(placements, LAMBDA p : p \in Placements)[i]]]
    ELSE FlattenSeq([i \in DOMAIN platforms |-> SpecsByPlatform(platforms[i])])

PlatformSpecs(platforms, placements) ==
  IF platforms = None
    THEN [status |-> "error", code |-> "INVALID_INPUTS"]
    ELSE [status |-> "success", specs |-> GetSpecSet(platforms, placements)]
=============================================================================
