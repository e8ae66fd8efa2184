--------------------------- MODULE MCMarketIntel ---------------------------
(* Each node with every small reply: lists of up to MaxEntries entries of the
   kinds its validator tells apart, numbered by their place, with and without
   warnings of the model. *)
EXTENDS MarketIntel

CONSTANT MaxEntries

Numbered(s) == [i \in DOMAIN s |-> IF s[i] = Missing THEN Missing ELSE [s[i] EXCEPT !.id = i]]
ListsOf(kinds, n) == {Missing} \cup {Numbered(s) : s \in UNION {[1..k -> kinds] : k \in 0..n}}
Few(kinds) == ListsOf(kinds, 1)
Said == {Missing, <<"note">>}
TextLists == {Missing, <<>>, <<"a", Missing>>, <<"", "b">>}

Communities ==
  {Missing} \cup {[id |-> 0, name |-> "given", url |-> u, platform |-> "reddit", relevance |-> r] :
                    u \in {"given", Missing}, r \in {Missing, -3, 8}}
Records ==
  {Missing} \cup {[id |-> 0, quote |-> q, tagType |-> t, intentStage |-> s, confidence |-> c] :
                    q \in {"long", "short"}, t \in {"pain", "rumour"}, s \in {"unaware"}, c \in {Missing, 9}}
Selected ==
  {Missing} \cup {[id |-> 0, name |-> n, platform |-> p, relevance |-> r] :
                    n \in {"given", Missing}, p \in {"reddit", "myspace"}, r \in {7, 14}}
Groups ==
  {Missing} \cup {[id |-> 0, primaryQuery |-> q, intentStage |-> s, variations |-> v] :
                    q \in {"given", ""}, s \in {"unaware", Missing}, v \in {Missing, <<"a", "", "b">>}}
Competitors ==
  {Missing, [id |-> 0, competitor |-> "given", comparison |-> <<"a">>, switching |-> Missing, alternative |-> <<"b", Missing>>]}
Threads ==
  {Missing} \cup {[id |-> 0, title |-> t, priority |-> p, value |-> v, tokens |-> n] :
                    t \in {"given", Missing}, p \in {"high", "skip"}, v \in {Missing, 9}, n \in {Missing, 100}}
Scores ==
  {Missing} \cup {[total |-> t, volume |-> 0, intensity |-> 12, commercialIntent |-> Missing, clarity |-> 4, uniqueness |-> 7] :
                    t \in {Missing, -1, 900}}
Scored == {Missing} \cup {[id |-> 0, name |-> n, score |-> s] : n \in {"given", ""}, s \in Scores}
Angles ==
  {Missing} \cup {[id |-> 0, name |-> "given", segment |-> "unaware", score |-> Missing, priority |-> p] : p \in {Missing, 1, 99}}
Briefs ==
  {Missing} \cup {[id |-> 0, name |-> "given", corePain |-> c, segment |-> "nobody", hooks |-> h, score |-> s] :
                    c \in {"given", ""}, h \in {Missing, <<"hook">>}, s \in Scores}
Targets == {Missing, [id |-> 0, name |-> "given", platform |-> "x"], [id |-> 0, name |-> "given", platform |-> Missing]}
PlatformPacks ==
  {Missing} \cup {[id |-> 0, platform |-> p, interests |-> t, keywords |-> t, communities |-> Missing, audiences |-> t] :
                    p \in {"google", "myspace"}, t \in Few(Targets)}
Steps == {Missing} \cup {[id |-> 0, platform |-> p, phase |-> n] : p \in {"x", "myspace"}, n \in {Missing, 0, 3}}
Budget == {Missing} \cup {[id |-> 0, platform |-> "x", percentage |-> n] : n \in {Missing, 250}}

Contexts == [icp : {"given", Missing}, product : {"given", Missing}]
With(fields) == {c @@ f : c \in Contexts, f \in fields}

MCInputs(n) ==
  CASE n = "ai-discovery" -> [topic : {"", "given"}]
    [] n = "content-extraction" -> [html : {"", "short", "long"}, url : {"", "given"}]
    [] n = "voc-extraction" -> With([content : {"", "given"}])
    [] n \in {"community-rank", "thread-triage"} -> With([candidates : {0, 2}])
    [] n = "query-builder" -> Contexts
    [] n = "opportunity-scoring" -> With([records : {0, 1}, candidates : {0, 1}])
    [] n = "ad-angles" -> With([quotes : {0, 1}])
    [] n = "audience-targeting" -> With([platforms : {{}, {"x"}, {"x", "myspace"}}])

MCReplies(n) ==
  CASE n = "ai-discovery" ->
         [urls : {Missing, <<"http", Missing, "subreddit">>, <<"other">>}, communities : ListsOf(Communities, MaxEntries),
          searchQueries : {Missing, <<"", "b">>}, warnings : Said]
    [] n = "content-extraction" ->
         [title : {"given", Missing}, content : {"given", ""}, contentType : {Missing, "review", "poem"},
          publishedAt : {Missing, "date", "text"}, tags : TextLists, quotes : {Missing, <<"long", "short", Missing>>, <<"long">>},
          warnings : Said]
    [] n = "voc-extraction" -> [records : ListsOf(Records, MaxEntries), warnings : Said]
    [] n = "community-rank" ->
         [selected : ListsOf(Selected, MaxEntries), rejected : {Missing, <<Missing, [id |-> 1]>>}, warnings : Said]
    [] n = "query-builder" ->
         [groups : ListsOf(Groups, 2), competitors : ListsOf(Competitors, 2), warnings : Said]
    [] n = "thread-triage" ->
         [threads : ListsOf(Threads, 2), queue : {Missing, <<Missing, 7>>, <<2, 1>>}, skipped : {Missing, <<Missing, [id |-> 3]>>},
          warnings : Said]
    [] n = "opportunity-scoring" -> [communities : ListsOf(Scored, 2), angles : ListsOf(Angles, 2), warnings : Said]
    [] n = "ad-angles" ->
         [briefs : ListsOf(Briefs, 2), testing : {Missing, <<Missing, [id |-> 1, reason |-> "given"]>>}, warnings : Said]
    [] n = "audience-targeting" ->
         [packs : ListsOf(PlatformPacks, 1), testing : ListsOf(Steps, 2), budget : Few(Budget), warnings : Said]
=============================================================================
