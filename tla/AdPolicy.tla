------------------------------ MODULE AdPolicy ------------------------------
(***************************************************************************)
(* The node ads.policy.check: text rules over the whole copy, the length   *)
(* limits of each placement, and the results of a trust check made before. *)
(*                                                                         *)
(* A text is its length and the phrases it holds, each with the place      *)
(* where it ends.  A rule lists the phrases its keywords and its patterns  *)
(* match; a pattern that is not a regular expression matches none.         *)
(***************************************************************************)
EXTENDS Lists

CONSTANT None   \* no value

Fields == <<"headline", "description", "bodyText", "ctaText">>

Rule(id, category, severity, platforms, keywords, patterns) ==
  [id |-> id, category |-> category, severity |-> severity, platforms |-> platforms,
   keywords |-> keywords, patterns |-> patterns, autoResolvable |-> FALSE, enabled |-> TRUE]

BuiltInRules == <<
  Rule("claims-guarantee", "claims", "high", {}, {"guarantee", "risk-free"}, {"100%", "risk-free", "money back"}),
  Rule("claims-income", "claims", "critical", {}, {}, {"earn $5", "$5 per day"}),
  Rule("claims-superlative", "claims", "medium", {}, {"best", "#1"}, {"best", "#1", "fastest"}),
  Rule("trademark-competitor", "trademark", "medium", {"meta", "google"}, {}, {}),
  Rule("prohibited-before-after", "prohibited_content", "high", {"meta"}, {"transformation"}, {"results in 5 days"}),
  Rule("prohibited-urgency-scam", "prohibited_content", "medium", {}, {}, {"act now", "last chance"}),
  Rule("targeting-discrimination", "targeting", "critical", {}, {}, {"only for men"}) >>

Says(copy) == UNION {{p.what : p \in copy[Fields[f]].says} : f \in {g \in DOMAIN Fields : copy[Fields[g]] # None}}

RuleStatus(rule) == IF rule.severity \in {"critical", "high"} THEN "fail" ELSE "warning"
RuleApplies(rule, platforms) ==
  rule.enabled /\ (rule.platforms = {} \/ rule.platforms \cap platforms # {})
EvaluateRule(rule, says) ==
  IF (rule.keywords \cup rule.patterns) \cap says = {} THEN <<>>
  ELSE <<[rule |-> rule.id, category |-> rule.category, status |-> RuleStatus(rule),
          autoResolvable |-> rule.autoResolvable]>>

LengthStatus(length, limit) ==
  IF (limit.min # None /\ length < limit.min) \/ length > limit.max THEN "fail"
  ELSE IF limit.recommended # None /\ length > limit.recommended THEN "warning" ELSE "pass"

\* A field without a limit, or that the copy does not have, is not checked.
CheckTextLengths(copy, limits) ==
  LET checked == Only(Fields, LAMBDA f : /\ f \in DOMAIN limits /\ copy[f] # None
                                             /\ LengthStatus(copy[f].len, limits[f]) # "pass")
  IN [i \in DOMAIN checked |->
        [rule |-> "format-text", category |-> "format", autoResolvable |-> TRUE,
         status |-> LengthStatus(copy[checked[i]].len, limits[checked[i]])]]

\* limits: a function from the placements that have any to their limits.
PolicyCheck(copy, platforms, placements, customRules, limits, guardrails) ==
  LET rules == Only(BuiltInRules \o customRules, LAMBDA r : RuleApplies(r, platforms))
      limited == Only(placements, LAMBDA p : p \in DOMAIN limits)
      riskFlags ==
        FlattenSeq([i \in DOMAIN rules |-> EvaluateRule(rules[i], Says(copy))])
          \o FlattenSeq([i \in DOMAIN limited |-> CheckTextLengths(copy, limits[limited[i]])])
          \o Only(guardrails, LAMBDA g : g # None /\ g.status \in {"fail", "warning"})
  IN [riskFlags |-> riskFlags,
      disclaimers |-> Only(riskFlags, LAMBDA f : f.autoResolvable),
      isCompliant |-> \A i \in DOMAIN riskFlags : riskFlags[i].status # "fail",
      rulesEvaluated |-> Len(rules) + Len(limited) + Len(guardrails)]
=============================================================================
