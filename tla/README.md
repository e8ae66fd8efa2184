# Formal models of openwop-registry

TLA+ models of the pack registry served at packs.openwop.dev and of the packs with
code of their own that it holds. The first half is how a pack version gets from a
source directory onto `main` and onto the site, and what the gates on the way
guarantee when several pull requests, two workflows and the deploys of several
pushes overlap. The second half is the nodes: what they do at remote ends, what
they hand on, and what happens to them when calls fail, overlap or run again. The
models are checked with TLC on small instances; the most important properties are
proved with TLAPS for every instance.

Paths below are relative to the repository root.

## Inventory

### The registry and its pipeline

| component | state | operations | interacts with |
|---|---|---|---|
| pack sources `packs/<name>/` | `pack.json` (name, version, engines) and the runtime files | edited in pull requests | read by auto-register, build-pack-tarball and the `check-pack-*` gates |
| `scripts/build-pack-tarball.mjs` | none (writes `dist/packs`) | validate the manifest, add the signing block, canonicalize (`lib/jcs.mjs`), sign, write a deterministic tarball, `.manifest.json`, `.sig.b64` | called once per pack by auto-register and by publishers |
| `scripts/auto-register.mjs` | the tree it stages into | find sources whose version has no manifest in the tree, in scope and signable by the key; build, copy `.tgz`, `.json`, `.sig`; reindex | namespace authority (`lib/namespace-authority.mjs`), build-pack-tarball, generate-sbom, build-index |
| `registry/scripts/build-index.mjs` | `index.json`, per-pack `index.json`, the integrity field of manifests, schema mirror, landing page | rebuild or `--check` | reads every manifest and tarball of a tree |
| gates | none | `check-pack-tarball-signatures`, `check-registry-signer-consistency`, `verify-signatures`, `conformance-check`, `generate-sbom --check`, `check-advisories`, `check-pack-namespace-authority`, `check-published-immutable` | read the tree; the last also reads the base of the pull request |
| `.github/workflows/auto-register.yml` | a checkout of the branch; one run per pull request, the older cancelled | v1 job, then v2 job: stage, run `registry-check.sh`, commit, `git push` to the branch | contributor's pushes to the same branch |
| `.github/workflows/registry-publish.yml` | a checkout of a merge commit, of a push to main, or of any branch it is started on by hand | validate; on a push to main and by hand, deploy | GitHub, Firebase Hosting |
| key registry `registry/.well-known/openwop-registry.json` | key ids, their namespaces, their status | edited in pull requests | read by every signature gate |
| advisories `registry/security/advisories.json` | affected ranges | edited in pull requests | `check-advisories` |
| `registry/v1` | frozen tree with its own formats | v1 job of auto-register; the same gates with `--tree v1` | |
| `scripts/publish-pack.mjs` | none | PUT of a tarball to a host, 201/200/409 | a remote registry host |
| `registry/scripts/serve.mjs` | none | static server for development | |
| authoring tools (`new-pack`, `gen-*`, `codemod-*`, `v2-wave-engines`) | none | write pack sources once | |

Hard here: pull requests are checked against trees that are not the tree the
merge makes; the bot and the contributor push to one branch; staging copies
three files one at a time; two workflows validate different things; deploys of
two pushes overlap, and a deploy by hand takes any branch; keys, their namespaces and
advisories change while versions that depend on them are in flight.

What makes it correct: a published version never changes; everything published
is whole and signed by the key it names; the index describes the tree it is in; a
deploy of main shows nothing that was not published. The texts ask for more: that a
version enters under an active key that is permitted its namespace, that what an
advisory matches is yanked, that a deploy by hand changes nothing. Those the
pipeline does not keep (Findings).

### The packs' runtimes

A node is an async function `(ctx) => result`; the host (not in this repository)
resolves its inputs, runs it, records its completion, runs it again after a
failure it may retry, a crash or an interrupt that was answered, and forks runs.
Nodes keep no state of their own but for `CB_STATE` of core.openwop.http; what
lasts is in `ctx.variables`, in the host's ledgers and at the remote ends.

| component | state it changes | operations | hard because |
|---|---|---|---|
| `core.openwop.http` fetch | requests at a remote; timer and listener | try, time out, wait, try again, up to a bound | answers race timers and aborts; a remote acts late; a node runs again |
| `core.openwop.http` others | `CB_STATE`, a cursor, a buffer | paginate, stream, breaker, rate limit, long poll | module state shared by overlapping calls; a clock read before the request; streams cut anywhere |
| `vendor.myndhyve.ads-publish-{meta,google,tiktok}` | entities on a platform | a chain of 3 or 4 creations, removal of what was made | partial failure, lost answers, retries without a key |
| `vendor.myndhyve.chat` approvalGate | loopback count, feedback history, previous artifact | card, suspend, decide, loop back | resumed by running from its start; contradictory answers; timer race |
| egress: `core.openwop.integration`, chat sendMessage, entities chatSend/chatReply | messages sent; the host's ledger | make a key, send, report | crash between send and record, forks, lost answers |
| `core.openwop.a2a`, `agent-orchestration`, `hitl`, phaseInput and clarification gates | tasks of other agents, variables | suspend, send, route | run again from the start at every resume |
| `market-intel-*` (nine packs) | none | model call, parse, one repair, validate, rank | what is dropped, and whether that is said |
| `ads-platforms`, `ads-copy`, `ads-creative`, `ads-policy`, `ads-tracking`, `ads-export`, `ads-tools` | none | specifications, copy, images, video, two gates, links, export | one campaign through packs that repeat each other's tables |
| `ads-studio-core`, `ads-metrics` | none | brief, plan, variants, storyboard, winners, import | a node validates, another generates; thinning; totals |
| campaign, landing page, wop-refinement | none | generate, validate, allocate | boundaries of numbers |
| `core.openwop.flow`, `data` | none | branch, loop, batch, join, sort, dedup | boundaries, stability |
| `ai`, `rag`, `mcp`, `agents`, `triggers`, `crypto`, `files`, `storage`, `db`, `obs` | the host's | adapters | little of their own |
| workflow, connection, prompt and agent packs | none | data | |

What makes the modelled ones correct: a side effect happens at most once however
often the node runs; what a node reports is what happened; a failure leaves
nothing behind that goes on by itself; a decision is a reviewer's; bounds hold;
and every run ends.

## Modules

| module | models | kind |
|---|---|---|
| `RegistryTree` | one commit: sources, tarballs, manifests, signatures, index, keys, advisories; `Reindex`, `Todo`, `Copied`; every gate as a predicate; a three-way merge | operators |
| `Catalog` | what a client that pins a version is promised | abstract specification |
| `Publication` | pull requests, auto-register runs, registry-publish runs, merges, deploys | EXTENDS RegistryTree, refines Catalog |
| `AdPublish` | one ad publishing node of one of three platforms, and the host's runs of it | component |
| `HttpFetch` | fetchNode, a caller, a host, a remote | component |
| `ApprovalGate` | approvalGate in an author-gate-deliver chain | component |
| `Egress` | the sending nodes in runs and their forks, with the host's ledger | component |
| `CircuitBreaker` | the breaker node, for one key, with overlapping calls | component |
| `HttpNodes` | every other node of core.openwop.http but webhook-verify, beside the breaker; a behaviour of it is one of `CircuitBreaker` | composition |
| `MarketIntel` | the nine market intelligence nodes and the model they ask | component |
| `Lists` | filter, find, map, reduce and sort of JavaScript, by definitions that can be proved about | operators |
| `AdSpecs` | the specifications of 36 placements and the node that looks them up | operators |
| `AdPolicy`, `AdCreative` | the two gates over an ad, as two packs have them | operators |
| `AdStudio` | a campaign through specs, copy, images, video, both gates, links and export | composition of the three |
| `AdPlanning` | brief extraction, brief, plan, variants, storyboard, winners, metrics | component |
| `MC*` | constants for TLC | |
| `*Proofs` | theorems of `Publication`, `AdPublish`, `AdStudio`, `AdPlanning`, `MarketIntel`; `HttpProofs` has those of `HttpFetch`, `CircuitBreaker` and `HttpNodes`, `HostProofs` those of `ApprovalGate` and `Egress` | |
| `ListsProofs` | lemmas about induction, recursive functions, sums, and what `Lists` defines | |

`PROJECT.json` names the source lines of every definition.

### How Publication corresponds to the code

A tree has a file per place the scripts read or write; a file is a record of what
gates tell apart (content, key id it names, key that made the signature), not
bytes. The key registry is one of the files: a key has a status and the packs it is
permitted, or is not listed. `Copied` is the copying loop of auto-register, `Reindex` is build-index,
`RegistryCheck` is `scripts/registry-check.sh` with the gate scripts as its
conjuncts, `ServeGate` and `PullRequestGate` are the steps of the validate job.
Actions of a contributor are what a person can push: an edited source, the result
of running auto-register locally, the same interrupted between two copies, a
version built again, yanked, or deleted, a key registered, retired, unlisted or given
other namespaces, a new advisory, a merge of main. `ValidateStart` and `ValidateEnd` are two steps because the merge
commit is made when the branch is pushed and the base is fetched later;
`RunStart`, `RunPush` and `RunStop` are an auto-register run, whose push is refused
when the branch has moved. `Merge` is GitHub with the required check; `Dispatch` starts
registry-publish by hand, on main or on the branch of a pull request; `Deploy` is the end
of a run that may deploy, in no order with others. `live` remembers whether what is served
is a commit of main: a preview of a branch promises nothing (`Catalog`), the next deploy of
main does.

Assumed of what is outside: git merges file by file and refuses a conflict;
signatures cannot be made without the private key; two trees with the same
content have the same digest; GitHub requires a green verdict for the head of a
branch that changes `registry/`, and no up-to-date base.

### AdPublish

`phase` is where the run of the node waits: for a secret, a creation or a removal;
`pos` is which. `ids` is what the node was told, `remote` what there is, `late`
the requests nobody waits for any more. A creation ends in one of four ways:
created and told, created without an id in the answer, refused, or no answer, in
which case the request may still be processed. Removals follow the platform's
order (Google refuses to remove a parent of something; removing a Meta campaign
removes its ads). TikTok has no rollback, as in the code. A retryable error lets
the host run the node again up to `MaxAttempts`.

### HttpFetch

`stage` is what the run waits for: the DNS lookup, fetch, the body, the wait, or
the last kept body. A timer and an abort listener are armed per attempt, and another
pair by `sleep` for the wait; `timers` and `listeners` say which are armed, and
`TimerFires` and `CallerAborts` interleave with everything. A workflow makes several calls
of the node (`plan`): with equal or other bodies, in one run or in a fork. The key is the
call's run and body, as the hash is; two calls with both equal have one key, whatever their
URLs. A request in flight may be processed at any time, also after the node gave up; the
remote acts on the first of each key (`effects`).

### ApprovalGate

The node is a step for each place the host can stop it at: the card, the
suspension, the decision with the first write (`Decide`), the second write
(`KeepFeedback`), the third and the return (`KeepArtifact`); `RecordGate` is the host
recording the completion. A crash sends the node back to its start with the host's record
of the answer, which is how a resumption works too. What it then finds in `ctx.variables`
is the host's affair and a part of `config`: nothing, what was set before the last
recorded completion, or every write at once. An answer has a verb as `action`, which the
host checks against the declared ones, a verb as `decision`, which it does not and which
counts first (`Verb`), the legacy flag, an edited artifact and feedback, in every
combination. `Author` and `Follow` are the chain around the node.

### Egress

A run is at a position of its workflow, with inputs that stay what they are for
every run of the node there. `Suppress`, `Deliver` and `Refuse` are one call of
the host; `Complete` and `Throw` what the node makes of the answer. A fork takes the
completed steps over and may go on from any of them, its original running on.
A key is a record of what went into the hash; a part that is left out is `None`. What is
sent has two parts: what is said and to whom, which keys are made of, and the rest, which
they leave out (cc, bcc, from and replyTo of an e-mail, the data of a push).
The host records a key in the step that sends, which is what `emailSentLedger` and
`egressSentLedger` are relied on for; Slack has no ledger and voice calls have
none yet, by the comments in the source. Early returns of chatSend for missing
inputs are not told from a refusal.

### CircuitBreaker and HttpNodes

`CB_STATE` is a map in the module, so it outlives a call and every call of the
process sees it. A call is two steps, `Admit` or `Refuse` (read the object and the clock,
send or not) and `AnswerBelow500`, `Answer500` or `CallRejects` (count or forget, and
store), with any number of other calls between them. A call that finds no object makes one
of its own (`ObjectFor`); in the model an object is named by the caller that made it.
`CB_STATE` says which one the map holds, `held` which one a call in flight holds, `began`
is the `now` it read before its request.

The other nodes share nothing, so a behaviour of `HttpNodes` is either calls through
a breaker or one run of one other node, and each of its steps is what happens
between two awaits. The answers are chosen by the environment: status classes, an
empty body, a wait announced by the remote in seconds or as a date, one that is past, no
time at all or too long for a timer among them, pages of a list that is longer or
shorter than it should be. A stream is a sequence of characters and a step hands
the node any further piece of it. webhook-verify is not modelled: it compares
digests and keeps nothing.

### MarketIntel

One behaviour is one run of one of the nine nodes: inputs are refused, or the model
is asked, asked once more when the reply is not JSON, and the reply validated. Each
validator is an operator of its own, for the nine differ in what they drop, default,
rank and count. A text is the class the code tells apart (absent, empty, short,
given). Scores are integers in tenths, so that rounding is exact.

### AdStudio, AdSpecs, AdPolicy, AdCreative

`AdSpecs` is the table of ads-platforms with every limit that a node reads. `AdStudio`
is the wiring the READMEs describe: each node is one action that reads what the
earlier ones left in state. The image node has a step per call, since a run can be
aborted between two. `AdPolicy` and `AdCreative` are two modules because the code is
two copies of the same rules; `GatesAgree` compares them. A text is its length, the
places of its spaces, and the phrases that rules look for. An asset has the fields its
node gives it, and the gate and the export read the ones they read (`Read`): a field that
is not there is `None`. What a pack outside this
repository does between two nodes (`Sanitized`, the pictures a host's model makes) is a
constant.

### AdPlanning

Six nodes that call nothing. A step runs a node on an input, or feeds the result of
the last node to the node a workflow runs after it: a page to the brief, a plan to its
variants, a check to its fixes to the next check. A text is a sequence of words, blanks and signs; what a
character-level function makes of a word (upper case, title case, whether it holds another) is
a constant. A slug is joined, cased, its blanks replaced and its separators squeezed as in
the code. `ApplyFix` is the editor outside this repository that does what a suggested fix
says.

## Runs

All passing runs check deadlock off: pull requests end merged, runs end, and
nothing else is left to do.

| run | question | bounds |
|---|---|---|
| `publication` | can any order of edits, gates and merges change or withdraw a published version, leave a wrong index or a broken version, or let one in that no gate saw? | 1 pack, 2 versions, 2 contents, 2 keys, 2 pull requests, 2 pushes each |
| `publication_deploys` | does every order of deploys, of main and by hand, implement `Catalog`? | 2 packs, 2 versions, 2 contents, 2 keys, 2 pull requests, 1 push each, 2 deploys by hand |
| `key_retired_meanwhile` | a statement of the code's comments that the pipeline does not keep | 2 packs, 1 version, 2 keys, 1 push each |
| `ad_publish` | is a rollback complete, can a failure deliver, is a success whole, does every run end? | every platform, 2 runs of the node |
| `http_fetch` | one side effect of a key, no leak, no retry after an abort, an end | 3 attempts, 2 calls (the second with the run and body of the first or others), 2 runs of the node |
| `http_nodes` | does a dead remote get a rest, does an open circuit stay open, do loops end at the first good answer, do pages cover the list, do events depend on how a stream is cut? | 3 callers with 2 calls each, threshold 2, cooldown 2, clock up to 3; 3 tries, waits up to 5; lists up to 6 items, pages of 2, server caps 1 to 3, 4 pages; 2 streams under every cut |
| `approval_gate` | whose decision is delivered, is the bound kept, is the history true, does the gate end? | every configuration, bound none or 1, 3 visits, counts up to 3; every `action` with no `decision`, approve, reject or request-changes |
| `approval_shown` | the card after a refinement | bound 1, 2 visits, no `decision` |
| `egress` | once each, and is what is reported sent? | a run and a fork, 7 kinds of node in 7 workflows of 1 or 2 steps, 3 messages (two that say other things, one that differs in its copies), 1 retry, 1 crash |
| `market_intel` | do summaries and rankings describe the outputs? | every node, lists up to 3 entries of every kind a validator tells apart, every order of wrong replies |
| `ad_studio` | does what the nodes make fit its placement, do the gates agree, is every row of the export tracked? | every placement alone, platforms together, copy at and beyond each limit, 1 abort |
| `ad_planning` | does a brief keep what it was given, is a plan what was approved, do slugs tell variants apart, do fixes hold, do reports add up? | 2 nodes in a row, small inputs for every branch |

Why these are enough: each hazard needs two actors that overlap once (two pull
requests; a run and its fork; a request and its late twin), and one more of
whatever is counted than the bound in the code. The publication runs are two since
each needs something else twice: a cancelled run or a refused push needs a second push to a
branch and two contents, and a key that loses its namespace a second key; deploys in the
wrong order and previews need two packs, so that one tree is not an extension of another,
and one push of each branch. Two versions are needed to publish beside an immutable one. A
third pull request adds only pairs of the same kind. The gate's bound of 1 has one visit more than it allows,
and a configuration without a bound counts on. Two calls of fetch are enough for one key to be
taken for another, three attempts for a wait that is neither the first nor the last. The
breaker needs a threshold of at least 2 and one caller more, so that a call is still out when
the circuit opens; the pages a list that ends on a page, one short of it and one after it. A
validator treats the entries of a list one by one but for ranks and counts, which three entries
disturb. `AdSpecs` is the whole table, so nothing of it is sampled. The theorems have no
bounds and cover what the runs leave open. A comment `Faulty variant` marks a definition
that is the code with a plausible bug; each property fails for one of them.

Symmetry is used where nothing distinguishes the values and no liveness is
checked: the pull requests of `Publication` and the runs of `Egress`.

## Fairness

- `AdPublish`: every awaited promise settles (`WF_vars(Settle)`), since fetch has
  time limits of its own. Nothing is assumed of the host or of late requests.
- `HttpFetch`: timers fire, the lookup settles, an aborted fetch rejects, the wait
  ends (`NodeFair`). Nothing makes a remote answer. `BodiesEnd` adds that a body
  that was begun ends or breaks; Node's client breaks off a body only when nothing
  arrives for 300 s, so a remote that sends a byte now and then is outside of it,
  and then the node waits (see Findings).
- `ApprovalGate`: the host goes on with what it can and fires timers; strong
  fairness of `Suspend`, `Decide`, `KeepFeedback`, `KeepArtifact` and `RecordGate` says
  it does not crash at the same place of the node for ever. No reviewer has to answer.
- The others have safety properties only: their nodes stop when the host does, and
  nothing in the repository says that it goes on.

## Theorems

Each proof is a step lemma for an inductive invariant, one case per action.

- `PublicationProofs` (any number of packs, versions, keys, pull requests, pushes and deploys):
  type correctness; the index on main describes main (`MainIndexStaysCurrent`); published
  versions are immutable (`MainImmutable`); everything on main is whole and signed by the key
  it names (`MainAuthentic`); a version enters main only as a gate saw it, under a key
  that was active there and permitted its pack (`MainEntersAsChecked`); `Publication` implements
  `Catalog`, deploys in any order and previews of branches included (`RefinesCatalog`). What a
  gate saw is not what is merged, so authenticity of main alone is not inductive:
  the invariant adds that a merge base is an earlier main, that what a queued run
  or the site has of main is one too (`Superseded`), what a green or running verdict says about
  the tree it is for (`BranchInv`), and what an auto-register run has checked out (`RunInv`). The
  heart is that a three-way merge of an immutable extension with an immutable extension
  is one. For the index, `IndexInv` says of every tree in flight when its index was made:
  two branches that both rebuilt it clash in the merge, since their index times differ, and a
  branch that added a manifest without rebuilding is refused by the gate; so the index a
  merge takes is of the side that has the manifests. For what enters, `KeyInv` says that
  whatever a commit with a green verdict adds to main is under keys that are active in that
  commit and permitted the pack there; nothing like it holds of main.
- `AdPublishProofs` (any number of runs): types, `RollbackComplete`,
  `FailedPublishNeverDelivers`, `SuccessIsWhole`. What the properties say of a run that has
  ended is not inductive, since the platform goes on. The invariant says what a run has
  while it creates (`Building`), that creations still out are of entities the run was never
  told of and removals of ones it was (`Outstanding`), that nothing exists whose parent was
  not named (`Linked`), and what is gone once its removal is behind the run (`Gone`), with
  the one exception that Google keeps a budget of a campaign nobody knows (`BudgetGone`).
  It rests on lemmas about the lists: what `Undo` holds, and that a campaign comes before
  its budget (`UndoIs`).
- `HttpProofs`, fetch: types, `NothingLeft`, `SideEffectOnce`, `NoRetryAfterAbort`,
  `GivesUpExhausted`, for any number of attempts, calls, workflow runs, bodies and runs of the
  node. `NothingLeft` lists what is armed in each stage, the pair of `sleep` included;
  `SideEffectOnce` follows from the remote remembering keys and from a success being an
  answer to a request of the node's own key.
- `HostProofs`, the gate: types, `DeliveredWasApproved`, `DeclinedWasDeclined`,
  `RefinementsBounded`, `HistoryFaithful`, for any bound and any verbs. The invariant ties the
  count, the history and the previous artifact to the version in every phase. With a crash
  between the writes that tie depends on the host: the count is exact where writes are kept
  with the completion (`Exact`), at least what it was where each is kept at once
  (`AtLeast`), and nothing where there are no variables; `Agreed` and `Bounded` say
  which.
- `HostProofs`, the sending nodes: types, `EmailSentOnce`, `EgressOncePerRun`,
  `ReportedWasDelivered`. The invariant says that ledger and messages agree both ways: what a
  node with such a key sent is recorded (`Recorded`), and what is recorded was sent by a message
  that says the same (`Honest`); it rests on the lemma that only the node itself makes its
  key (`AnchorIsOwned`). Of the rest of a message, which keys leave out, nothing is claimed.

- `HttpProofs`, the other nodes: all five properties of the run. The breaker (any number of
  callers, any threshold and cooldown): for `BreakerShieldsRemote` the argument
  charges each admitted call. Every call that was let through has failed and been counted
  in an object, or is still out, so the calls admitted are at most the failures counted and
  the callers holding one (`BreakerInv`); an object with `Threshold` failures refuses.
  `OpenCircuitStaysOpen` says once calls share one object (`OneObject`) only a call let
  through earlier moves the end of an open time, to a cooldown after that call began; that may
  be earlier than it was. A behaviour of `HttpNodes` is one of `CircuitBreaker` on the breaker's
  variables, so both hold of the composed module. The loops (`EndsAtFirstGoodAnswer`, any
  limit): every answer but the last is one the loop does not accept, and in
  retry-rate-limit-aware the gap before the next try is the wait it was owed, where a timer holds
  that long (`PollInv`); long-poll reads no Retry-After. Pagination (`PagesCoverTheList`, any
  page size, list and limit): the pages so far, flattened, are the list from the start to the
  position of the next request (`PageInv`); a limit of 0 asks for nothing. Streams
  (`StreamIsChunkBlind`, any set of streams): what was emitted followed by the events of the
  buffer and of what is still to come are the events of the whole, wherever a piece ends, a line
  break in two included (`StreamInv`).
- `AdStudioProofs`: all four properties, for any specifications, orders, custom rules and
  replies. `IInv`: the copy of every variant is within the limits of its placement, one
  adaptation per placement and in its order; and every report is what the two gates say *now*
  of an adaptation that fits, which is what makes `CopyFitsItsPlacement` and `GatesAgree`
  invariants, since a report outlives the step that made it. `ShotsFitTheirPlacement` is how
  sides are scaled, capped and rounded, and that the table recommends a length it accepts. `PackInv`: links are those the
  campaign's order asks for, and the rows and items of the export are those of the links and
  variants there are. The theorem that the gates agree goes through both copies of the rules
  one by one; that truncation leaves room rests on the place of the last space.
- `MarketIntelProofs`: `SummariesCountOutputs`, for any inputs and replies. `RunInv`: a second
  call follows a reply without JSON only, and the result is what the answers come to; so a node
  that is done has the outputs of its last reply, and the property becomes a lemma about
  each validator. The classes of a list part it, so their counts add up to its length; the rows of
  the ranking are the platforms of the communities, each once; sorting rearranges and does not
  lose a row. The assumption about replies is that something given for a list is a list and
  something given for a score is a number, which the validators' `Array.isArray` and
  `Number.isFinite` tell apart from `Missing`.
- `AdPlanningProofs`: five of the six properties, for any inputs the schemas allow and any number
  of nodes in a row. The nodes keep nothing, so the invariant (`PlanningInvariant`) says that
  each entry of `done` is what its node makes of its input, and that a check after a fix has
  the options of the check before it, on a storyboard that is well formed again; each property is
  then a lemma about one function. `FixesHold`: a check of pace, text size or length that fails
  says so with a fix that its own condition no longer fails, `PacingFix` rounding up, and a fix
  disturbs no other scene (`Sound`). The fix of a claim is exempt. `ReportsAddUp`: with a whole
  range of dates or none the totals are sums of what was asked for, and the list of suggestions
  never has a dimension twice while it grows. `BriefKeepsItsCore`: what a merge lays over a brief
  has optional fields only. `PlanKeepsItsWord`: the product of the axes repeats nothing, has a
  combination for every choice of values (`ProductOfAxes`), and as many as are counted; a filter
  keeps what breaks no constraint (`AllowedBreaksNone`); truncation keeps as many as it may.
  `PlanIsSpread`: each pick takes a combination whose values are used least. Let no pick have the
  value `u`. A pick with a value of that dimension that was picked before would be used more than
  the same combination with `u` in its place (`UsedMore`), which is one of the combinations
  (`SwapIn`) and not picked; so the picks have different values of the dimension, none of them
  `u`, and are fewer than its values (`BalancedTries`). For the focused strategy, what varies the
  focus alone stands first (`FocusFirst`).
- `ListsProofs`: what the three above need of data. The library's induction theorems take an
  operator and cannot be used, so induction is stated of sets: a set of numbers that has 0
  and with a number the next, a set of sequences that has the empty one and with a sequence
  those one longer. From it: a recursion over a sequence exists and is unique; flattening
  appends; the elements and the length of what was flattened or kept; a sum is the last of
  its partial sums, and the sizes of the parts of a set add up to its own; a stable sort by
  one number and then another rearranges a sequence into that order.

The type invariants of `AdPublish`, `HttpFetch`, `ApprovalGate` and `Egress` are proved and not checked
by a run of their own.

Assumptions are the named ASSUMEs of the modules, which TLC evaluates in every run. Those of
`AdStudio` say that lists are lists, that a custom rule does not take the id of a format
check, that a reply is one of the kinds the parser tells apart, and that `None` is no number
and names no click parameter; that of `MarketIntel` is `RepliesAssumption`;
`InputsAssumption` of `AdPlanning` says that inputs have the fields and types of the node's schema, and
that a plan, which the schema leaves open, has the axes and the maximum of one that the node
made itself; numbers are integers throughout.

Checked by TLC only: liveness (`EveryRunEnds`, `RunEnds`, `GateEnds`), which is out of the
prover's reach, and `SlugsTellApart`, which is about what a recursion over words computes. Every
other property of a passing run is stated by a theorem.

## Findings

Runs that TLC must find violated; PROJECT.json has quotes and lines.

1. `key_retired_meanwhile`: a version merges under a key that another pull request
   has retired since the check.
2. `approval_shown`: after a refinement the card shows the first artifact.

Met while reading and modelling, without a run of their own. Where the code and a text disagree,
the registry first:

- A run of registry-publish by hand is called "Manual redeploy without a content change"
  (`.github/workflows/registry-publish.yml:13`), and `registry/README.md:105` has the site deployed on
  merge to main. It may be started on any branch; the step that compares with the published
  versions runs for pull requests only (:88), and the deploy job asks for the event and not
  for the branch (:277). So the site may serve files that main never published, other bytes of
  a published version included, until main is deployed again. In the model it is `Dispatch`.
- `registry/README.md:142` has packs of `vendor.<org>.*` refused if their signing key is not the one
  registered for the namespace. permittedNamespaces is read from the tree a gate runs on
  (`scripts/lib/namespace-authority.mjs:69`): one pull request takes a namespace from a key,
  another publishes under it, each passes by itself, and main has a version under a key it does not
  permit. `EntersAsChecked` is what holds.
- `.github/workflows/registry-publish.yml:268-269` says that check-advisories "Forces the
  yank-with-advisory invariant the maintainer process depends on", and `registry/README.md:146` that it "fails the
  PR if any non-yanked version matches an active advisory". The advisory and the version may come
  from two pull requests neither of which holds the other
  (`registry/scripts/check-advisories.mjs:244`): both are green, and main holds an affected version that is
  not yanked. The run on the push fails after the fact, and the site stays behind.
- Two deploys that finish in the other order leave the site behind main
  (`.github/workflows/registry-publish.yml:272`).
- `keyMaySign` (`scripts/lib/namespace-authority.mjs:68`) refuses every key that is not
  active, so retiring one turns the gates red for what it signed;
  `scripts/check-published-immutable.mjs:18` counts on old signatures.

Nodes that call somebody:

- core.openwop.http: fetch retries a 4xx whose body does not arrive (`index.mjs:357`,
  README:31), and its timeout does not cover the body (`index.mjs:339`,
  `fetch.config.json:45`). The comment at :729 says that idempotency-key has the
  formula of fetch; the node quotes a string payload as JSON, fetch does not. What
  :731 calls overrides are used only when the context has nothing. The schema of
  sse-consume gives `durationMs` a default of 30000; the code sets no timer without one.
- `packs/vendor.myndhyve.chat/index.mjs:375-378` calls `action` the validated field and "so it is the
  one to read"; the code reads `decision` first (:381). With the validated action "reject" and the decision
  "approve" the chain delivers. `:401-402` (and :218 of `escalate` and `defer`) has every unknown verb stay
  a refinement that approves nothing; the two lines before look at the flag and at the edited artifact
  first, so that "escalate" with `approved: true` delivers. Both are in the model: `Verb`, `Action`.
- `packs/core.openwop.integration/index.mjs:25-28` calls suppression safe because "a genuinely-intended
  identical re-send is recoverable". The key of an e-mail leaves out cc, bcc, from and replyTo
  (:80-84), all of which are sent (:93-104), and that of a push its data (:221-224). A message that
  differs in nothing else is not sent, and its step reports that it was.
- `packs/core.openwop.integration/README.md:55` has the run in the e-mail key and :57
  has a failed send complete with `sent: false`; the code leaves the run out and
  throws. The comments at `index.mjs:188` and `:218` call keys that contain the run
  fork-stable.
- The Google pack's README has `rolledBack` say what was removed; it is made from
  the ids known, whatever became of the removals.

Nodes that make something:

- `packs/vendor.myndhyve.market-intel-thread-triage/README.md:9` has low-signal threads dropped before they
  are extracted from. A queue that the model gives is taken as it is (`index.mjs:288`), threads it marks
  "skip" included; only a queue the node builds itself leaves them out. market-intel-discovery
  never reads the warnings of the model (`index.mjs:130`, README:18).
- `packs/vendor.myndhyve.ads-crew/prompts/creative-director.md:35-36` has a video checked by the creative gate,
  and the gate's README:14 lists "video duration bounds". The video node gives `durationSeconds`
  and `fileSizeBytes` and neither type nor placement (`packs/vendor.myndhyve.ads-video-generate/index.mjs:214-230`);
  the gate reads `type`, `placement`, `duration` and `fileSize`
  (`packs/vendor.myndhyve.ads-creative-validate/index.mjs:122-160`), and the export `fileSize`. So a generated
  video passes whatever its length, and its size counts as 0.
- `packs/vendor.myndhyve.ads-studio-core/README.md:21` has nothing throw: "surfaces as ... `validation.valid:
  false` (variant plan) in outputs". For an empty separator, which the schema allows, the pattern at :323 throws, and
  the node fails with `VARIANT_PLAN_FAILED` (:814-820) on a plan that `validateVariantPlan` calls
  valid. `winnerSynthesize` does without platforms (:667).
- `packs/vendor.myndhyve.ads-metrics-import/README.md:38` has start AND end of a date range match
  exactly; the code compares only when the range asked for has both (`index.mjs:129`), so half a
  range counts snapshots of every date.
- ads-platforms: placements win over platforms (`index.mjs:1497`, README:9), and the
  README's table is older than the specifications. ads-copy: an empty array becomes
  a variant with the text `[]` (:198-201 say otherwise), and `AI_OUTPUT_UNPARSEABLE` is
  reported as `COPY_GENERATE_FAILED`. ads-creative :176 speaks of a partial success
  and returns an error.

Edges of the code that the models contain, and that no text speaks of:

- Breaker: `now` is read before the request, so answers slower than the cooldown never
  open it, and a failure that comes late sets the end of the open time anew from its own earlier
  `now`. Two first calls each make an object; one is lost, or the two take turns under the key while
  calls overlap, and failures are counted apart. long-poll and retry-rate-limit-aware wait after
  the last try before they give up, and throw the last answer away; long-poll takes an empty body for
  news and reads no Retry-After (:591). A Retry-After that is no time, or longer than 2^31-1 ms, waits
  1 ms. An offset pagination ends early when the server's cap is below the page size, or on an error page.
- Gate: without `ctx.variables` (:408) nothing is counted and nothing is bounded. Where the host keeps each
  write at once, a crash between them counts an iteration twice, and the reviewer sees fewer
  refinements than the bound.
- TikTok: an answer without an ad id is carried on as `null` into a success. A host that crashes in the
  middle of a chain (`packs/vendor.myndhyve.ads-publish-meta/index.mjs:320` for Meta) leaves what was made
  and runs the node from its start.
- Ads: variants are not cut to `variantCount`; the sides of an image are capped one by
  one, so that 1080x1920 capped at 1024 is asked for as 1024x1024; custom parameters can replace
  `utm_source`; specs may list `video` for a placement without a video specification; a name or an
  address in the CSV is not escaped.
- Planning: evidence after the tenth bullet is cut; numbers among page statistics
  are left out. An `incompatible` constraint of one axis is ignored (:241), one of several forbids every
  mix of the values it lists. An empty axis is estimated as one variant and makes none (:229). Slugs
  of `a_b` with `c` and `a` with `b_c` are equal. A thinned plan is spread but not even. The fix of
  a claim empties the overlay only, though the voiceover may be to blame; a fix of pace may exceed the
  maximum length. A given field of a brief replaces the old one as a whole, holes included. Metrics: a
  snapshot given twice is summed twice, an optional metric that is null becomes 0.
- Not modelled: the cursor of the round robin in vendor.myndhyve.agent-orchestration (:390-397) is read and
  written around an await, so two dispatches at once may get one agent.

## Not modelled, and the plan

PROJECT.json lists every component with its status. Left out for good: pure JSON
walks (the manifest gates), hosting, authoring tools, data packs, host adapters.
Character-level algorithms (number formatting of JCS, CRC and tar headers) and
comparisons of digests (webhook-verify) are not for a model checker.

What could come next, in this order:

1. `Suspending`: a2a multiTurnCoordinator, delegate, phaseInputGate, clarificationGate,
   assetDecisionGate: what a resumption repeats.
2. Algorithms: version order and advisory ranges against a reference order; batch, join,
   sort and dedup of flow and data; steps of campaign sequences.
3. Both jobs of auto-register over one branch, and the schema mirror they share.
