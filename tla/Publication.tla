---------------------------- MODULE Publication ----------------------------
(***************************************************************************)
(* How a pack version reaches the registry: contributors push to pull      *)
(* request branches, the auto-register workflow signs and stages what they *)
(* add and pushes it back to the branch, the registry-publish workflow     *)
(* validates pull requests against their base and deploys every push to    *)
(* main, and any branch a maintainer starts it on by hand. Pull requests    *)
(* progress at the same time and merge into one main.                      *)
(***************************************************************************)
EXTENDS RegistryTree

CONSTANTS
  PullRequests,  \* pull requests that may be opened, each once
  SeedPacks,     \* packs already published when the behaviour starts
  SeedSource,    \* their source
  SeedKeys,      \* the keys listed then
  SeedGrant,     \* their namespaces
  NoTree,        \* no commit
  MaxEdits,      \* bound: pushes a contributor makes to one pull request
  MaxDispatches  \* bound: runs of registry-publish started by hand

ASSUME SeedAssumption ==
  /\ SeedSource \in Source
  /\ SeedGrant \in Grants /\ SeedPacks \subseteq SeedGrant
  /\ BotKey \in SeedKeys /\ SeedKeys \subseteq Keys
  /\ MaxEdits \in Nat /\ MaxDispatches \in Nat

VARIABLES
  main,   \* content of the main branch
  pr,     \* the pull requests
  run,    \* the auto-register run of each pull request
  queue,  \* runs of registry-publish that may deploy and have not ended
  live,   \* what packs.openwop.dev serves
  now,    \* clock of the build-index runs
  manual  \* runs started by hand so far

vars == <<main, pr, run, queue, live, now, manual>>

Branch == [phase: {"closed", "open", "merged"},
           base: Tree \cup {NoTree},    \* merge base with main
           head: Tree \cup {NoTree},
           rev: Nat,          \* commits pushed to the branch so far
           due: BOOLEAN,      \* a push has not been taken up by auto-register
           verdict: {"none", "running", "green", "red"},
           merged: Tree \cup {NoTree}]  \* the commit the verdict is about

\* What a run of registry-publish checked out: a commit of main or of a branch.
Checkout == [tree: Tree, onMain: BOOLEAN]

\* What an auto-register run checked out.
Run == [head: Tree, base: Tree, main: Tree, rev: Nat]

ASSUME NoTreeAssumption == NoTree \notin Tree \cup Run

SeedKey == BotKey
SeedListing == [status |-> "active", permits |-> SeedGrant]
SeedAt(pv) == pv[1] \in SeedPacks /\ pv[2] = SeedSource.version
SeedTarball ==
  [content |-> SeedSource.content, keyId |-> SeedKey, signer |-> SeedKey]
SeedManifest == [keyId |-> SeedKey, integrity |-> SeedTarball, yanked |-> FALSE]
SeedTree ==
  LET json == [pv \in PV |-> IF SeedAt(pv) THEN SeedManifest ELSE NoFile] IN
  [src |-> [p \in Packs |-> IF p \in SeedPacks THEN SeedSource ELSE NoFile],
   tgz |-> [pv \in PV |-> IF SeedAt(pv) THEN SeedTarball ELSE NoFile],
   json |-> json,
   sig |-> [pv \in PV |-> IF SeedAt(pv)
              THEN [keyId |-> SeedKey, signer |-> SeedKey] ELSE NoFile],
   index |-> [at |-> 0, rows |-> json],
   keys |-> [k \in Keys |-> IF k \in SeedKeys THEN SeedListing ELSE Unlisted],
   affected |-> {}]

Init ==
  /\ main = SeedTree
  /\ pr = [r \in PullRequests |->
             [phase |-> "closed", base |-> NoTree, head |-> NoTree, rev |-> 0,
              due |-> FALSE, verdict |-> "none", merged |-> NoTree]]
  /\ run = [r \in PullRequests |-> NoTree]
  /\ queue = {}
  /\ live = [tree |-> main, onMain |-> TRUE]
  /\ now = 0
  /\ manual = 0

-----------------------------------------------------------------------------
(* The contributor.                                                        *)

Open(r) ==
  /\ pr[r].phase = "closed"
  /\ pr' = [pr EXCEPT ![r].phase = "open", ![r].base = main, ![r].head = main]
  /\ UNCHANGED <<main, run, queue, live, now, manual>>

\* The packs whose source the branch changes: the scope of an auto-register
\* run, and what its path filter packs/** looks at.
ChangedPacks(b, h) == {p \in Packs : h.src[p] # b.src[p]}
TouchesRegistry(b, h) == RegistryPart(b) # RegistryPart(h)

\* A push: the new head has no verdict, and auto-register is due if the branch
\* changes packs/. The run in progress is told to stop (cancel-in-progress) and
\* either stops or gets to its own push first.
\* (Faulty variant: the commit the last verdict was about is kept.)
PushKeepsMerged(r, base, head) ==
  /\ pr' = [pr EXCEPT ![r] =
       [phase |-> "open", base |-> base, head |-> head, rev |-> pr[r].rev + 1,
        due |-> ChangedPacks(base, head) # {},
        verdict |-> "none", merged |-> pr[r].merged]]
  /\ UNCHANGED <<main, run, queue, live, manual>>
Push(r, base, head) ==
  /\ pr' = [pr EXCEPT ![r] =
       [phase |-> "open", base |-> base, head |-> head, rev |-> pr[r].rev + 1,
        due |-> ChangedPacks(base, head) # {},
        verdict |-> "none", merged |-> NoTree]]
  /\ \/ UNCHANGED run
     \/ run[r] # NoTree /\ run' = [run EXCEPT ![r] = NoTree]
  /\ UNCHANGED <<main, queue, live, manual>>

Edit(r, head) == Push(r, pr[r].base, head) /\ UNCHANGED now
Rebuild(r, head) ==
  /\ now' = now + 1
  /\ Push(r, pr[r].base, Reindex(head, now'))

EditSource(r) ==
  \E p \in Packs, s \in Source :
    pr[r].head.src[p] # s /\ Edit(r, [pr[r].head EXCEPT !.src[p] = s])

\* A publisher runs auto-register with a key of their own, and pushes.
PublishLocally(r) ==
  \E k, priv \in Keys :
    LET h == pr[r].head  S == Todo(h, Packs, k) IN
      S # {} /\ Rebuild(r, Copied(h, S, S, S, k, priv))

\* The same run, interrupted while it copies the files of pack p or before it
\* builds the index (--no-reindex).
PublishInterrupted(r) ==
  \E k \in Keys :
    LET h == pr[r].head  S == Todo(h, Packs, k) IN
      \E p \in S, rest \in SUBSET S :
        LET done == rest \ {p} IN
          \/ Edit(r, Copied(h, done \cup {p}, done, done, k, k))
          \/ Edit(r, Copied(h, done \cup {p}, done \cup {p}, done, k, k))
          \/ Edit(r, Copied(h, done \cup {p}, done \cup {p}, done \cup {p}, k, k))

\* The published files of a version are built again from a changed source.
Republish(r) ==
  \E p \in Packs, k \in Keys :
    LET h == pr[r].head IN
      /\ h.src[p] # NoFile
      /\ h.json[Current(h, p)] # NoFile
      /\ KeyMaySign(h, k, p)
      /\ Rebuild(r, Copied(h, {p}, {p}, {p}, k, k))

\* A version is yanked, or a yank is taken back.
SetYanked(r) ==
  \E pv \in PV, y \in BOOLEAN :
    LET h == pr[r].head IN
      /\ h.json[pv] # NoFile
      /\ h.json[pv].yanked # y
      /\ Rebuild(r, [h EXCEPT !.json[pv].yanked = y])

\* The files of a version are deleted.
Withdraw(r) ==
  \E pv \in PV :
    LET h == pr[r].head IN
      /\ h.json[pv] # NoFile
      /\ Rebuild(r, [h EXCEPT !.tgz[pv] = NoFile, !.json[pv] = NoFile,
                              !.sig[pv] = NoFile])

\* A key is registered, retired, taken off the list or given other namespaces.
EditKey(r) ==
  \E k \in Keys, e \in Listing \cup {Unlisted} :
    /\ pr[r].head.keys[k] # e
    /\ Edit(r, [pr[r].head EXCEPT !.keys[k] = e])

AddAdvisory(r) ==
  \E pv \in PV \ pr[r].head.affected :
    Edit(r, [pr[r].head EXCEPT !.affected = @ \cup {pv}])

\* main is merged into the branch. Conflicts are settled one way or the other,
\* and the index built again.
UpdateBranch(r) ==
  LET b == pr[r].base  h == pr[r].head IN
    /\ b # main
    /\ \/ /\ Mergeable(b, h, main)
          /\ Push(r, main, MergeTree(b, h, main))
          /\ UNCHANGED now
       \/ /\ ~Mergeable(b, h, main)
          /\ now' = now + 1
          /\ \/ Push(r, main, Reindex(MergeTree(b, h, main), now'))
             \/ Push(r, main, Reindex(MergeTree(b, main, h), now'))

\* What a contributor may push next.
Contribute(r) ==
  /\ pr[r].phase = "open"
  /\ pr[r].rev < MaxEdits
  /\ \/ EditSource(r) \/ PublishLocally(r) \/ PublishInterrupted(r)
     \/ Republish(r) \/ SetYanked(r) \/ Withdraw(r)
     \/ EditKey(r) \/ AddAdvisory(r) \/ UpdateBranch(r)

-----------------------------------------------------------------------------
(* registry-publish on the pull request.                                   *)

\* GitHub makes the merge commit when the branch is pushed; there is none, and
\* no run, while the branch conflicts with main.
ValidateStart(r) ==
  LET b == pr[r].base  h == pr[r].head IN
    /\ pr[r].phase = "open"
    /\ pr[r].verdict = "none"
    /\ TouchesRegistry(b, h)
    /\ Mergeable(b, h, main)
    /\ pr' = [pr EXCEPT ![r].verdict = "running",
                        ![r].merged = MergeTree(b, h, main)]
    /\ UNCHANGED <<main, run, queue, live, now, manual>>

\* (Faulty variant: the deploy job runs for a pull request as well.)
ValidateEndDeploys(r) ==
  /\ pr[r].phase = "open"
  /\ pr[r].verdict = "running"
  /\ ServeGate(pr[r].merged) /\ PullRequestGate(main, pr[r].merged)
  /\ pr' = [pr EXCEPT ![r].verdict = "green"]
  /\ live' = [tree |-> pr[r].merged, onMain |-> TRUE]
  /\ UNCHANGED <<main, run, queue, now, manual>>

\* The base the merge commit is compared with is fetched by the run itself.
ValidateEnd(r) ==
  /\ pr[r].phase = "open"
  /\ pr[r].verdict = "running"
  /\ IF ServeGate(pr[r].merged) /\ PullRequestGate(main, pr[r].merged)
     THEN pr' = [pr EXCEPT ![r].verdict = "green"]
     ELSE pr' = [pr EXCEPT ![r].verdict = "red", ![r].merged = NoTree]
  /\ UNCHANGED <<main, run, queue, live, now, manual>>

-----------------------------------------------------------------------------
(* auto-register on the pull request.                                      *)

RunStart(r) ==
  /\ pr[r].phase = "open"
  /\ pr[r].due
  /\ run[r] = NoTree
  /\ Mergeable(pr[r].base, pr[r].head, main)
  /\ run' = [run EXCEPT ![r] = [head |-> pr[r].head, base |-> pr[r].base,
                                main |-> main, rev |-> pr[r].rev]]
  /\ pr' = [pr EXCEPT ![r].due = FALSE]
  /\ UNCHANGED <<main, queue, live, now, manual>>

RunTodo(r) == Todo(run[r].head, ChangedPacks(run[r].base, run[r].head), BotKey)
RunResult(r, at) ==
  LET S == RunTodo(r) IN
    Reindex(Copied(run[r].head, S, S, S, BotKey, BotKey), at)
RunPasses(r) ==
  /\ RunTodo(r) # {}
  /\ RegistryCheck(run[r].main, RunResult(r, now + 1))
\* (Faulty variant: git push --force.)
RunForces(r) == pr[r].phase = "open"
\* git push is refused when the branch has commits the run did not check out.
RunFastForwards(r) == pr[r].phase = "open" /\ pr[r].rev = run[r].rev

\* A push with the workflow's own token starts no workflow: what the run checked
\* before it committed is the verdict the new head has.
RunPush(r) ==
  /\ run[r] # NoTree
  /\ RunPasses(r)
  /\ RunFastForwards(r)
  /\ now' = now + 1
  /\ LET h == RunResult(r, now') IN
       pr' = [pr EXCEPT ![r].head = h, ![r].rev = @ + 1,
                        ![r].verdict = "green", ![r].merged = h]
  /\ run' = [run EXCEPT ![r] = NoTree]
  /\ UNCHANGED <<main, queue, live, manual>>

\* Nothing to publish, a gate refuses, or the push is rejected.
RunStop(r) ==
  /\ run[r] # NoTree
  /\ ~(RunPasses(r) /\ RunFastForwards(r))
  /\ run' = [run EXCEPT ![r] = NoTree]
  /\ UNCHANGED <<main, pr, queue, live, now, manual>>

-----------------------------------------------------------------------------
(* Merging and deploying.                                                  *)

\* A maintainer merges a branch that has no conflict with main and, if it
\* changes registry/, whose head passed.
Merge(r) ==
  LET b == pr[r].base  h == pr[r].head  m == MergeTree(b, h, main) IN
    /\ pr[r].phase = "open"
    /\ h # b
    /\ Mergeable(b, h, main)
    /\ TouchesRegistry(b, h) => pr[r].verdict = "green"
    /\ main' = m
    /\ pr' = [pr EXCEPT ![r].phase = "merged", ![r].base = NoTree,
                        ![r].head = NoTree, ![r].due = FALSE, ![r].merged = NoTree]
    /\ queue' = IF RegistryPart(m) = RegistryPart(main)
                THEN queue ELSE queue \cup {[tree |-> m, onMain |-> TRUE]}
    /\ UNCHANGED <<run, live, now, manual>>

\* workflow_dispatch: a maintainer starts registry-publish on main, or on the
\* branch of a pull request as it is at that moment.
Dispatch ==
  /\ manual < MaxDispatches
  /\ manual' = manual + 1
  /\ \/ queue' = queue \cup {[tree |-> main, onMain |-> TRUE]}
     \/ \E r \in PullRequests :
          /\ pr[r].phase = "open"
          /\ queue' = queue \cup {[tree |-> pr[r].head, onMain |-> FALSE]}
  /\ UNCHANGED <<main, pr, run, live, now>>

\* The run of one checkout: validate, without the step only a pull request has,
\* and deploy if that passes. Runs are not ordered.
Deploy(c) ==
  /\ c \in queue
  /\ queue' = queue \ {c}
  /\ live' = IF ServeGate(c.tree) THEN c ELSE live
  /\ UNCHANGED <<main, pr, run, now, manual>>

Next ==
  \/ \E r \in PullRequests :
       \/ Open(r) \/ Contribute(r)
       \/ ValidateStart(r) \/ ValidateEnd(r)
       \/ RunStart(r) \/ RunPush(r) \/ RunStop(r)
       \/ Merge(r)
  \/ Dispatch
  \/ \E c \in queue : Deploy(c)

Spec == Init /\ [][Next]_vars

-----------------------------------------------------------------------------
(* Properties.                                                             *)

\* Every variable stays in its type, and a verdict is about a commit.
TypeOK ==
  /\ main \in Tree /\ live \in Checkout /\ queue \subseteq Checkout
  /\ pr \in [PullRequests -> Branch]
  /\ run \in [PullRequests -> Run \cup {NoTree}]
  /\ now \in Nat /\ manual \in Nat
  /\ \A r \in PullRequests :
       /\ pr[r].phase = "closed" => pr[r].verdict = "none" /\ pr[r].merged = NoTree
       /\ pr[r].phase = "open" =>
            /\ pr[r].base # NoTree /\ pr[r].head # NoTree
            /\ pr[r].verdict \in {"running", "green"} <=> pr[r].merged # NoTree

\* A version published on main is immutable: no merge, of however many pull
\* requests validated against however old a base, replaces or removes one of
\* its files or changes its manifest outside the lifecycle fields
\* (check-published-immutable.mjs, which only pull requests run).
PublishedImmutable == [][Immutable(main, main')]_main

\* Every published version is whole and authentic on main: its tarball, its
\* manifest and its detached signature are all there, and both signatures were
\* made by the key the manifest names. The gates that check this ran on other
\* trees than the one a merge makes.
Authentic(t, pv) ==
  /\ t.json[pv] # NoFile <=> t.tgz[pv] # NoFile
  /\ t.json[pv] # NoFile <=> t.sig[pv] # NoFile
  /\ t.json[pv] # NoFile =>
       LET k == t.json[pv].keyId IN t.tgz[pv].signer = k /\ t.sig[pv].signer = k
PublishedAuthentic == \A pv \in PV : Authentic(main, pv)

\* main's index and integrity fields describe main's own files, although every
\* pull request built them for the tree it forked from (build-index --check).
MainIndexCurrent == main.json = Indexed(main) /\ main.index.rows = Indexed(main)

\* Publication implements the catalog: main's files are what is published, the
\* deployed commit's what is served, and what a run on a branch deployed is a
\* preview. A yank changes no file.
FilesOf(t) ==
  [pv \in PV |->
     IF t.json[pv] = NoFile THEN NoFile
     ELSE [tgz |-> t.tgz[pv], sig |-> t.sig[pv], keyId |-> t.json[pv].keyId]]
Abstract == INSTANCE Catalog WITH
  Version <- PV,
  Files <- [tgz: Tarball \cup {NoFile}, sig: Signature \cup {NoFile}, keyId: Keys],
  None <- NoFile,
  published <- FilesOf(main),
  served <- FilesOf(live.tree),
  official <- live.onMain
ImplementsCatalog == Abstract!CatalogSpec

\* What enters main is what the checks of its pull request ran on, however main, its
\* keys and the branch have moved since: a new version has the files of the commit the
\* verdict is about, and that commit lists its key as active and permits it the pack
\* (check-published-immutable.mjs, verify-signatures, keyMaySign).
Entered(g, t, pv) ==
  /\ g.tgz[pv] = t.tgz[pv] /\ g.json[pv] = t.json[pv] /\ g.sig[pv] = t.sig[pv]
  /\ KeyMaySign(g, t.json[pv].keyId, pv[1])
EnteredAsChecked(pv) ==
  main.json[pv] = NoFile /\ main'.json[pv] # NoFile =>
    \E r \in PullRequests :
      /\ pr[r].phase = "open" /\ pr'[r].phase = "merged"
      /\ pr[r].merged # NoTree /\ Entered(pr[r].merged, main', pv)
EntersAsChecked == [][\A pv \in PV : EnteredAsChecked(pv)]_vars

\* A version enters main only under a key that is active there. The gate for it
\* compares a pull request with the main of its run, and nothing repeats it on
\* the push (check-published-immutable.mjs: "a push to main was already checked
\* on its PR").
NewVersionSignedByActiveKey == [][NewSignedByActiveKey(main, main')]_main

=============================================================================
