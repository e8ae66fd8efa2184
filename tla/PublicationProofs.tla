------------------------- MODULE PublicationProofs -------------------------
(***************************************************************************)
(* Proofs about Publication, for every set of packs, versions, keys and    *)
(* pull requests: the types, the immutability of what main publishes, its  *)
(* authenticity, and the refinement of the catalog.                        *)
(***************************************************************************)
EXTENDS Publication, TLAPS

-----------------------------------------------------------------------------
(* Types of the operators on trees.                                        *)

\* What a pack source would be published as is a version of that pack.
LEMMA CurrentType ==
  ASSUME NEW t \in Tree, NEW p \in Packs, t.src[p] # NoFile
  PROVE  /\ Current(t, p) \in PV
         /\ Current(t, p)[1] = p
         /\ t.src[p] \in Source
BY DEF Current, PV, Tree, Source

\* The packs of a run have a source.
LEMMA TodoType ==
  ASSUME NEW t, NEW scope, NEW k, NEW p \in Todo(t, scope, k)
  PROVE  p \in scope /\ t.src[p] # NoFile /\ t.json[Current(t, p)] = NoFile
BY DEF Todo

\* Copying the built files of packs that have a source yields a tree.
LEMMA CopiedType ==
  ASSUME NEW t \in Tree, NEW T \in SUBSET Packs, NEW J \in SUBSET T,
         NEW S \in SUBSET J, \A p \in T : t.src[p] # NoFile,
         NEW k \in Keys, NEW priv \in Keys
  PROVE  /\ Copied(t, T, J, S, k, priv) \in Tree
         /\ Copied(t, T, J, S, k, priv).src = t.src
<1> DEFINE u == Copied(t, T, J, S, k, priv)
<1>1. \A pv \in Currents(t, T) : pv[1] \in T /\ pv[1] \in Packs
  BY CurrentType DEF Currents, Current
<1>2. \A pv \in Currents(t, T) : t.src[pv[1]].content \in Contents
  BY <1>1 DEF Tree, Source
<1>3. u.tgz \in [PV -> Tarball \cup {NoFile}]
  BY <1>2 DEF Copied, Tree, Tarball
<1>4. u.json \in [PV -> Manifest \cup {NoFile}]
  BY DEF Copied, Tree, Manifest
<1>5. u.sig \in [PV -> Signature \cup {NoFile}]
  BY DEF Copied, Tree, Signature
<1> QED BY <1>3, <1>4, <1>5 DEF Copied, Tree

\* build-index fills in the integrity of the manifests there are.
LEMMA IndexedType ==
  ASSUME NEW t \in Tree
  PROVE  /\ Indexed(t) \in [PV -> Manifest \cup {NoFile}]
         /\ \A pv \in PV : Indexed(t)[pv] = NoFile <=> t.json[pv] = NoFile
         /\ \A pv \in PV : t.json[pv] # NoFile =>
              Indexed(t)[pv].keyId = t.json[pv].keyId
<1>1. ASSUME NEW pv \in PV, t.json[pv] # NoFile, t.tgz[pv] # NoFile
      PROVE  /\ [t.json[pv] EXCEPT !.integrity = t.tgz[pv]] \in Manifest
             /\ [t.json[pv] EXCEPT !.integrity = t.tgz[pv]].keyId = t.json[pv].keyId
  BY <1>1 DEF Tree, Manifest
<1> QED BY <1>1, NoFileAssumption DEF Indexed, Tree

\* Rebuilding the index yields a tree with the same files.
LEMMA ReindexType ==
  ASSUME NEW t \in Tree, NEW n \in Nat
  PROVE  /\ Reindex(t, n) \in Tree
         /\ Reindex(t, n).tgz = t.tgz
         /\ Reindex(t, n).sig = t.sig
         /\ Reindex(t, n).json = Indexed(t)
         /\ Reindex(t, n).index.at = n
BY IndexedType DEF Reindex, Tree

\* A merge picks every file from one of two trees.
LEMMA PickAllType ==
  ASSUME NEW D, NEW V, NEW b \in [D -> V], NEW h \in [D -> V], NEW m \in [D -> V]
  PROVE  /\ PickAll(b, h, m) \in [D -> V]
         /\ \A x \in D : PickAll(b, h, m)[x] = Pick(b[x], h[x], m[x])
BY DEF PickAll, Pick

LEMMA MergeTreeType ==
  ASSUME NEW b \in Tree, NEW h \in Tree, NEW m \in Tree
  PROVE  MergeTree(b, h, m) \in Tree
<1>1. /\ PickAll(b.src, h.src, m.src) \in [Packs -> Source \cup {NoFile}]
      /\ PickAll(b.tgz, h.tgz, m.tgz) \in [PV -> Tarball \cup {NoFile}]
      /\ PickAll(b.json, h.json, m.json) \in [PV -> Manifest \cup {NoFile}]
      /\ PickAll(b.sig, h.sig, m.sig) \in [PV -> Signature \cup {NoFile}]
      /\ PickAll(b.index.rows, h.index.rows, m.index.rows)
           \in [PV -> Manifest \cup {NoFile}]
      /\ PickAll(b.keys, h.keys, m.keys) \in [Keys -> Listing \cup {Unlisted}]
  BY PickAllType DEF Tree
<1>2. /\ Pick(b.index.at, h.index.at, m.index.at) \in Nat
      /\ Pick(b.affected, h.affected, m.affected) \in SUBSET PV
  BY DEF Pick, Tree
<1> QED BY <1>1, <1>2 DEF MergeTree, Tree

-----------------------------------------------------------------------------
(* Immutability of a merge.                                                *)

AllAuthentic(t) == \A pv \in PV : Authentic(t, pv)

\* In a version the base does not publish, the files of the head were copied in
\* order: no manifest without a tarball, no signature without a manifest, and
\* both signatures by one key.
StagedInOrder(b, h) ==
  \A pv \in PV : b.json[pv] = NoFile =>
    /\ h.json[pv] # NoFile => h.tgz[pv] # NoFile
    /\ h.sig[pv] # NoFile =>
         h.json[pv] # NoFile /\ h.tgz[pv].signer = h.sig[pv].signer

\* What was validated, g, speaks for the head h: it has every file h changes, and
\* the files h has for the versions that main, m, does not publish.
Represents(g, b, h, m) ==
  \A pv \in PV :
    /\ m.json[pv] = NoFile \/ h.tgz[pv] # b.tgz[pv] => g.tgz[pv] = h.tgz[pv]
    /\ m.json[pv] = NoFile \/ h.json[pv] # b.json[pv] => g.json[pv] = h.json[pv]
    /\ m.json[pv] = NoFile \/ h.sig[pv] # b.sig[pv] => g.sig[pv] = h.sig[pv]

\* Immutability composes: a tree further on from main is further on from a base.
LEMMA ImmutableTransitive ==
  ASSUME NEW a, NEW b, NEW c, Immutable(a, b), Immutable(b, c)
  PROVE  Immutable(a, c)
<1> SUFFICES ASSUME NEW pv \in PV, a.json[pv] # NoFile
             PROVE  /\ c.json[pv] # NoFile
                    /\ Frozen(c.json[pv]) = Frozen(a.json[pv])
                    /\ a.tgz[pv] # NoFile => c.tgz[pv] = a.tgz[pv]
                    /\ a.sig[pv] # NoFile => c.sig[pv] = a.sig[pv]
  BY DEF Immutable
<1>1. /\ b.json[pv] # NoFile
      /\ Frozen(b.json[pv]) = Frozen(a.json[pv])
      /\ a.tgz[pv] # NoFile => b.tgz[pv] = a.tgz[pv]
      /\ a.sig[pv] # NoFile => b.sig[pv] = a.sig[pv]
  BY DEF Immutable
<1>2. /\ c.json[pv] # NoFile
      /\ Frozen(c.json[pv]) = Frozen(b.json[pv])
      /\ b.tgz[pv] # NoFile => c.tgz[pv] = b.tgz[pv]
      /\ b.sig[pv] # NoFile => c.sig[pv] = b.sig[pv]
  BY <1>1 DEF Immutable
<1> QED BY <1>1, <1>2

\* A tree is immutable with respect to itself.
LEMMA ImmutableReflexive ==
  ASSUME NEW t
  PROVE  Immutable(t, t)
BY DEF Immutable

\* What a merge puts at one version, and that it had no conflict there.
LEMMA MergePoint ==
  ASSUME NEW b \in Tree, NEW h \in Tree, NEW m \in Tree, NEW pv \in PV
  PROVE  LET u == MergeTree(b, h, m) IN
         /\ u.tgz[pv] = Pick(b.tgz[pv], h.tgz[pv], m.tgz[pv])
         /\ u.json[pv] = Pick(b.json[pv], h.json[pv], m.json[pv])
         /\ u.sig[pv] = Pick(b.sig[pv], h.sig[pv], m.sig[pv])
         /\ Mergeable(b, h, m) =>
              /\ ~Clash(b.tgz[pv], h.tgz[pv], m.tgz[pv])
              /\ ~Clash(b.json[pv], h.json[pv], m.json[pv])
              /\ ~Clash(b.sig[pv], h.sig[pv], m.sig[pv])
<1>1. DOMAIN m.tgz = PV /\ DOMAIN m.json = PV /\ DOMAIN m.sig = PV
  BY DEF Tree
<1> QED BY <1>1 DEF MergeTree, PickAll, Mergeable, ClashAny

\* Merging a branch that changes no file of a version leaves main's.
LEMMA MergeUntouched ==
  ASSUME NEW b \in Tree, NEW h \in Tree, NEW m \in Tree,
         ~TouchesRegistry(b, h), AllAuthentic(m)
  PROVE  /\ Immutable(m, MergeTree(b, h, m))
         /\ AllAuthentic(MergeTree(b, h, m))
<1> DEFINE u == MergeTree(b, h, m)
<1>1. b.tgz = h.tgz /\ b.json = h.json /\ b.sig = h.sig
  BY DEF TouchesRegistry, RegistryPart
<1>2. ASSUME NEW pv \in PV
      PROVE  u.tgz[pv] = m.tgz[pv] /\ u.json[pv] = m.json[pv] /\ u.sig[pv] = m.sig[pv]
  BY <1>1, MergePoint DEF Pick
<1> HIDE DEF u
<1>3. Immutable(m, u)
  BY <1>2 DEF Immutable
<1>4. AllAuthentic(u)
  BY <1>2 DEF AllAuthentic, Authentic
<1> QED BY <1>3, <1>4 DEF u

\* Merging a branch whose validated commit still speaks for it publishes what was
\* validated and touches nothing published, although main has moved on.
LEMMA MergeValidated ==
  ASSUME NEW b \in Tree, NEW h \in Tree, NEW m \in Tree, NEW g \in Tree,
         AllAuthentic(b), AllAuthentic(m), Immutable(b, m),
         Mergeable(b, h, m), StagedInOrder(b, h), Represents(g, b, h, m),
         SignaturesVerify(g), Immutable(b, g)
  PROVE  /\ Immutable(m, MergeTree(b, h, m))
         /\ AllAuthentic(MergeTree(b, h, m))
<1> DEFINE u == MergeTree(b, h, m)
           Kept(pv) == /\ u.json[pv] # NoFile
                       /\ Frozen(u.json[pv]) = Frozen(m.json[pv])
                       /\ u.tgz[pv] = m.tgz[pv]
                       /\ u.sig[pv] = m.sig[pv]
<1>1. ASSUME NEW pv \in PV
      PROVE  /\ u.tgz[pv] = Pick(b.tgz[pv], h.tgz[pv], m.tgz[pv])
             /\ u.json[pv] = Pick(b.json[pv], h.json[pv], m.json[pv])
             /\ u.sig[pv] = Pick(b.sig[pv], h.sig[pv], m.sig[pv])
             /\ ~Clash(b.tgz[pv], h.tgz[pv], m.tgz[pv])
             /\ ~Clash(b.json[pv], h.json[pv], m.json[pv])
             /\ ~Clash(b.sig[pv], h.sig[pv], m.sig[pv])
  BY MergePoint
<1> HIDE DEF u
<1>2. ASSUME NEW pv \in PV, b.json[pv] # NoFile
      PROVE  Kept(pv) /\ m.json[pv] # NoFile
  \* Published at the base: what the branch changes passed the immutability gate.
  <2>1. b.tgz[pv] # NoFile /\ b.sig[pv] # NoFile
    BY <1>2 DEF AllAuthentic, Authentic
  <2>2. /\ m.json[pv] # NoFile /\ Frozen(m.json[pv]) = Frozen(b.json[pv])
        /\ m.tgz[pv] = b.tgz[pv] /\ m.sig[pv] = b.sig[pv]
        /\ g.json[pv] # NoFile /\ Frozen(g.json[pv]) = Frozen(b.json[pv])
        /\ g.tgz[pv] = b.tgz[pv] /\ g.sig[pv] = b.sig[pv]
    BY <1>2, <2>1 DEF Immutable
  <2>3. h.tgz[pv] = b.tgz[pv] /\ h.sig[pv] = b.sig[pv]
    BY <2>2 DEF Represents
  <2>4. h.json[pv] # b.json[pv] => h.json[pv] = g.json[pv]
    BY DEF Represents
  <2> QED BY <1>1, <2>2, <2>3, <2>4 DEF Pick
<1>3. ASSUME NEW pv \in PV, b.json[pv] = NoFile
      PROVE  b.tgz[pv] = NoFile /\ b.sig[pv] = NoFile
  BY <1>3 DEF AllAuthentic, Authentic
<1>4. ASSUME NEW pv \in PV, b.json[pv] = NoFile, m.json[pv] # NoFile
      PROVE  Kept(pv)
  \* Published since: a branch with other files would conflict with main.
  <2>1. m.tgz[pv] # NoFile /\ m.sig[pv] # NoFile
    BY <1>4 DEF AllAuthentic, Authentic
  <2> QED BY <1>1, <1>3, <1>4, <2>1 DEF Pick, Clash
<1>5. ASSUME NEW pv \in PV, m.json[pv] # NoFile
      PROVE  Kept(pv)
  BY <1>2, <1>4, <1>5
<1>6. Immutable(m, u)
  BY <1>5 DEF Immutable
<1>7. ASSUME NEW pv \in PV
      PROVE  Authentic(u, pv)
  <2>1. CASE m.json[pv] # NoFile
    <3>1. Kept(pv)
      BY <1>5, <2>1
    <3>2. u.json[pv].keyId = m.json[pv].keyId
      BY <3>1 DEF Frozen
    <3> QED BY <2>1, <3>1, <3>2 DEF AllAuthentic, Authentic
  <2>2. CASE m.json[pv] = NoFile
    \* New: the files are those of the head, which are those validated.
    <3>1. b.json[pv] = NoFile
      BY <1>2, <2>2
    <3>2. m.tgz[pv] = NoFile /\ m.sig[pv] = NoFile
      BY <2>2 DEF AllAuthentic, Authentic
    <3>3. /\ u.tgz[pv] = h.tgz[pv] /\ u.json[pv] = h.json[pv]
          /\ u.sig[pv] = h.sig[pv]
      BY <1>1, <1>3, <2>2, <3>1, <3>2 DEF Pick
    <3>4. /\ u.tgz[pv] = g.tgz[pv] /\ u.json[pv] = g.json[pv]
          /\ u.sig[pv] = g.sig[pv]
      BY <3>3, <2>2 DEF Represents
    <3>5. /\ u.json[pv] # NoFile => u.tgz[pv] # NoFile
          /\ u.sig[pv] # NoFile =>
               u.json[pv] # NoFile /\ u.tgz[pv].signer = u.sig[pv].signer
      BY <3>1, <3>3 DEF StagedInOrder
    <3>6. u.tgz[pv] # NoFile =>
            /\ u.json[pv] # NoFile /\ u.sig[pv] # NoFile
            /\ u.sig[pv].signer = u.json[pv].keyId
      BY <3>4 DEF SignaturesVerify
    <3> QED BY <3>5, <3>6 DEF Authentic
  <2> QED BY <2>1, <2>2
<1> QED BY <1>6, <1>7 DEF u, AllAuthentic

-----------------------------------------------------------------------------
(* Branches stay staged in order.                                          *)

\* Copying keeps the order when a pack whose files are not all copied has none.
LEMMA StagedCopied ==
  ASSUME NEW b \in Tree, NEW t \in Tree, NEW T \in SUBSET Packs,
         NEW J \in SUBSET T, NEW S \in SUBSET J,
         \A p \in T : t.src[p] # NoFile,
         \A p \in T \ S : t.json[Current(t, p)] = NoFile,
         NEW k \in Keys, NEW priv \in Keys, StagedInOrder(b, t)
  PROVE  StagedInOrder(b, Copied(t, T, J, S, k, priv))
<1> DEFINE u == Copied(t, T, J, S, k, priv)
<1>1. SUFFICES ASSUME NEW pv \in PV, b.json[pv] = NoFile
      PROVE  /\ u.json[pv] # NoFile => u.tgz[pv] # NoFile
             /\ u.sig[pv] # NoFile =>
                  u.json[pv] # NoFile /\ u.tgz[pv].signer = u.sig[pv].signer
  BY DEF StagedInOrder
<1>2. /\ t.json[pv] # NoFile => t.tgz[pv] # NoFile
      /\ t.sig[pv] # NoFile =>
           t.json[pv] # NoFile /\ t.tgz[pv].signer = t.sig[pv].signer
  BY <1>1 DEF StagedInOrder
<1>3. /\ pv \in Currents(t, S) => pv \in Currents(t, J)
      /\ pv \in Currents(t, J) => pv \in Currents(t, T)
  BY DEF Currents
<1>4. /\ u.tgz[pv] = IF pv \in Currents(t, T)
           THEN [content |-> t.src[pv[1]].content, keyId |-> k, signer |-> priv]
           ELSE t.tgz[pv]
      /\ u.json[pv] = IF pv \in Currents(t, J)
           THEN [keyId |-> k, integrity |-> NoFile, yanked |-> FALSE]
           ELSE t.json[pv]
      /\ u.sig[pv] = IF pv \in Currents(t, S)
           THEN [keyId |-> k, signer |-> priv] ELSE t.sig[pv]
  BY DEF Copied, Tree
<1>5. u \in Tree
  BY CopiedType
<1> HIDE DEF u
<1>6. CASE pv \in Currents(t, S)
  <2>1. /\ u.json[pv] = [keyId |-> k, integrity |-> NoFile, yanked |-> FALSE]
        /\ u.tgz[pv].signer = priv /\ u.sig[pv].signer = priv
    BY <1>3, <1>4, <1>6
  <2>2. [keyId |-> k, integrity |-> NoFile, yanked |-> FALSE] \in Manifest
    BY DEF Manifest
  <2>3. pv[1] \in Packs /\ t.src[pv[1]].content \in Contents
    BY <1>3, <1>6, CurrentType DEF Currents, Source
  <2>4. u.tgz[pv] \in Tarball
    BY <1>3, <1>4, <1>6, <2>3 DEF Tarball
  <2> QED BY <2>1, <2>2, <2>4, NoFileAssumption
<1>7. CASE pv \in Currents(t, T) /\ pv \notin Currents(t, S)
  <2>1. PICK p \in T : pv = Current(t, p)
    BY <1>7 DEF Currents
  <2>2. p \notin S
    BY <1>7, <2>1 DEF Currents
  <2>3. t.json[pv] = NoFile /\ u.sig[pv] = NoFile
    BY <1>2, <1>4, <1>7, <2>1, <2>2
  <2>4. pv[1] \in Packs /\ t.src[pv[1]].content \in Contents
    BY <1>7, CurrentType DEF Currents, Source
  <2>5. u.tgz[pv] \in Tarball
    BY <1>4, <1>7, <2>4 DEF Tarball
  <2> QED BY <2>3, <2>5, NoFileAssumption
<1>8. CASE pv \notin Currents(t, T)
  BY <1>2, <1>3, <1>4, <1>8
<1> QED BY <1>6, <1>7, <1>8

\* So does rebuilding the index.
LEMMA StagedReindex ==
  ASSUME NEW b \in Tree, NEW t \in Tree, NEW n \in Nat, StagedInOrder(b, t)
  PROVE  StagedInOrder(b, Reindex(t, n))
<1> DEFINE u == Reindex(t, n)
<1>1. u.tgz = t.tgz /\ u.sig = t.sig /\ u.json = Indexed(t)
  BY ReindexType
<1>2. \A pv \in PV : u.json[pv] = NoFile <=> t.json[pv] = NoFile
  BY <1>1, IndexedType
<1> HIDE DEF u
<1>3. StagedInOrder(b, u)
  BY <1>1, <1>2 DEF StagedInOrder
<1> QED BY <1>3 DEF u

\* And merging main into the branch, whichever side wins the conflicts: in a
\* version main does not publish only the branch has files.
LEMMA StagedUpdate ==
  ASSUME NEW b \in Tree, NEW h \in Tree, NEW m \in Tree,
         AllAuthentic(b), AllAuthentic(m), Immutable(b, m), StagedInOrder(b, h)
  PROVE  /\ StagedInOrder(m, MergeTree(b, h, m))
         /\ StagedInOrder(m, MergeTree(b, m, h))
<1>1. ASSUME NEW pv \in PV, m.json[pv] = NoFile
      PROVE  /\ b.json[pv] = NoFile /\ b.tgz[pv] = NoFile /\ b.sig[pv] = NoFile
             /\ m.tgz[pv] = NoFile /\ m.sig[pv] = NoFile
  BY <1>1 DEF Immutable, AllAuthentic, Authentic
<1>2. ASSUME NEW pv \in PV, m.json[pv] = NoFile,
             NEW u \in {MergeTree(b, h, m), MergeTree(b, m, h)}
      PROVE  u.tgz[pv] = h.tgz[pv] /\ u.json[pv] = h.json[pv] /\ u.sig[pv] = h.sig[pv]
  BY <1>1, <1>2, MergePoint DEF Pick
<1>3. ASSUME NEW u \in {MergeTree(b, h, m), MergeTree(b, m, h)}
      PROVE  StagedInOrder(m, u)
  <2> SUFFICES ASSUME NEW pv \in PV, m.json[pv] = NoFile
               PROVE  /\ u.json[pv] # NoFile => u.tgz[pv] # NoFile
                      /\ u.sig[pv] # NoFile =>
                           u.json[pv] # NoFile /\ u.tgz[pv].signer = u.sig[pv].signer
    BY DEF StagedInOrder
  <2>1. u.tgz[pv] = h.tgz[pv] /\ u.json[pv] = h.json[pv] /\ u.sig[pv] = h.sig[pv]
    BY <1>2, <1>3
  <2> QED BY <1>1, <2>1 DEF StagedInOrder
<1> QED BY <1>3

-----------------------------------------------------------------------------
(* The inductive invariant.                                                *)

\* What an open branch is: forked from a main it can still be compared with,
\* staged in order, and what its verdict says of it.
BranchInv(r) ==
  LET b == pr[r].base  h == pr[r].head  g == pr[r].merged IN
    /\ AllAuthentic(b) /\ Immutable(b, main) /\ StagedInOrder(b, h)
    /\ pr[r].verdict \in {"running", "green"} => Represents(g, b, h, main)
    /\ pr[r].verdict = "green" => SignaturesVerify(g) /\ Immutable(b, g)

\* An auto-register run that could still push holds the branch as it is.
RunInv(r) ==
  /\ pr[r].phase # "closed"
  /\ Immutable(run[r].base, run[r].main)
  /\ run[r].rev <= pr[r].rev
  /\ RunFastForwards(r) => run[r].head = pr[r].head /\ run[r].base = pr[r].base

\* A checkout of main is of a commit that was or is main's.
Superseded(c) ==
  c.onMain => AllAuthentic(c.tree) /\ Immutable(c.tree, main)

Inv ==
  /\ TypeOK
  /\ AllAuthentic(main)
  /\ Superseded(live) /\ \A c \in queue : Superseded(c)
  /\ \A r \in PullRequests : pr[r].phase = "open" => BranchInv(r)
  /\ \A r \in PullRequests : run[r] # NoTree => RunInv(r)

\* The seeded main satisfies the invariant.
LEMMA InitInv ==
  ASSUME Init
  PROVE  Inv
<1>1. main = SeedTree
  BY DEF Init
<1>2. /\ BotKey \in Keys /\ SeedSource.content \in Contents
      /\ SeedTarball \in Tarball /\ SeedManifest \in Manifest
      /\ [keyId |-> SeedKey, signer |-> SeedKey] \in Signature
  BY KeysAssumption, SeedAssumption
     DEF Source, SeedTarball, SeedManifest, SeedKey, Tarball, Manifest, Signature
<1>3. main \in Tree
  <2>1. SeedListing \in Listing
    BY SeedAssumption DEF SeedListing, Listing
  <2> QED BY <1>1, <1>2, <2>1, SeedAssumption DEF SeedTree, Tree
<1>4. AllAuthentic(main)
  <2> SUFFICES ASSUME NEW pv \in PV PROVE Authentic(main, pv)
    BY DEF AllAuthentic
  <2>1. CASE SeedAt(pv)
    <3>1. /\ main.json[pv] = SeedManifest /\ main.tgz[pv] = SeedTarball
          /\ main.sig[pv] = [keyId |-> SeedKey, signer |-> SeedKey]
      BY <1>1, <2>1 DEF SeedTree
    <3>3. main.json[pv] # NoFile /\ main.tgz[pv] # NoFile /\ main.sig[pv] # NoFile
      BY <1>2, <3>1, NoFileAssumption
    <3>4. /\ main.json[pv].keyId = SeedKey /\ main.tgz[pv].signer = SeedKey
          /\ main.sig[pv].signer = SeedKey
      BY <3>1 DEF SeedManifest, SeedTarball
    <3> QED BY <3>3, <3>4 DEF Authentic
  <2>2. CASE ~SeedAt(pv)
    BY <1>1, <2>2 DEF SeedTree, Authentic
  <2> QED BY <2>1, <2>2
<1>5. Superseded(live)
  BY <1>4, ImmutableReflexive DEF Init, Superseded
<1>6. TypeOK
  <2>1. /\ pr \in [PullRequests -> Branch]
        /\ \A r \in PullRequests :
             pr[r].phase = "closed" /\ pr[r].verdict = "none" /\ pr[r].merged = NoTree
    BY DEF Init, Branch
  <2>2. /\ run \in [PullRequests -> Run \cup {NoTree}] /\ queue \subseteq Checkout
        /\ live \in Checkout /\ now \in Nat /\ manual \in Nat
    BY <1>3 DEF Init, Checkout
  <2> QED BY <1>3, <2>1, <2>2 DEF TypeOK
<1> QED BY <1>4, <1>5, <1>6 DEF Init, Inv

\* An action that leaves main, the deploys and the other branches alone needs to
\* be looked at on its own branch only.
LEMMA BranchStep ==
  ASSUME Inv, NEW r \in PullRequests, TypeOK',
         main' = main, live' = live, queue' = queue,
         \A q \in PullRequests \ {r} : pr'[q] = pr[q] /\ run'[q] = run[q],
         pr'[r].phase = "open" => BranchInv(r)',
         run'[r] # NoTree => RunInv(r)'
  PROVE  Inv'
<1>1. ASSUME NEW q \in PullRequests, pr'[q].phase = "open"
      PROVE  BranchInv(q)'
  BY <1>1 DEF Inv, BranchInv
<1>2. ASSUME NEW q \in PullRequests, run'[q] # NoTree
      PROVE  RunInv(q)'
  BY <1>2 DEF Inv, RunInv, RunFastForwards
<1>3. AllAuthentic(main)' /\ Superseded(live)' /\ \A c \in queue' : Superseded(c)'
  BY DEF Inv, Superseded, AllAuthentic
<1> QED BY <1>1, <1>2, <1>3 DEF Inv

\* A push of a head staged in order, on a base main descends from.
LEMMA PushInv ==
  ASSUME Inv, NEW r \in PullRequests, pr[r].phase = "open",
         NEW b \in Tree, NEW h \in Tree,
         AllAuthentic(b), Immutable(b, main), StagedInOrder(b, h),
         Push(r, b, h), now' \in Nat
  PROVE  Inv'
<1>1. /\ pr \in [PullRequests -> Branch]
      /\ run \in [PullRequests -> Run \cup {NoTree}]
  BY DEF Inv, TypeOK
<1>2. /\ pr'[r].phase = "open" /\ pr'[r].base = b /\ pr'[r].head = h
      /\ pr'[r].rev = pr[r].rev + 1 /\ pr'[r].verdict = "none"
      /\ pr'[r].merged = NoTree
      /\ pr' \in [PullRequests -> Branch]
      /\ \A q \in PullRequests \ {r} : pr'[q] = pr[q]
  BY <1>1 DEF Push, Branch
<1>3. /\ run' \in [PullRequests -> Run \cup {NoTree}]
      /\ run'[r] \in {run[r], NoTree}
      /\ \A q \in PullRequests \ {r} : run'[q] = run[q]
  BY <1>1 DEF Push
<1>4. main' = main /\ queue' = queue /\ live' = live /\ manual' = manual
  BY DEF Push
<1>5. TypeOK'
  <2>1. b # NoTree /\ h # NoTree
    BY NoTreeAssumption
  <2> QED BY <1>2, <1>3, <1>4, <2>1 DEF Inv, TypeOK
<1>6. BranchInv(r)'
  BY <1>2, <1>4 DEF BranchInv
<1>7. run'[r] # NoTree => RunInv(r)'
  <2> SUFFICES ASSUME run'[r] # NoTree PROVE RunInv(r)'
    OBVIOUS
  <2>1. run'[r] = run[r] /\ run[r] # NoTree /\ RunInv(r)
    BY <1>3 DEF Inv
  <2>2. run[r].rev \in Nat /\ pr[r].rev \in Nat
    BY <1>1, <2>1 DEF Run, Branch
  <2> QED BY <1>2, <2>1, <2>2 DEF RunInv, RunFastForwards
<1> QED BY <1>2, <1>3, <1>4, <1>5, <1>6, <1>7, BranchStep

\* A manifest the copying leaves behind, which build-index has not filled in.
Unindexed(m) == m # NoFile /\ m.integrity = NoFile /\ ~m.yanked

\* Copying leaves the index alone, and the manifests it makes wait for it.
LEMMA CopiedIndex ==
  ASSUME NEW t \in Tree, NEW T, NEW J, NEW S, NEW k \in Keys, NEW priv
  PROVE  /\ Copied(t, T, J, S, k, priv).index = t.index
         /\ \A pv \in PV : \/ Copied(t, T, J, S, k, priv).json[pv] = t.json[pv]
                           \/ Unindexed(Copied(t, T, J, S, k, priv).json[pv])
<1>1. /\ Copied(t, T, J, S, k, priv).index = t.index
      /\ \A pv \in PV : Copied(t, T, J, S, k, priv).json[pv] =
           IF pv \in Currents(t, J)
           THEN [keyId |-> k, integrity |-> NoFile, yanked |-> FALSE]
           ELSE t.json[pv]
  BY DEF Copied, Tree
<1>2. [keyId |-> k, integrity |-> NoFile, yanked |-> FALSE] \in Manifest
  BY DEF Manifest
<1>3. Unindexed([keyId |-> k, integrity |-> NoFile, yanked |-> FALSE])
  BY <1>2, NoFileAssumption DEF Unindexed
<1> QED BY <1>1, <1>3

\* The ways in which a push may treat the index: the branch is edited and keeps
\* it, built again, or merged with main without a conflict.
Edited(r, b, h) ==
  /\ b = pr[r].base /\ h.index = pr[r].head.index
  /\ \A pv \in PV : h.json[pv] = pr[r].head.json[pv] \/ Unindexed(h.json[pv])
Rebuilt(r, b, h) ==
  b \in {pr[r].base, main} /\ h.index.at = now' /\ now' = now + 1
Updated(r, b, h) ==
  /\ b = main /\ Mergeable(pr[r].base, pr[r].head, main)
  /\ h = MergeTree(pr[r].base, pr[r].head, main)

\* What a contributor may push.
Pushable(r, b, h) ==
  /\ b \in Tree /\ h \in Tree /\ now' \in {now, now + 1}
  /\ AllAuthentic(b) /\ Immutable(b, main) /\ StagedInOrder(b, h)
  /\ Edited(r, b, h) \/ Rebuilt(r, b, h) \/ Updated(r, b, h)

\* Whatever a contributor pushes next is staged in order, on a base main descends
\* from, with its index kept, built again or merged.
LEMMA ContributePush ==
  ASSUME Inv, NEW r \in PullRequests, Contribute(r)
  PROVE  \E b, h : Pushable(r, b, h) /\ Push(r, b, h)
<1> DEFINE b == pr[r].base
           h == pr[r].head
           Goal == \E c, u : Pushable(r, c, u) /\ Push(r, c, u)
<1>1. /\ pr[r].phase = "open" /\ BranchInv(r)
      /\ main \in Tree /\ AllAuthentic(main) /\ now \in Nat
  BY DEF Contribute, Inv, TypeOK
<1>2. b \in Tree /\ h \in Tree
  BY <1>1 DEF Inv, TypeOK, Branch
<1>3. AllAuthentic(b) /\ Immutable(b, main) /\ StagedInOrder(b, h)
  BY <1>1 DEF BranchInv
<1> SUFFICES Goal
  OBVIOUS
<1> HIDE DEF b, h, Goal
<1>4. ASSUME NEW u \in Tree, StagedInOrder(b, u), Edit(r, u), u.index = h.index,
             \A pv \in PV : u.json[pv] = h.json[pv] \/ Unindexed(u.json[pv])
      PROVE  Goal
  <2>1. Push(r, b, u) /\ now' = now
    BY <1>4 DEF Edit, b
  <2>2. Edited(r, b, u)
    BY <1>4 DEF Edited, b, h
  <2>3. Pushable(r, b, u)
    BY <1>2, <1>3, <1>4, <2>1, <2>2 DEF Pushable
  <2> QED BY <2>1, <2>3 DEF Goal
<1>5. ASSUME NEW u \in Tree, StagedInOrder(b, u), Rebuild(r, u)
      PROVE  Goal
  <2>1. now' = now + 1 /\ now' \in Nat /\ Push(r, b, Reindex(u, now'))
    BY <1>1, <1>5 DEF Rebuild, b
  <2>2. /\ Reindex(u, now') \in Tree /\ StagedInOrder(b, Reindex(u, now'))
        /\ Reindex(u, now').index.at = now'
    BY <1>2, <1>5, <2>1, ReindexType, StagedReindex
  <2>3. Rebuilt(r, b, Reindex(u, now'))
    BY <2>1, <2>2 DEF Rebuilt, b
  <2>4. Pushable(r, b, Reindex(u, now'))
    BY <1>2, <1>3, <2>1, <2>2, <2>3 DEF Pushable
  <2> QED BY <2>1, <2>4 DEF Goal
<1>6. ASSUME NEW u, u.tgz = h.tgz, u.json = h.json, u.sig = h.sig
      PROVE  StagedInOrder(b, u)
  BY <1>3, <1>6 DEF StagedInOrder
<1>7. CASE EditSource(r)
  <2>1. PICK p \in Packs, s \in Source : Edit(r, [h EXCEPT !.src[p] = s])
    BY <1>7 DEF EditSource, h
  <2>2. [h EXCEPT !.src[p] = s] \in Tree
    BY <1>2 DEF Tree
  <2>3. /\ StagedInOrder(b, [h EXCEPT !.src[p] = s])
        /\ [h EXCEPT !.src[p] = s].index = h.index
        /\ [h EXCEPT !.src[p] = s].json = h.json
    BY <1>2, <1>6 DEF Tree
  <2> QED BY <1>4, <2>1, <2>2, <2>3
<1>8. CASE PublishLocally(r)
  <2>1. PICK k \in Keys, priv \in Keys :
          Rebuild(r, Copied(h, Todo(h, Packs, k), Todo(h, Packs, k),
                            Todo(h, Packs, k), k, priv))
    BY <1>8 DEF PublishLocally, h
  <2> DEFINE S == Todo(h, Packs, k)
  <2>2. S \in SUBSET Packs /\ \A p \in S : h.src[p] # NoFile
    BY TodoType
  <2> HIDE DEF S
  <2>3. Copied(h, S, S, S, k, priv) \in Tree
    BY <1>2, <2>2, CopiedType
  <2>4. StagedInOrder(b, Copied(h, S, S, S, k, priv))
    BY <1>2, <1>3, <2>2, StagedCopied
  <2> QED BY <1>5, <2>1, <2>3, <2>4 DEF S
<1>9. CASE PublishInterrupted(r)
  <2>0. PICK k \in Keys :
          \E p \in Todo(h, Packs, k), rest \in SUBSET Todo(h, Packs, k) :
            LET d == rest \ {p} IN
              \/ Edit(r, Copied(h, d \cup {p}, d, d, k, k))
              \/ Edit(r, Copied(h, d \cup {p}, d \cup {p}, d, k, k))
              \/ Edit(r, Copied(h, d \cup {p}, d \cup {p}, d \cup {p}, k, k))
    BY <1>9 DEF PublishInterrupted, h
  <2>1. PICK p \in Todo(h, Packs, k), rest \in SUBSET Todo(h, Packs, k) :
          \/ Edit(r, Copied(h, (rest \ {p}) \cup {p}, rest \ {p}, rest \ {p}, k, k))
          \/ Edit(r, Copied(h, (rest \ {p}) \cup {p}, (rest \ {p}) \cup {p},
                            rest \ {p}, k, k))
          \/ Edit(r, Copied(h, (rest \ {p}) \cup {p}, (rest \ {p}) \cup {p},
                            (rest \ {p}) \cup {p}, k, k))
    BY <2>0
  <2> DEFINE d == rest \ {p}
             e == d \cup {p}
  <2>2. /\ e \in SUBSET Packs /\ d \in SUBSET e
        /\ \A q \in e : h.src[q] # NoFile /\ h.json[Current(h, q)] = NoFile
    BY TodoType
  <2>3. \/ Edit(r, Copied(h, e, d, d, k, k))
        \/ Edit(r, Copied(h, e, e, d, k, k))
        \/ Edit(r, Copied(h, e, e, e, k, k))
    BY <2>1
  <2> HIDE DEF d, e
  <2>4. ASSUME NEW J \in {d, e}, NEW S \in {d, e}, S \subseteq J,
               Edit(r, Copied(h, e, J, S, k, k))
        PROVE  Goal
    <3>1. J \in SUBSET e /\ S \in SUBSET J
      BY <2>2, <2>4
    <3>2. Copied(h, e, J, S, k, k) \in Tree
      BY <1>2, <2>2, <3>1, CopiedType
    <3>3. StagedInOrder(b, Copied(h, e, J, S, k, k))
      BY <1>2, <1>3, <2>2, <3>1, StagedCopied
    <3>4. /\ Copied(h, e, J, S, k, k).index = h.index
          /\ \A pv \in PV : \/ Copied(h, e, J, S, k, k).json[pv] = h.json[pv]
                            \/ Unindexed(Copied(h, e, J, S, k, k).json[pv])
      BY <1>2, CopiedIndex
    <3> QED BY <1>4, <2>4, <3>2, <3>3, <3>4
  <2> QED BY <2>2, <2>3, <2>4
<1>10. CASE Republish(r)
  <2>1. PICK p \in Packs, k \in Keys :
          h.src[p] # NoFile /\ Rebuild(r, Copied(h, {p}, {p}, {p}, k, k))
    BY <1>10 DEF Republish, h
  <2>2. {p} \in SUBSET Packs /\ \A q \in {p} : h.src[q] # NoFile
    BY <2>1
  <2>3. Copied(h, {p}, {p}, {p}, k, k) \in Tree
    BY <1>2, <2>2, CopiedType
  <2>4. StagedInOrder(b, Copied(h, {p}, {p}, {p}, k, k))
    BY <1>2, <1>3, <2>2, StagedCopied
  <2> QED BY <1>5, <2>1, <2>3, <2>4
<1>11. CASE SetYanked(r)
  <2>1. PICK pv \in PV, y \in BOOLEAN :
          h.json[pv] # NoFile /\ Rebuild(r, [h EXCEPT !.json[pv].yanked = y])
    BY <1>11 DEF SetYanked, h
  <2> DEFINE u == [h EXCEPT !.json[pv].yanked = y]
  <2>2. h.json[pv] \in Manifest
    BY <1>2, <2>1 DEF Tree
  <2>3. [h.json[pv] EXCEPT !.yanked = y] \in Manifest
    BY <2>2 DEF Manifest
  <2>4. /\ u \in Tree /\ u.tgz = h.tgz /\ u.sig = h.sig
        /\ u.json = [h.json EXCEPT ![pv] = [h.json[pv] EXCEPT !.yanked = y]]
    BY <1>2, <2>3 DEF Tree
  <2>5. \A x \in PV : u.json[x] # NoFile <=> h.json[x] # NoFile
    BY <1>2, <2>1, <2>3, <2>4, NoFileAssumption DEF Tree
  <2> HIDE DEF u
  <2>6. StagedInOrder(b, u)
    BY <1>3, <2>4, <2>5 DEF StagedInOrder
  <2> QED BY <1>5, <2>1, <2>4, <2>6 DEF u
<1>12. CASE Withdraw(r)
  <2>1. PICK pv \in PV :
          Rebuild(r, [h EXCEPT !.tgz[pv] = NoFile, !.json[pv] = NoFile,
                               !.sig[pv] = NoFile])
    BY <1>12 DEF Withdraw, h
  <2> DEFINE u == [h EXCEPT !.tgz[pv] = NoFile, !.json[pv] = NoFile,
                            !.sig[pv] = NoFile]
  <2>2. /\ u \in Tree
        /\ u.tgz = [h.tgz EXCEPT ![pv] = NoFile]
        /\ u.json = [h.json EXCEPT ![pv] = NoFile]
        /\ u.sig = [h.sig EXCEPT ![pv] = NoFile]
    BY <1>2 DEF Tree
  <2>3. \A x \in PV :
          IF x = pv THEN u.tgz[x] = NoFile /\ u.json[x] = NoFile /\ u.sig[x] = NoFile
          ELSE u.tgz[x] = h.tgz[x] /\ u.json[x] = h.json[x] /\ u.sig[x] = h.sig[x]
    BY <1>2, <2>2 DEF Tree
  <2> HIDE DEF u
  <2>4. StagedInOrder(b, u)
    BY <1>3, <2>3 DEF StagedInOrder
  <2> QED BY <1>5, <2>1, <2>2, <2>4 DEF u
<1>13. CASE EditKey(r)
  <2>1. PICK k \in Keys, e \in Listing \cup {Unlisted} :
          Edit(r, [h EXCEPT !.keys[k] = e])
    BY <1>13 DEF EditKey, h
  <2>2. [h EXCEPT !.keys[k] = e] \in Tree
    BY <1>2 DEF Tree
  <2>3. /\ StagedInOrder(b, [h EXCEPT !.keys[k] = e])
        /\ [h EXCEPT !.keys[k] = e].index = h.index
        /\ [h EXCEPT !.keys[k] = e].json = h.json
    BY <1>2, <1>6 DEF Tree
  <2> QED BY <1>4, <2>1, <2>2, <2>3
<1>14. CASE AddAdvisory(r)
  <2>1. PICK pv \in PV : Edit(r, [h EXCEPT !.affected = @ \cup {pv}])
    BY <1>14 DEF AddAdvisory, h
  <2>2. [h EXCEPT !.affected = @ \cup {pv}] \in Tree
    BY <1>2 DEF Tree
  <2>3. /\ StagedInOrder(b, [h EXCEPT !.affected = @ \cup {pv}])
        /\ [h EXCEPT !.affected = @ \cup {pv}].index = h.index
        /\ [h EXCEPT !.affected = @ \cup {pv}].json = h.json
    BY <1>2, <1>6 DEF Tree
  <2> QED BY <1>4, <2>1, <2>2, <2>3
<1>15. CASE UpdateBranch(r)
  <2> DEFINE u == MergeTree(b, h, main)
             w == MergeTree(b, main, h)
  <2>1. \/ Mergeable(b, h, main) /\ Push(r, main, u) /\ now' = now
        \/ /\ now' = now + 1
           /\ Push(r, main, Reindex(u, now')) \/ Push(r, main, Reindex(w, now'))
    BY <1>15 DEF UpdateBranch, b, h
  <2>2. u \in Tree /\ w \in Tree
    BY <1>1, <1>2, MergeTreeType
  <2>3. StagedInOrder(main, u) /\ StagedInOrder(main, w)
    BY <1>1, <1>2, <1>3, StagedUpdate
  <2> HIDE DEF u, w
  <2>4. Immutable(main, main)
    BY ImmutableReflexive
  <2>5. CASE now' = now + 1 /\ (Push(r, main, Reindex(u, now')) \/ Push(r, main, Reindex(w, now')))
    <3>1. PICK x \in {u, w} : Push(r, main, Reindex(x, now'))
      BY <2>5
    <3>2. x \in Tree /\ StagedInOrder(main, x) /\ now' \in Nat
      BY <1>1, <2>2, <2>3, <2>5
    <3>3. /\ Reindex(x, now') \in Tree /\ StagedInOrder(main, Reindex(x, now'))
          /\ Reindex(x, now').index.at = now'
      BY <1>1, <3>2, ReindexType, StagedReindex
    <3>4. Rebuilt(r, main, Reindex(x, now'))
      BY <2>5, <3>3 DEF Rebuilt
    <3> QED BY <1>1, <2>4, <2>5, <3>1, <3>3, <3>4 DEF Pushable, Goal
  <2>6. CASE Mergeable(b, h, main) /\ Push(r, main, u) /\ now' = now
    <3>1. Updated(r, main, u)
      BY <2>6 DEF Updated, u, b, h
    <3> QED BY <1>1, <2>2, <2>3, <2>4, <2>6, <3>1 DEF Pushable, Goal
  <2> QED BY <2>1, <2>5, <2>6
<1> QED BY <1>7, <1>8, <1>9, <1>10, <1>11, <1>12, <1>13, <1>14, <1>15 DEF Contribute

\* So it keeps the invariant.
LEMMA ContributeInv ==
  ASSUME Inv, NEW r \in PullRequests, Contribute(r)
  PROVE  Inv'
<1>1. PICK b, h : Pushable(r, b, h) /\ Push(r, b, h)
  BY ContributePush
<1>2. pr[r].phase = "open" /\ now' \in Nat
  BY <1>1 DEF Contribute, Pushable, Inv, TypeOK
<1> QED BY <1>1, <1>2, PushInv DEF Pushable

\* A branch opens at main.
LEMMA OpenInv ==
  ASSUME Inv, NEW r \in PullRequests, Open(r)
  PROVE  Inv'
<1>1. /\ pr \in [PullRequests -> Branch] /\ main \in Tree
      /\ AllAuthentic(main) /\ pr[r].phase = "closed"
      /\ UNCHANGED <<main, run, queue, live, now, manual>>
  BY DEF Inv, TypeOK, Open
<1>0. pr' = [pr EXCEPT ![r].phase = "open", ![r].base = main, ![r].head = main]
  BY DEF Open
<1>2. /\ pr' \in [PullRequests -> Branch]
      /\ pr'[r].phase = "open" /\ pr'[r].base = main /\ pr'[r].head = main
      /\ pr'[r].verdict = pr[r].verdict /\ pr'[r].merged = pr[r].merged
      /\ pr'[r].rev = pr[r].rev
      /\ \A q \in PullRequests \ {r} : pr'[q] = pr[q]
  <2>1. pr[r] \in Branch
    BY <1>1
  <2>2. /\ pr'[r].phase = "open" /\ pr'[r].base = main /\ pr'[r].head = main
        /\ pr'[r].verdict = pr[r].verdict /\ pr'[r].merged = pr[r].merged
        /\ pr'[r].rev = pr[r].rev
    BY <1>0, <1>1, <2>1 DEF Branch
  <2>3. \A q \in PullRequests \ {r} : pr'[q] = pr[q]
    BY <1>0, <1>1
  <2>4. pr' \in [PullRequests -> Branch]
    BY <1>0, <1>1, <2>1 DEF Branch
  <2> QED BY <2>2, <2>3, <2>4
<1>3. pr[r].verdict = "none" /\ pr[r].merged = NoTree /\ run[r] = NoTree
  BY <1>1 DEF Inv, TypeOK, RunInv
<1>4. TypeOK'
  BY <1>1, <1>2, <1>3, NoTreeAssumption DEF Inv, TypeOK
<1>5. StagedInOrder(main, main)
  BY <1>1 DEF AllAuthentic, Authentic, StagedInOrder
<1>6. BranchInv(r)'
  BY <1>1, <1>2, <1>3, <1>5, ImmutableReflexive DEF BranchInv
<1> QED BY <1>1, <1>2, <1>3, <1>4, <1>6, BranchStep

\* GitHub makes the merge commit the run is about.
LEMMA ValidateStartInv ==
  ASSUME Inv, NEW r \in PullRequests, ValidateStart(r)
  PROVE  Inv'
<1> DEFINE b == pr[r].base
           h == pr[r].head
           g == MergeTree(b, h, main)
<1>1. /\ pr \in [PullRequests -> Branch] /\ main \in Tree
      /\ AllAuthentic(main) /\ pr[r].phase = "open" /\ BranchInv(r)
      /\ UNCHANGED <<main, run, queue, live, now, manual>>
  BY DEF Inv, TypeOK, ValidateStart
<1>2. b \in Tree /\ h \in Tree
  BY <1>1 DEF Inv, TypeOK, Branch
<1>3. g \in Tree
  BY <1>1, <1>2, MergeTreeType
<1>4. Represents(g, b, h, main)
  <2> SUFFICES ASSUME NEW pv \in PV
      PROVE  /\ main.json[pv] = NoFile \/ h.tgz[pv] # b.tgz[pv] =>
                  g.tgz[pv] = h.tgz[pv]
             /\ main.json[pv] = NoFile \/ h.json[pv] # b.json[pv] =>
                  g.json[pv] = h.json[pv]
             /\ main.json[pv] = NoFile \/ h.sig[pv] # b.sig[pv] =>
                  g.sig[pv] = h.sig[pv]
    BY DEF Represents
  <2>1. /\ g.tgz[pv] = Pick(b.tgz[pv], h.tgz[pv], main.tgz[pv])
        /\ g.json[pv] = Pick(b.json[pv], h.json[pv], main.json[pv])
        /\ g.sig[pv] = Pick(b.sig[pv], h.sig[pv], main.sig[pv])
    BY ZenonT(60), <1>1, <1>2, MergePoint
  <2>2. main.json[pv] = NoFile =>
          /\ main.tgz[pv] = NoFile /\ main.sig[pv] = NoFile
          /\ b.json[pv] = NoFile /\ b.tgz[pv] = NoFile /\ b.sig[pv] = NoFile
    BY <1>1 DEF BranchInv, Immutable, AllAuthentic, Authentic
  <2> QED BY <2>1, <2>2 DEF Pick
<1> HIDE DEF g
<1>5. /\ pr' \in [PullRequests -> Branch]
      /\ pr'[r].phase = "open" /\ pr'[r].base = b /\ pr'[r].head = h
      /\ pr'[r].verdict = "running" /\ pr'[r].merged = g
      /\ pr'[r].rev = pr[r].rev
      /\ \A q \in PullRequests \ {r} : pr'[q] = pr[q]
  <2>1. pr' = [pr EXCEPT ![r].verdict = "running", ![r].merged = g]
    BY DEF ValidateStart, g
  <2>2. pr[r] \in Branch
    BY <1>1
  <2> QED BY ZenonT(60), <1>1, <1>3, <2>1, <2>2 DEF Branch
<1>6. TypeOK'
  BY <1>1, <1>2, <1>3, <1>5, NoTreeAssumption DEF Inv, TypeOK
<1>7. BranchInv(r)'
  BY <1>1, <1>4, <1>5 DEF BranchInv
<1>8. run'[r] # NoTree => RunInv(r)'
  BY <1>1, <1>5 DEF Inv, RunInv, RunFastForwards
<1> QED BY <1>1, <1>5, <1>6, <1>7, <1>8, BranchStep

\* The gates compare that commit with a main the base is an ancestor of.
LEMMA ValidateEndInv ==
  ASSUME Inv, NEW r \in PullRequests, ValidateEnd(r)
  PROVE  Inv'
<1> DEFINE b == pr[r].base
           g == pr[r].merged
<1>1. /\ pr \in [PullRequests -> Branch] /\ main \in Tree
      /\ pr[r].phase = "open" /\ pr[r].verdict = "running" /\ BranchInv(r)
      /\ UNCHANGED <<main, run, queue, live, now, manual>>
  BY DEF Inv, TypeOK, ValidateEnd
<1>2. /\ pr' \in [PullRequests -> Branch]
      /\ pr'[r].phase = "open" /\ pr'[r].base = b /\ pr'[r].head = pr[r].head
      /\ pr'[r].rev = pr[r].rev
      /\ \A q \in PullRequests \ {r} : pr'[q] = pr[q]
      /\ \/ /\ pr'[r].verdict = "green" /\ pr'[r].merged = g
            /\ ServeGate(g) /\ PullRequestGate(main, g)
         \/ pr'[r].verdict = "red" /\ pr'[r].merged = NoTree
  BY <1>1 DEF ValidateEnd, Branch
<1>3. ServeGate(g) /\ PullRequestGate(main, g) => SignaturesVerify(g) /\ Immutable(b, g)
  BY <1>1, ImmutableTransitive DEF ServeGate, PullRequestGate, BranchInv
<1>4. TypeOK'
  BY <1>1, <1>2 DEF Inv, TypeOK
<1>5. BranchInv(r)'
  BY <1>1, <1>2, <1>3 DEF BranchInv
<1>6. run'[r] # NoTree => RunInv(r)'
  BY <1>1, <1>2 DEF Inv, RunInv, RunFastForwards
<1> QED BY <1>1, <1>2, <1>4, <1>5, <1>6, BranchStep

\* A run checks out the branch and main as they are.
LEMMA RunStartInv ==
  ASSUME Inv, NEW r \in PullRequests, RunStart(r)
  PROVE  Inv'
<1>1. /\ pr \in [PullRequests -> Branch] /\ main \in Tree
      /\ run \in [PullRequests -> Run \cup {NoTree}]
      /\ pr[r].phase = "open" /\ BranchInv(r)
      /\ UNCHANGED <<main, queue, live, now, manual>>
  BY DEF Inv, TypeOK, RunStart
<1>2. pr[r].base \in Tree /\ pr[r].head \in Tree /\ pr[r].rev \in Nat
  BY <1>1 DEF Inv, TypeOK, Branch
<1>3. /\ pr' \in [PullRequests -> Branch]
      /\ pr'[r].phase = "open" /\ pr'[r].base = pr[r].base
      /\ pr'[r].head = pr[r].head /\ pr'[r].rev = pr[r].rev
      /\ pr'[r].verdict = pr[r].verdict /\ pr'[r].merged = pr[r].merged
      /\ \A q \in PullRequests \ {r} : pr'[q] = pr[q]
  <2>1. pr[r] \in Branch
    BY <1>1
  <2>2. /\ [pr[r] EXCEPT !.due = FALSE] \in Branch
        /\ [pr[r] EXCEPT !.due = FALSE].phase = pr[r].phase
        /\ [pr[r] EXCEPT !.due = FALSE].base = pr[r].base
        /\ [pr[r] EXCEPT !.due = FALSE].head = pr[r].head
        /\ [pr[r] EXCEPT !.due = FALSE].rev = pr[r].rev
        /\ [pr[r] EXCEPT !.due = FALSE].verdict = pr[r].verdict
        /\ [pr[r] EXCEPT !.due = FALSE].merged = pr[r].merged
    BY <2>1 DEF Branch
  <2>3. pr' = [pr EXCEPT ![r] = [pr[r] EXCEPT !.due = FALSE]]
    BY DEF RunStart
  <2> QED BY <1>1, <2>2, <2>3
<1>4. /\ run' \in [PullRequests -> Run \cup {NoTree}]
      /\ run'[r].base = pr[r].base /\ run'[r].head = pr[r].head
      /\ run'[r].main = main /\ run'[r].rev = pr[r].rev
      /\ \A q \in PullRequests \ {r} : run'[q] = run[q]
  BY <1>1, <1>2 DEF RunStart, Run
<1>5. TypeOK'
  BY <1>1, <1>3, <1>4 DEF Inv, TypeOK
<1>6. BranchInv(r)'
  BY <1>1, <1>3 DEF BranchInv
<1>7. RunInv(r)'
  BY <1>1, <1>2, <1>3, <1>4 DEF RunInv, RunFastForwards, BranchInv
<1> QED BY <1>1, <1>3, <1>4, <1>5, <1>6, <1>7, BranchStep

\* A run that pushes has validated the very tree it pushes.
LEMMA RunPushInv ==
  ASSUME Inv, NEW r \in PullRequests, RunPush(r)
  PROVE  Inv'
<1> DEFINE b == pr[r].base
           h == pr[r].head
           S == RunTodo(r)
           c == Copied(h, S, S, S, BotKey, BotKey)
           u == Reindex(c, now')
<1>1. /\ pr \in [PullRequests -> Branch] /\ main \in Tree /\ now \in Nat
      /\ run \in [PullRequests -> Run \cup {NoTree}] /\ run[r] # NoTree
      /\ pr[r].phase = "open" /\ BranchInv(r) /\ RunInv(r)
      /\ now' = now + 1 /\ UNCHANGED <<main, queue, live, manual>>
  BY DEF Inv, TypeOK, RunPush, RunFastForwards
<1>2. b \in Tree /\ h \in Tree /\ pr[r].rev \in Nat
  BY <1>1 DEF Inv, TypeOK, Branch
<1>3. run[r].head = h /\ run[r].base = b
  BY <1>1 DEF RunPush, RunInv
<1>4. S \in SUBSET Packs /\ \A p \in S : h.src[p] # NoFile
  <2>1. S = Todo(h, ChangedPacks(b, h), BotKey)
    BY <1>3 DEF RunTodo
  <2>2. ChangedPacks(b, h) \in SUBSET Packs
    BY DEF ChangedPacks
  <2> HIDE DEF S, b, h
  <2> QED BY <2>1, <2>2, TodoType
<1>5. RunResult(r, now') = u /\ RegistryCheck(run[r].main, u)
  BY <1>1, <1>3 DEF RunPush, RunPasses, RunResult
<1>6. pr' = [pr EXCEPT ![r].head = u, ![r].rev = @ + 1,
                       ![r].verdict = "green", ![r].merged = u]
  BY <1>5 DEF RunPush
<1> HIDE DEF S
<1>7. c \in Tree /\ StagedInOrder(b, c)
  BY <1>1, <1>2, <1>4, KeysAssumption, CopiedType, StagedCopied DEF BranchInv
<1> HIDE DEF c
<1>8. u \in Tree /\ StagedInOrder(b, u)
  BY <1>1, <1>2, <1>7, ReindexType, StagedReindex
<1> HIDE DEF u
<1>9. SignaturesVerify(u) /\ Immutable(b, u)
  BY <1>1, <1>3, <1>5, ImmutableTransitive
     DEF RegistryCheck, ServeGate, PullRequestGate, RunInv
<1>10. /\ pr' \in [PullRequests -> Branch]
       /\ pr'[r].phase = "open" /\ pr'[r].base = b /\ pr'[r].head = u
       /\ pr'[r].verdict = "green" /\ pr'[r].merged = u
       /\ \A q \in PullRequests \ {r} : pr'[q] = pr[q]
  BY <1>1, <1>2, <1>6, <1>8 DEF Branch
<1>11. /\ run' \in [PullRequests -> Run \cup {NoTree}] /\ run'[r] = NoTree
       /\ \A q \in PullRequests \ {r} : run'[q] = run[q]
  BY <1>1 DEF RunPush
<1>12. TypeOK'
  BY <1>1, <1>2, <1>8, <1>10, <1>11, NoTreeAssumption DEF Inv, TypeOK
<1>13. Represents(u, b, u, main)
  BY DEF Represents
<1>14. BranchInv(r)'
  BY <1>1, <1>8, <1>9, <1>10, <1>13 DEF BranchInv
<1> QED BY <1>1, <1>10, <1>11, <1>12, <1>14, BranchStep

\* A run that stops changes nothing.
LEMMA RunStopInv ==
  ASSUME Inv, NEW r \in PullRequests, RunStop(r)
  PROVE  Inv'
<1>1. /\ run' \in [PullRequests -> Run \cup {NoTree}] /\ run'[r] = NoTree
      /\ \A q \in PullRequests \ {r} : run'[q] = run[q]
      /\ UNCHANGED <<main, pr, queue, live, now, manual>>
  BY DEF RunStop, Inv, TypeOK
<1>2. TypeOK'
  BY <1>1 DEF Inv, TypeOK
<1>3. pr'[r].phase = "open" => BranchInv(r)'
  BY <1>1 DEF Inv, BranchInv
<1> QED BY <1>1, <1>2, <1>3, BranchStep

\* A merge publishes what was validated and keeps what was published.
LEMMA MergeKeeps ==
  ASSUME Inv, NEW r \in PullRequests, Merge(r)
  PROVE  /\ main' \in Tree /\ Immutable(main, main') /\ AllAuthentic(main')
         /\ main' = MergeTree(pr[r].base, pr[r].head, main)
<1> DEFINE b == pr[r].base
           h == pr[r].head
           g == pr[r].merged
<1>1. /\ main \in Tree /\ AllAuthentic(main)
      /\ pr[r].phase = "open" /\ BranchInv(r)
      /\ main' = MergeTree(b, h, main) /\ Mergeable(b, h, main)
      /\ TouchesRegistry(b, h) => pr[r].verdict = "green"
  BY DEF Inv, TypeOK, Merge
<1>2. b \in Tree /\ h \in Tree
  BY <1>1 DEF Inv, TypeOK, Branch
<1>3. main' \in Tree
  BY <1>1, <1>2, MergeTreeType
<1>4. CASE ~TouchesRegistry(b, h)
  BY <1>1, <1>2, <1>3, <1>4, MergeUntouched
<1>5. CASE pr[r].verdict = "green"
  <2>1. g \in Tree
    BY <1>1, <1>5 DEF Inv, TypeOK, Branch
  <2>2. /\ AllAuthentic(b) /\ Immutable(b, main) /\ StagedInOrder(b, h)
        /\ Represents(g, b, h, main) /\ SignaturesVerify(g) /\ Immutable(b, g)
    BY <1>1, <1>5 DEF BranchInv
  <2> HIDE DEF b, h, g
  <2> QED BY <1>1, <1>2, <1>3, <2>1, <2>2, MergeValidated DEF b, h
<1> QED BY <1>1, <1>4, <1>5

\* So it keeps the other branches comparable, and the commits that wait.
LEMMA MergeInv ==
  ASSUME Inv, NEW r \in PullRequests, Merge(r)
  PROVE  Inv'
<1>1. /\ main' \in Tree /\ Immutable(main, main') /\ AllAuthentic(main')
      /\ main' = MergeTree(pr[r].base, pr[r].head, main)
  BY MergeKeeps
<1>2. /\ pr \in [PullRequests -> Branch] /\ queue \subseteq Checkout /\ main \in Tree
      /\ UNCHANGED <<run, live, now, manual>>
  BY DEF Inv, TypeOK, Merge
<1>3. queue' \subseteq queue \cup {[tree |-> main', onMain |-> TRUE]}
  BY <1>1 DEF Merge
<1>4. /\ pr' \in [PullRequests -> Branch]
      /\ pr'[r].phase = "merged" /\ pr'[r].rev = pr[r].rev
      /\ \A q \in PullRequests \ {r} : pr'[q] = pr[q]
  <2>1. pr[r] \in Branch
    BY <1>2
  <2> DEFINE d == [pr[r] EXCEPT !.phase = "merged", !.base = NoTree,
                     !.head = NoTree, !.due = FALSE, !.merged = NoTree]
  <2>2. d \in Branch /\ d.phase = "merged" /\ d.rev = pr[r].rev
    BY <2>1 DEF Branch
  <2>3. pr' = [pr EXCEPT ![r] = d]
    BY <1>2 DEF Merge
  <2> HIDE DEF d
  <2> QED BY <1>2, <2>2, <2>3
<1>5. TypeOK'
  <2>1. [tree |-> main', onMain |-> TRUE] \in Checkout
    BY <1>1 DEF Checkout
  <2>2. queue' \subseteq Checkout
    BY <1>2, <1>3, <2>1
  <2>3. pr'[r].verdict = pr[r].verdict
    BY <1>2 DEF Merge, Branch
  <2> QED BY <1>1, <1>2, <1>4, <2>2, <2>3 DEF Inv, TypeOK
<1>6. ASSUME NEW c, Superseded(c)
      PROVE  Superseded(c)'
  <2> SUFFICES ASSUME c.onMain
               PROVE  AllAuthentic(c.tree) /\ Immutable(c.tree, main')
    BY DEF Superseded, AllAuthentic
  <2> QED BY <1>1, <1>6, ImmutableTransitive DEF Superseded
<1>7. Superseded(live)'
  BY <1>2, <1>6 DEF Inv, Superseded
<1>8. ASSUME NEW c \in queue'
      PROVE  Superseded(c)'
  <2>1. CASE c \in queue
    BY <1>6, <2>1 DEF Inv
  <2>2. CASE c = [tree |-> main', onMain |-> TRUE]
    BY <1>1, <2>2, ImmutableReflexive DEF Superseded, AllAuthentic
  <2> QED BY <1>3, <1>8, <2>1, <2>2
<1>9. ASSUME NEW q \in PullRequests, pr'[q].phase = "open"
      PROVE  BranchInv(q)'
  <2>1. pr'[q] = pr[q] /\ BranchInv(q)
    BY <1>4, <1>9 DEF Inv
  <2>2. Immutable(pr[q].base, main')
    BY <1>1, <2>1, ImmutableTransitive DEF BranchInv
  <2>3. \A pv \in PV : main'.json[pv] = NoFile => main.json[pv] = NoFile
    BY <1>1 DEF Immutable
  <2>4. Represents(pr[q].merged, pr[q].base, pr[q].head, main) =>
          Represents(pr[q].merged, pr[q].base, pr[q].head, main')
    BY <2>3 DEF Represents
  <2> QED BY <2>1, <2>2, <2>4 DEF BranchInv
<1>10. ASSUME NEW q \in PullRequests, run'[q] # NoTree
       PROVE  RunInv(q)'
  BY <1>2, <1>4, <1>10 DEF Inv, RunInv, RunFastForwards
<1> QED BY <1>1, <1>5, <1>7, <1>8, <1>9, <1>10 DEF Inv

\* A run started by hand on main checks out main's head.
LEMMA DispatchInv ==
  ASSUME Inv, Dispatch
  PROVE  Inv'
<1>1. UNCHANGED <<main, pr, run, live, now>> /\ manual' = manual + 1
  BY DEF Dispatch
<1>2. PICK c \in Checkout : queue' = queue \cup {c} /\ (c.onMain => c.tree = main)
  <2>1. ASSUME NEW r \in PullRequests, pr[r].phase = "open"
        PROVE  pr[r].head \in Tree
    BY <2>1 DEF Inv, TypeOK, Branch
  <2>2. ASSUME NEW t \in Tree, NEW o \in BOOLEAN
        PROVE  [tree |-> t, onMain |-> o] \in Checkout
    BY DEF Checkout
  <2>3. CASE queue' = queue \cup {[tree |-> main, onMain |-> TRUE]}
    BY <2>2, <2>3 DEF Inv, TypeOK
  <2>4. ASSUME NEW r \in PullRequests, pr[r].phase = "open",
               queue' = queue \cup {[tree |-> pr[r].head, onMain |-> FALSE]}
        PROVE  \E c \in Checkout :
                 queue' = queue \cup {c} /\ (c.onMain => c.tree = main)
    BY <2>1, <2>2, <2>4
  <2> QED BY <2>3, <2>4 DEF Dispatch
<1>3. TypeOK'
  BY <1>1, <1>2 DEF Inv, TypeOK
<1>4. Superseded(c)
  BY <1>2, ImmutableReflexive DEF Inv, Superseded
<1>5. Superseded(live)' /\ \A q \in queue' : Superseded(q)'
  BY <1>1, <1>2, <1>4 DEF Inv, Superseded, AllAuthentic
<1> QED BY <1>1, <1>3, <1>5 DEF Inv, BranchInv, RunInv, RunFastForwards, AllAuthentic

\* A deploy of main serves a commit that was main's.
LEMMA DeployInv ==
  ASSUME Inv, NEW c \in queue, Deploy(c)
  PROVE  Inv'
<1>1. /\ UNCHANGED <<main, pr, run, now, manual>> /\ queue' \subseteq queue
      /\ live' \in queue \cup {live}
  BY DEF Deploy
<1>2. TypeOK'
  BY <1>1 DEF Inv, TypeOK
<1>3. Superseded(live') /\ \A q \in queue' : Superseded(q)
  BY <1>1 DEF Inv
<1>4. Superseded(live)' /\ \A q \in queue' : Superseded(q)'
  BY <1>1, <1>3 DEF Superseded, AllAuthentic
<1> QED BY <1>1, <1>2, <1>4
        DEF Inv, BranchInv, RunInv, RunFastForwards, AllAuthentic

\* A step of the system keeps the invariant.
LEMMA NextInv ==
  ASSUME Inv, [Next]_vars
  PROVE  Inv'
<1>1. CASE UNCHANGED vars
  BY <1>1 DEF vars, Inv, TypeOK, Superseded, BranchInv, RunInv, RunFastForwards
<1>2. CASE Next
  BY <1>2, OpenInv, ContributeInv, ValidateStartInv, ValidateEndInv, RunStartInv,
     RunPushInv, RunStopInv, MergeInv, DispatchInv, DeployInv DEF Next
<1> QED BY <1>1, <1>2

LEMMA SpecInv == Spec => []Inv
<1>1. Init => Inv
  BY InitInv
<1>2. Inv /\ [Next]_vars => Inv'
  BY NextInv
<1> QED BY <1>1, <1>2, PTL DEF Spec

\* Nothing but a merge changes main.
LEMMA OnlyMerges ==
  ASSUME Next, main' # main
  PROVE  \E r \in PullRequests : Merge(r) /\ UNCHANGED live
<1>1. ASSUME NEW r \in PullRequests, Contribute(r)
      PROVE  UNCHANGED main
  <2>1. ASSUME NEW u, Edit(r, u) PROVE UNCHANGED main
    BY <2>1 DEF Edit, Push
  <2>2. ASSUME NEW u, Rebuild(r, u) PROVE UNCHANGED main
    BY <2>2 DEF Rebuild, Push
  <2>3. UpdateBranch(r) => UNCHANGED main
    BY DEF UpdateBranch, Push
  <2> QED BY <1>1, <2>1, <2>2, <2>3
          DEF Contribute, EditSource, PublishLocally, PublishInterrupted, Republish,
              SetYanked, Withdraw, EditKey, AddAdvisory
<1>2. ASSUME NEW r \in PullRequests,
             \/ Open(r) \/ ValidateStart(r) \/ ValidateEnd(r)
             \/ RunStart(r) \/ RunPush(r) \/ RunStop(r)
      PROVE  UNCHANGED main
  BY <1>2 DEF Open, ValidateStart, ValidateEnd, RunStart, RunPush, RunStop
<1>3. ASSUME Dispatch \/ \E c \in queue : Deploy(c)
      PROVE  UNCHANGED main
  BY <1>3 DEF Dispatch, Deploy
<1>4. ASSUME NEW r \in PullRequests, Merge(r)
      PROVE  UNCHANGED live
  BY <1>4 DEF Merge
<1> QED BY <1>1, <1>2, <1>3, <1>4 DEF Next

-----------------------------------------------------------------------------
(* The keys of what enters main.                                           *)

\* A commit that passed lists the key of every version it adds to main, as active, and
\* permits it the pack.
GreenKeys(r) ==
  pr[r].phase = "open" /\ pr[r].verdict = "green" =>
    \A pv \in PV :
      main.json[pv] = NoFile /\ pr[r].merged.json[pv] # NoFile =>
        KeyMaySign(pr[r].merged, pr[r].merged.json[pv].keyId, pv[1])
KeyInv == \A r \in PullRequests : GreenKeys(r)

\* Green again: the verdict of the branch and what it is about are as they were.
SameVerdict(r) ==
  /\ pr[r].phase = "open" /\ pr[r].verdict = "green"
  /\ pr'[r].merged = pr[r].merged

\* A branch is green because it was, or because one of the two workflows ends.
LEMMA GreenSteps ==
  ASSUME Inv, Next, NEW r \in PullRequests,
         pr'[r].phase = "open", pr'[r].verdict = "green"
  PROVE  SameVerdict(r) \/ ValidateEnd(r) \/ RunPush(r)
<1>1. pr \in [PullRequests -> Branch] /\ (pr[r].phase = "closed" => pr[r].verdict = "none")
  BY DEF Inv, TypeOK
<1>2. ASSUME NEW q \in PullRequests, Open(q)
      PROVE  SameVerdict(r)
  BY <1>1, <1>2 DEF Open, SameVerdict, Branch
<1>3. ASSUME NEW q \in PullRequests, Contribute(q)
      PROVE  SameVerdict(r)
  <2>1. PICK b, h : Push(q, b, h)
    BY <1>3, ContributePush
  <2>2. q # r
    BY <1>1, <2>1 DEF Push
  <2> QED BY <1>1, <2>1, <2>2 DEF Push, SameVerdict
<1>4. ASSUME NEW q \in PullRequests, ValidateStart(q) \/ RunStart(q) \/ Merge(q)
      PROVE  SameVerdict(r)
  <2>1. CASE q # r
    BY <1>1, <1>4, <2>1 DEF ValidateStart, RunStart, Merge, SameVerdict
  <2>2. CASE q = r
    BY <1>1, <1>4, <2>2 DEF ValidateStart, RunStart, Merge, SameVerdict, Branch
  <2> QED BY <2>1, <2>2
<1>5. ASSUME NEW q \in PullRequests, ValidateEnd(q) \/ RunPush(q), q # r
      PROVE  SameVerdict(r)
  BY <1>1, <1>5 DEF ValidateEnd, RunPush, SameVerdict
<1>6. ASSUME \/ \E q \in PullRequests : RunStop(q)
             \/ Dispatch \/ \E c \in queue : Deploy(c)
      PROVE  SameVerdict(r)
  BY <1>6 DEF RunStop, Dispatch, Deploy, SameVerdict
<1> QED BY <1>2, <1>3, <1>4, <1>5, <1>6 DEF Next

\* What publishes a version as a branch stages it has its tarball.
LEMMA StagedTarball ==
  ASSUME NEW b \in Tree, NEW h \in Tree, NEW m \in Tree, NEW g, NEW pv \in PV,
         Immutable(b, m), StagedInOrder(b, h), Represents(g, b, h, m),
         m.json[pv] = NoFile, g.json[pv] # NoFile
  PROVE  g.tgz[pv] # NoFile
<1>1. b.json[pv] = NoFile
  BY DEF Immutable
<1>2. g.json[pv] = h.json[pv] /\ g.tgz[pv] = h.tgz[pv]
  BY DEF Represents
<1> QED BY <1>1, <1>2 DEF StagedInOrder

\* The gates a pull request passes look at the status of a new key and at the
\* namespaces of every key.
LEMMA ValidateEndKeys ==
  ASSUME Inv, NEW r \in PullRequests, ValidateEnd(r), pr'[r].verdict = "green"
  PROVE  GreenKeys(r)'
<1> DEFINE g == pr[r].merged
<1>1. /\ pr \in [PullRequests -> Branch] /\ main \in Tree /\ main' = main
      /\ pr[r].phase = "open" /\ pr[r].verdict = "running" /\ BranchInv(r)
  BY DEF Inv, TypeOK, ValidateEnd
<1>2. pr[r].base \in Tree /\ pr[r].head \in Tree
  BY <1>1 DEF Inv, TypeOK, Branch
<1>3. pr'[r].merged = g /\ ServeGate(g) /\ PullRequestGate(main, g)
  <2>1. CASE ServeGate(g) /\ PullRequestGate(main, g)
    BY <1>1, <2>1 DEF ValidateEnd, Branch
  <2>2. CASE ~(ServeGate(g) /\ PullRequestGate(main, g))
    <3>1. pr' = [pr EXCEPT ![r].verdict = "red", ![r].merged = NoTree]
      BY <2>2 DEF ValidateEnd
    <3>2. pr'[r].verdict = "red"
      BY <1>1, <3>1 DEF Branch
    <3> QED BY <3>2
  <2> QED BY <2>1, <2>2
<1>4. ASSUME NEW pv \in PV, main.json[pv] = NoFile, g.json[pv] # NoFile
      PROVE  KeyMaySign(g, g.json[pv].keyId, pv[1])
  <2>1. g.tgz[pv] # NoFile
    BY <1>1, <1>2, <1>4, StagedTarball DEF BranchInv
  <2> QED BY <1>3, <1>4, <2>1
          DEF ServeGate, SignaturesVerify, PullRequestGate, NewSignedByActiveKey, KeyMaySign
<1> QED BY <1>1, <1>3, <1>4 DEF GreenKeys

\* And auto-register looks at both for every version.
LEMMA RunPushKeys ==
  ASSUME Inv, NEW r \in PullRequests, RunPush(r)
  PROVE  GreenKeys(r)'
<1> DEFINE u == RunResult(r, now')
<1>1. pr \in [PullRequests -> Branch]
  BY DEF Inv, TypeOK
<1>2. pr'[r].merged = u /\ RegistryCheck(run[r].main, u)
  BY <1>1 DEF RunPush, RunPasses
<1> HIDE DEF u
<1>3. \A pv \in PV : u.json[pv] # NoFile => KeyMaySign(u, u.json[pv].keyId, pv[1])
  BY <1>2 DEF RegistryCheck, NamespaceAuthority
<1> QED BY <1>2, <1>3 DEF GreenKeys

\* What main does not publish after a step it did not publish before.
LEMMA NextKeys ==
  ASSUME Inv, KeyInv, [Next]_vars
  PROVE  KeyInv'
<1>1. CASE UNCHANGED vars
  BY <1>1 DEF vars, KeyInv, GreenKeys
<1>2. CASE Next
  <2> SUFFICES ASSUME NEW r \in PullRequests,
                      pr'[r].phase = "open", pr'[r].verdict = "green"
               PROVE  GreenKeys(r)'
    BY DEF KeyInv, GreenKeys
  <2>1. \A pv \in PV : main'.json[pv] = NoFile => main.json[pv] = NoFile
    <3>1. CASE main' = main
      BY <3>1
    <3>2. CASE main' # main
      BY <1>2, <3>2, OnlyMerges, MergeKeeps DEF Immutable
    <3> QED BY <3>1, <3>2
  <2>2. CASE SameVerdict(r)
    BY <2>1, <2>2 DEF SameVerdict, KeyInv, GreenKeys
  <2>3. CASE ValidateEnd(r)
    BY <2>3, ValidateEndKeys
  <2>4. CASE RunPush(r)
    BY <2>4, RunPushKeys
  <2> QED BY <1>2, <2>2, <2>3, <2>4, GreenSteps
<1> QED BY <1>1, <1>2

\* A merge adds the files its verdict is about.
LEMMA MergeEnters ==
  ASSUME Inv, KeyInv, NEW r \in PullRequests, Merge(r), NEW pv \in PV,
         main.json[pv] = NoFile, main'.json[pv] # NoFile
  PROVE  /\ pr[r].phase = "open" /\ pr'[r].phase = "merged"
         /\ pr[r].merged # NoTree /\ Entered(pr[r].merged, main', pv)
<1> DEFINE b == pr[r].base
           h == pr[r].head
           g == pr[r].merged
<1>1. /\ pr \in [PullRequests -> Branch] /\ main \in Tree /\ AllAuthentic(main)
      /\ pr[r].phase = "open" /\ BranchInv(r)
      /\ main' = MergeTree(b, h, main)
      /\ TouchesRegistry(b, h) => pr[r].verdict = "green"
  BY DEF Inv, TypeOK, Merge
<1>2. b \in Tree /\ h \in Tree
  BY <1>1 DEF Inv, TypeOK, Branch
<1>3. AllAuthentic(b) /\ Immutable(b, main)
  BY <1>1 DEF BranchInv
<1>4. /\ b.json[pv] = NoFile /\ b.tgz[pv] = NoFile /\ b.sig[pv] = NoFile
      /\ main.tgz[pv] = NoFile /\ main.sig[pv] = NoFile
  BY <1>1, <1>3 DEF Immutable, AllAuthentic, Authentic
<1>5. main'.tgz[pv] = h.tgz[pv] /\ main'.json[pv] = h.json[pv] /\ main'.sig[pv] = h.sig[pv]
  BY <1>1, <1>2, <1>4, MergePoint DEF Pick
<1>6. pr[r].verdict = "green"
  <2>1. h.json # b.json
    BY <1>4, <1>5
  <2> QED BY <1>1, <2>1 DEF TouchesRegistry, RegistryPart
<1>7. g # NoTree /\ Represents(g, b, h, main)
  BY <1>1, <1>6 DEF Inv, TypeOK, BranchInv
<1>8. main'.tgz[pv] = g.tgz[pv] /\ main'.json[pv] = g.json[pv] /\ main'.sig[pv] = g.sig[pv]
  BY <1>5, <1>7 DEF Represents
<1>9. KeyMaySign(g, g.json[pv].keyId, pv[1])
  BY <1>1, <1>6, <1>8 DEF KeyInv, GreenKeys
<1>10. pr'[r].phase = "merged"
  BY <1>1 DEF Merge
<1> QED BY <1>1, <1>7, <1>8, <1>9, <1>10 DEF Entered

-----------------------------------------------------------------------------
(* The index of main.                                                      *)

\* Two commits with the same manifests, tarballs and rows.
SameIndex(s, t) == s.json = t.json /\ s.tgz = t.tgz /\ s.index.rows = t.index.rows

\* An index that was built on an open branch.
OwnIndex(r) == pr[r].phase = "open" /\ pr[r].head.index.at # pr[r].base.index.at

\* Until the branch merges, no other tree has the time of that build.
OwnTime(r) ==
  /\ pr[r].head.index.at # main.index.at
  /\ \A q \in PullRequests : pr[q].phase = "open" =>
       /\ pr[q].base.index.at # pr[r].head.index.at
       /\ q # r => pr[q].head.index.at # pr[r].head.index.at

\* The index of an open branch. As long as nothing built on a branch is merged,
\* main has the files the branch forked from. A branch that does not build the
\* index adds at most manifests that the gates refuse; one that builds it is
\* validated with the files it has.
BranchIndex(r) ==
  LET b == pr[r].base  h == pr[r].head  g == pr[r].merged IN
    /\ b.index.at <= now /\ h.index.at <= now
    /\ b.index.at = main.index.at => SameIndex(b, main)
    /\ h.index.at = b.index.at =>
         /\ h.index.rows = b.index.rows
         /\ \A pv \in PV : h.json[pv] # b.json[pv] => Unindexed(h.json[pv])
    /\ h.index.at # b.index.at =>
         /\ OwnTime(r)
         /\ pr[r].verdict \in {"running", "green"} => SameIndex(g, h)
    /\ pr[r].verdict = "green" => IndexCurrent(g) /\ TarballSignaturesOk(g)

IndexInv ==
  /\ IndexCurrent(main) /\ main.index.at <= now
  /\ \A r \in PullRequests : pr[r].phase = "open" => BranchIndex(r)

\* The index describes nothing but the manifests, the tarballs and its rows.
LEMMA CurrentSame ==
  ASSUME NEW s, NEW t, SameIndex(s, t), IndexCurrent(t)
  PROVE  IndexCurrent(s)
<1>1. s.json = t.json /\ s.tgz = t.tgz /\ s.index.rows = t.index.rows
  BY DEF SameIndex
<1>2. Indexed(s) = Indexed(t)
  BY <1>1 DEF Indexed
<1> QED BY <1>1, <1>2 DEF IndexCurrent

\* What a merge does to the index.
LEMMA MergeIndex ==
  ASSUME NEW b \in Tree, NEW h \in Tree, NEW m \in Tree
  PROVE  LET u == MergeTree(b, h, m) IN
         /\ u.index.at = Pick(b.index.at, h.index.at, m.index.at)
         /\ \A pv \in PV : u.index.rows[pv] =
              Pick(b.index.rows[pv], h.index.rows[pv], m.index.rows[pv])
         /\ Mergeable(b, h, m) => ~Clash(b.index.at, h.index.at, m.index.at)
<1>1. DOMAIN m.index.rows = PV
  BY DEF Tree
<1> QED BY <1>1 DEF MergeTree, PickAll, Mergeable

\* Trees are functions: their files are compared version by version.
LEMMA SameIndexPoint ==
  ASSUME NEW s \in Tree, NEW t \in Tree,
         \A pv \in PV : /\ s.json[pv] = t.json[pv] /\ s.tgz[pv] = t.tgz[pv]
                        /\ s.index.rows[pv] = t.index.rows[pv]
  PROVE  SameIndex(s, t)
<1>1. /\ s.json \in [PV -> Manifest \cup {NoFile}]
      /\ t.json \in [PV -> Manifest \cup {NoFile}]
      /\ s.tgz \in [PV -> Tarball \cup {NoFile}]
      /\ t.tgz \in [PV -> Tarball \cup {NoFile}]
      /\ s.index.rows \in [PV -> Manifest \cup {NoFile}]
      /\ t.index.rows \in [PV -> Manifest \cup {NoFile}]
  BY DEF Tree
<1>2. s.json = t.json
  BY <1>1
<1>3. s.tgz = t.tgz
  BY <1>1
<1>4. s.index.rows = t.index.rows
  BY <1>1
<1> QED BY <1>2, <1>3, <1>4 DEF SameIndex

\* Merging into a main that still has the files of the base yields the head's.
LEMMA MergeOntoBase ==
  ASSUME NEW b \in Tree, NEW h \in Tree, NEW m \in Tree, SameIndex(b, m)
  PROVE  SameIndex(MergeTree(b, h, m), h)
<1> DEFINE u == MergeTree(b, h, m)
<1>1. u \in Tree
  BY MergeTreeType
<1>2. ASSUME NEW pv \in PV
      PROVE  /\ u.json[pv] = Pick(b.json[pv], h.json[pv], m.json[pv])
             /\ u.tgz[pv] = Pick(b.tgz[pv], h.tgz[pv], m.tgz[pv])
             /\ u.index.rows[pv] = Pick(b.index.rows[pv], h.index.rows[pv], m.index.rows[pv])
  BY MergePoint, MergeIndex
<1> HIDE DEF u
<1>3. ASSUME NEW pv \in PV
      PROVE  /\ u.json[pv] = h.json[pv] /\ u.tgz[pv] = h.tgz[pv]
             /\ u.index.rows[pv] = h.index.rows[pv]
  BY <1>2 DEF Pick, SameIndex
<1>4. SameIndex(u, h)
  BY <1>1, <1>3, SameIndexPoint
<1> QED BY <1>4 DEF u

\* The seeded main's index is current.
LEMMA InitIndex ==
  ASSUME Init
  PROVE  IndexInv
<1>1. main = SeedTree
  BY DEF Init
<1>2. /\ main.json = main.index.rows /\ main.index.at = 0
      /\ \A pv \in PV : /\ main.json[pv] = IF SeedAt(pv) THEN SeedManifest ELSE NoFile
                        /\ main.tgz[pv] = IF SeedAt(pv) THEN SeedTarball ELSE NoFile
      /\ main.json = [pv \in PV |-> IF SeedAt(pv) THEN SeedManifest ELSE NoFile]
  BY <1>1 DEF SeedTree
<1>3. [SeedManifest EXCEPT !.integrity = SeedTarball] = SeedManifest
  <2>1. ASSUME NEW m \in Manifest
        PROVE  [m EXCEPT !.integrity = m.integrity] = m
    BY <2>1 DEF Manifest
  <2>2. SeedManifest \in Manifest /\ SeedManifest.integrity = SeedTarball
    <3>1. SeedTarball \in Tarball /\ BotKey \in Keys
      BY KeysAssumption, SeedAssumption
         DEF Source, SeedTarball, SeedKey, Tarball
    <3> QED BY <3>1 DEF SeedManifest, SeedKey, Manifest
  <2> QED BY <2>1, <2>2
<1>4. main.json = Indexed(main)
  <2>1. ASSUME NEW pv \in PV
        PROVE  Indexed(main)[pv] = IF SeedAt(pv) THEN SeedManifest ELSE NoFile
    <3>1. Indexed(main)[pv] = IF main.json[pv] # NoFile /\ main.tgz[pv] # NoFile
            THEN [main.json[pv] EXCEPT !.integrity = main.tgz[pv]] ELSE main.json[pv]
      BY DEF Indexed
    <3>2. CASE SeedAt(pv)
      BY <1>2, <1>3, <3>1, <3>2
    <3>3. CASE ~SeedAt(pv)
      BY <1>2, <3>1, <3>3
    <3> QED BY <3>2, <3>3
  <2>2. Indexed(main) = [pv \in PV |-> Indexed(main)[pv]]
    BY DEF Indexed
  <2> QED BY <1>2, <2>1, <2>2
<1>5. \A r \in PullRequests : pr[r].phase # "open"
  BY DEF Init
<1> QED BY <1>2, <1>4, <1>5 DEF IndexInv, IndexCurrent, Init

\* A step on one branch needs to be looked at on that branch, which must not take
\* the time of a build of another.
LEMMA IndexStep ==
  ASSUME Inv, IndexInv, NEW r \in PullRequests, main' = main,
         now' \in Nat, now <= now',
         \A q \in PullRequests \ {r} : pr'[q] = pr[q],
         pr'[r].phase = "open" =>
           /\ BranchIndex(r)'
           /\ \A q \in PullRequests \ {r} : OwnIndex(q) =>
                /\ pr'[r].base.index.at # pr[q].head.index.at
                /\ pr'[r].head.index.at # pr[q].head.index.at
  PROVE  IndexInv'
<1>1. now \in Nat /\ main.index.at \in Nat
  BY DEF Inv, TypeOK, Tree
<1>2. IndexCurrent(main)' /\ main'.index.at <= now'
  <2>1. main'.index.at <= now'
    BY <1>1 DEF IndexInv
  <2> QED BY <2>1 DEF IndexInv, IndexCurrent, Indexed
<1>3. ASSUME NEW q \in PullRequests \ {r}, pr'[q].phase = "open"
      PROVE  BranchIndex(q)'
  <2>1. pr'[q] = pr[q] /\ BranchIndex(q)
    BY <1>3 DEF IndexInv
  <2>2. pr[q].base.index.at \in Nat /\ pr[q].head.index.at \in Nat
    <3>1. pr[q] \in Branch /\ pr[q].base # NoTree /\ pr[q].head # NoTree
      BY <1>3, <2>1 DEF Inv, TypeOK
    <3>2. pr[q].base \in Tree /\ pr[q].head \in Tree
      BY <3>1 DEF Branch
    <3> QED BY <3>2 DEF Tree
  <2>3. pr[q].base.index.at <= now' /\ pr[q].head.index.at <= now'
    BY <1>1, <2>1, <2>2 DEF BranchIndex
  <2>4. OwnIndex(q) => OwnTime(q)'
    <3>1. SUFFICES ASSUME OwnIndex(q) PROVE OwnTime(q)'
      OBVIOUS
    <3>2. OwnTime(q)
      BY <2>1, <3>1 DEF OwnIndex, BranchIndex
    <3> QED BY <2>1, <3>1, <3>2 DEF OwnTime
  <2> QED BY <1>3, <2>1, <2>3, <2>4 DEF BranchIndex, OwnIndex
<1>4. ASSUME NEW q \in PullRequests, pr'[q].phase = "open"
      PROVE  BranchIndex(q)'
  BY <1>3, <1>4
<1> QED BY <1>2, <1>4 DEF IndexInv

\* The commits an open branch is made of, and the times of their indexes.
LEMMA BranchTrees ==
  ASSUME Inv, NEW r \in PullRequests, pr[r].phase = "open"
  PROVE  /\ pr[r].base \in Tree /\ pr[r].head \in Tree
         /\ pr[r].base.index.at \in Nat /\ pr[r].head.index.at \in Nat
         /\ main \in Tree /\ main.index.at \in Nat /\ now \in Nat
<1>1. pr[r] \in Branch /\ pr[r].base # NoTree /\ pr[r].head # NoTree
      /\ main \in Tree /\ now \in Nat
  BY DEF Inv, TypeOK
<1>2. pr[r].base \in Tree /\ pr[r].head \in Tree
  BY <1>1 DEF Branch
<1> QED BY <1>1, <1>2 DEF Tree

\* A push keeps the index of its branch apart from those of the others.
LEMMA PushIndex ==
  ASSUME Inv, IndexInv, NEW r \in PullRequests, pr[r].phase = "open",
         NEW b, NEW h, Pushable(r, b, h), Push(r, b, h)
  PROVE  IndexInv'
<1> DEFINE ob == pr[r].base
           oh == pr[r].head
<1>1. /\ ob \in Tree /\ oh \in Tree /\ ob.index.at \in Nat /\ oh.index.at \in Nat
      /\ main \in Tree /\ main.index.at \in Nat /\ now \in Nat
  BY BranchTrees
<1>2. b \in Tree /\ h \in Tree /\ now' \in {now, now + 1}
  BY DEF Pushable
<1>3. b.index.at \in Nat /\ h.index.at \in Nat
  BY <1>2 DEF Tree
<1>4. BranchIndex(r) /\ main.index.at <= now
  BY DEF IndexInv
<1>5. /\ pr'[r].phase = "open" /\ pr'[r].base = b /\ pr'[r].head = h
      /\ pr'[r].verdict = "none" /\ main' = main
      /\ \A q \in PullRequests \ {r} : pr'[q] = pr[q]
  <2>1. pr \in [PullRequests -> Branch]
    BY DEF Inv, TypeOK
  <2> QED BY <2>1 DEF Push
<1>6. b \in {ob, main}
  BY DEF Pushable, Edited, Rebuilt, Updated
<1>7. b.index.at <= now /\ (b.index.at = main.index.at => SameIndex(b, main))
  BY <1>4, <1>6 DEF BranchIndex, SameIndex
<1>8. ASSUME NEW q \in PullRequests \ {r}, OwnIndex(q)
      PROVE  /\ b.index.at # pr[q].head.index.at /\ ob.index.at # pr[q].head.index.at
             /\ oh.index.at # pr[q].head.index.at /\ main.index.at # pr[q].head.index.at
  BY <1>6, <1>8 DEF OwnIndex, IndexInv, BranchIndex, OwnTime
<1>9. ASSUME NEW q \in PullRequests \ {r}, pr[q].phase = "open"
      PROVE  /\ pr[q].base.index.at \in Nat /\ pr[q].head.index.at \in Nat
             /\ pr[q].base.index.at <= now /\ pr[q].head.index.at <= now
  BY <1>9, BranchTrees DEF IndexInv, BranchIndex
<1>10. SUFFICES /\ h.index.at <= now'
                /\ h.index.at = b.index.at =>
                     /\ h.index.rows = b.index.rows
                     /\ \A pv \in PV : h.json[pv] # b.json[pv] => Unindexed(h.json[pv])
                /\ h.index.at # b.index.at => OwnTime(r)'
                /\ \A q \in PullRequests \ {r} : OwnIndex(q) =>
                     h.index.at # pr[q].head.index.at
  <2>1. b.index.at <= now' /\ now <= now' /\ now' \in Nat
    BY <1>1, <1>2, <1>3, <1>7
  <2>2. BranchIndex(r)'
    BY <1>5, <1>7, <1>10, <2>1 DEF BranchIndex, Unindexed, SameIndex
  <2> QED BY <1>5, <1>8, <1>10, <2>1, <2>2, IndexStep
<1> HIDE DEF ob, oh
<1>11. ASSUME h.index.at # main.index.at, h.index.at # b.index.at,
              \A q \in PullRequests \ {r} : pr[q].phase = "open" =>
                /\ pr[q].base.index.at # h.index.at
                /\ pr[q].head.index.at # h.index.at
       PROVE  OwnTime(r)'
  BY <1>5, <1>11 DEF OwnTime
<1>12. CASE Rebuilt(r, b, h)
  <2>1. h.index.at = now + 1 /\ now' = now + 1
    BY <1>12 DEF Rebuilt
  <2>2. /\ h.index.at # main.index.at /\ h.index.at # b.index.at
        /\ \A q \in PullRequests \ {r} : pr[q].phase = "open" =>
             /\ pr[q].base.index.at # h.index.at
             /\ pr[q].head.index.at # h.index.at
    BY <1>1, <1>3, <1>4, <1>7, <1>9, <2>1
  <2> QED BY <1>1, <1>11, <2>1, <2>2 DEF OwnIndex
<1>13. ASSUME oh.index.at # ob.index.at
       PROVE  /\ oh.index.at # main.index.at
              /\ \A q \in PullRequests \ {r} : pr[q].phase = "open" =>
                   /\ pr[q].base.index.at # oh.index.at
                   /\ pr[q].head.index.at # oh.index.at
  BY <1>4, <1>13 DEF BranchIndex, OwnTime, ob, oh
<1>14. CASE Edited(r, b, h)
  <2>1. /\ b = ob /\ h.index = oh.index
        /\ \A pv \in PV : h.json[pv] = oh.json[pv] \/ Unindexed(h.json[pv])
    BY <1>14 DEF Edited, ob, oh
  <2>2. h.index.at <= now'
    BY <1>1, <1>2, <1>4, <2>1 DEF BranchIndex, oh
  <2>3. h.index.at = b.index.at =>
          /\ h.index.rows = b.index.rows
          /\ \A pv \in PV : h.json[pv] # b.json[pv] => Unindexed(h.json[pv])
    BY <1>4, <2>1 DEF BranchIndex, ob, oh
  <2>4. h.index.at # b.index.at => OwnTime(r)'
    BY <1>11, <1>13, <2>1
  <2> QED BY <1>8, <2>1, <2>2, <2>3, <2>4
<1>15. CASE Updated(r, b, h)
  <2>1. b = main /\ Mergeable(ob, oh, main) /\ h = MergeTree(ob, oh, main)
    BY <1>15 DEF Updated, ob, oh
  <2>2. /\ h.index.at = Pick(ob.index.at, oh.index.at, main.index.at)
        /\ \A pv \in PV : h.index.rows[pv] =
             Pick(ob.index.rows[pv], oh.index.rows[pv], main.index.rows[pv])
        /\ \A pv \in PV : h.json[pv] = Pick(ob.json[pv], oh.json[pv], main.json[pv])
    BY <1>1, <2>1, MergeIndex, MergePoint
  <2>3. h.index.at \in {oh.index.at, main.index.at}
    BY <2>2 DEF Pick
  <2>4. h.index.at <= now'
    BY <1>1, <1>2, <1>4, <2>3 DEF BranchIndex, oh
  <2>5. oh.index.at # ob.index.at => h.index.at # b.index.at /\ OwnTime(r)'
    <3>1. SUFFICES ASSUME oh.index.at # ob.index.at
                   PROVE  h.index.at # b.index.at /\ OwnTime(r)'
      OBVIOUS
    <3>2. h.index.at = oh.index.at
      BY <2>2, <3>1 DEF Pick
    <3> QED BY <1>11, <1>13, <2>1, <3>1, <3>2
  <2>6. oh.index.at = ob.index.at =>
          /\ h.index.at = b.index.at /\ h.index.rows = b.index.rows
          /\ \A pv \in PV : h.json[pv] # b.json[pv] => Unindexed(h.json[pv])
    <3>1. SUFFICES ASSUME oh.index.at = ob.index.at
                   PROVE  /\ h.index.at = b.index.at /\ h.index.rows = b.index.rows
                          /\ \A pv \in PV : h.json[pv] # b.json[pv] => Unindexed(h.json[pv])
      OBVIOUS
    <3>2. /\ oh.index.rows = ob.index.rows
          /\ \A pv \in PV : oh.json[pv] # ob.json[pv] => Unindexed(oh.json[pv])
      BY <1>4, <3>1 DEF BranchIndex, ob, oh
    <3>3. \A pv \in PV : h.index.rows[pv] = b.index.rows[pv]
      BY <2>1, <2>2, <3>2 DEF Pick
    <3>4. /\ h.index.rows \in [PV -> Manifest \cup {NoFile}]
          /\ b.index.rows \in [PV -> Manifest \cup {NoFile}]
      BY <1>2 DEF Tree
    <3>5. h.index.rows = b.index.rows
      BY <3>3, <3>4
    <3>6. \A pv \in PV : h.json[pv] # b.json[pv] => Unindexed(h.json[pv])
      BY <2>1, <2>2, <3>2 DEF Pick
    <3> QED BY <2>1, <2>2, <3>1, <3>5, <3>6 DEF Pick
  <2> QED BY <1>8, <2>3, <2>4, <2>5, <2>6
<1> QED BY <1>12, <1>14, <1>15 DEF Pushable

\* What a run validates has the files of a branch that built its index.
LEMMA ValidateStartIndex ==
  ASSUME Inv, IndexInv, NEW r \in PullRequests, ValidateStart(r)
  PROVE  IndexInv'
<1> DEFINE b == pr[r].base
           h == pr[r].head
           g == MergeTree(b, h, main)
<1>1. /\ pr[r].phase = "open" /\ Mergeable(b, h, main)
      /\ pr' = [pr EXCEPT ![r].verdict = "running", ![r].merged = g]
      /\ UNCHANGED <<main, now>> /\ pr \in [PullRequests -> Branch]
  BY DEF ValidateStart, Inv, TypeOK
<1>2. /\ b \in Tree /\ h \in Tree /\ main \in Tree /\ now \in Nat
  BY <1>1, BranchTrees
<1> HIDE DEF g
<1>3. /\ pr'[r].phase = "open" /\ pr'[r].base = b /\ pr'[r].head = h
      /\ pr'[r].verdict = "running" /\ pr'[r].merged = g
      /\ \A q \in PullRequests \ {r} : pr'[q] = pr[q]
  BY <1>1 DEF Branch
<1>4. BranchIndex(r)
  BY <1>1 DEF IndexInv
<1>5. h.index.at # b.index.at => SameIndex(g, h)
  <2>1. SUFFICES ASSUME h.index.at # b.index.at PROVE SameIndex(g, h)
    OBVIOUS
  <2>2. ~Clash(b.index.at, h.index.at, main.index.at) /\ h.index.at # main.index.at
    BY <1>1, <1>2, <1>4, <2>1, MergeIndex DEF BranchIndex, OwnTime
  <2>3. SameIndex(b, main)
    BY <1>4, <2>1, <2>2 DEF Clash, BranchIndex
  <2> QED BY <1>2, <2>3, MergeOntoBase DEF g
<1>6. h.index.at # b.index.at => OwnTime(r)'
  BY <1>1, <1>3, <1>4 DEF BranchIndex, OwnTime
<1>7. BranchIndex(r)'
  BY <1>1, <1>3, <1>4, <1>5, <1>6 DEF BranchIndex
<1>8. \A q \in PullRequests \ {r} : OwnIndex(q) =>
        b.index.at # pr[q].head.index.at /\ h.index.at # pr[q].head.index.at
  BY <1>1 DEF OwnIndex, IndexInv, BranchIndex, OwnTime
<1> QED BY <1>1, <1>2, <1>3, <1>7, <1>8, IndexStep

\* A green verdict is about a commit whose index the gates have checked.
LEMMA ValidateEndIndex ==
  ASSUME Inv, IndexInv, NEW r \in PullRequests, ValidateEnd(r)
  PROVE  IndexInv'
<1> DEFINE b == pr[r].base
           h == pr[r].head
           g == pr[r].merged
<1>1. /\ pr[r].phase = "open" /\ pr[r].verdict = "running"
      /\ UNCHANGED <<main, now>> /\ pr \in [PullRequests -> Branch] /\ now \in Nat
  BY DEF ValidateEnd, Inv, TypeOK
<1>2. /\ pr'[r].phase = "open" /\ pr'[r].base = b /\ pr'[r].head = h
      /\ \A q \in PullRequests \ {r} : pr'[q] = pr[q]
      /\ \/ /\ pr'[r].verdict = "green" /\ pr'[r].merged = g /\ ServeGate(g)
         \/ pr'[r].verdict = "red"
  BY <1>1 DEF ValidateEnd, Branch
<1>3. BranchIndex(r)
  BY <1>1 DEF IndexInv
<1>4. h.index.at # b.index.at => OwnTime(r)'
  BY <1>1, <1>2, <1>3 DEF BranchIndex, OwnTime
<1>5. BranchIndex(r)'
  BY <1>1, <1>2, <1>3, <1>4 DEF BranchIndex, ServeGate
<1>6. \A q \in PullRequests \ {r} : OwnIndex(q) =>
        b.index.at # pr[q].head.index.at /\ h.index.at # pr[q].head.index.at
  BY <1>1 DEF OwnIndex, IndexInv, BranchIndex, OwnTime
<1> QED BY <1>1, <1>2, <1>5, <1>6, IndexStep

\* A run pushes an index of its own, built and checked for the tree it pushes.
LEMMA RunPushIndex ==
  ASSUME Inv, IndexInv, NEW r \in PullRequests, RunPush(r)
  PROVE  IndexInv'
<1> DEFINE b == pr[r].base
           c == Copied(run[r].head, RunTodo(r), RunTodo(r), RunTodo(r), BotKey, BotKey)
           u == Reindex(c, now')
<1>1. /\ pr[r].phase = "open" /\ run[r] # NoTree /\ run[r] \in Run
      /\ now' = now + 1 /\ main' = main /\ pr \in [PullRequests -> Branch]
  BY DEF RunPush, RunFastForwards, Inv, TypeOK
<1>2. /\ b \in Tree /\ b.index.at \in Nat /\ main.index.at \in Nat /\ now \in Nat
  BY <1>1, BranchTrees
<1>3. u.index.at = now'
  <2>1. run[r].head \in Tree
    BY <1>1 DEF Run
  <2> QED BY <2>1 DEF Reindex, Copied, Tree
<1>4. RunResult(r, now') = u /\ RegistryCheck(run[r].main, u)
  BY <1>1 DEF RunPush, RunPasses, RunResult
<1>5. pr' = [pr EXCEPT ![r].head = u, ![r].rev = @ + 1,
                       ![r].verdict = "green", ![r].merged = u]
  BY <1>4 DEF RunPush
<1> HIDE DEF c, u
<1>6. /\ pr'[r].phase = "open" /\ pr'[r].base = b /\ pr'[r].head = u
      /\ pr'[r].verdict = "green" /\ pr'[r].merged = u
      /\ \A q \in PullRequests \ {r} : pr'[q] = pr[q]
  BY <1>1, <1>5 DEF Branch
<1>7. BranchIndex(r) /\ main.index.at <= now
  BY <1>1 DEF IndexInv
<1>8. ASSUME NEW q \in PullRequests, pr[q].phase = "open"
      PROVE  /\ pr[q].base.index.at # now' /\ pr[q].head.index.at # now'
             /\ pr[q].base.index.at <= now
  BY <1>1, <1>2, <1>8, BranchTrees DEF IndexInv, BranchIndex
<1>9. OwnTime(r)'
  <2>1. u.index.at # main.index.at
    BY <1>1, <1>2, <1>3, <1>7
  <2>2. ASSUME NEW q \in PullRequests, pr'[q].phase = "open"
        PROVE  /\ pr'[q].base.index.at # u.index.at
               /\ q # r => pr'[q].head.index.at # u.index.at
    BY <1>1, <1>3, <1>6, <1>8, <2>2
  <2> QED BY <1>1, <1>6, <2>1, <2>2 DEF OwnTime
<1>10. u.index.at # b.index.at /\ b.index.at <= now' /\ u.index.at <= now'
  BY <1>1, <1>2, <1>3, <1>8
<1>11. IndexCurrent(u) /\ TarballSignaturesOk(u) /\ SameIndex(u, u)
  BY <1>4 DEF RegistryCheck, ServeGate, SameIndex
<1>12. BranchIndex(r)'
  BY <1>1, <1>6, <1>7, <1>9, <1>10, <1>11 DEF BranchIndex, SameIndex
<1>13. \A q \in PullRequests \ {r} : OwnIndex(q) =>
         b.index.at # pr[q].head.index.at /\ u.index.at # pr[q].head.index.at
  BY <1>1, <1>3, <1>8 DEF OwnIndex, IndexInv, BranchIndex, OwnTime
<1> QED BY <1>1, <1>2, <1>6, <1>12, <1>13, IndexStep

\* A branch that did not build the index leaves main's files as they are.
LEMMA MergeWithoutBuild ==
  ASSUME Inv, IndexInv, NEW r \in PullRequests, Merge(r),
         pr[r].head.index.at = pr[r].base.index.at
  PROVE  SameIndex(main', main) /\ main'.index.at = main.index.at
<1> DEFINE b == pr[r].base
           h == pr[r].head
           g == pr[r].merged
<1>1. /\ main' \in Tree /\ Immutable(main, main') /\ AllAuthentic(main')
      /\ main' = MergeTree(b, h, main)
  BY MergeKeeps
<1>2. /\ pr[r].phase = "open" /\ BranchIndex(r) /\ BranchInv(r) /\ AllAuthentic(main)
      /\ TouchesRegistry(b, h) => pr[r].verdict = "green"
  BY DEF Merge, Inv, IndexInv
<1>3. b \in Tree /\ h \in Tree /\ main \in Tree
  BY <1>2, BranchTrees
<1>4. ASSUME NEW pv \in PV
      PROVE  h.json[pv] = b.json[pv]
  <2>1. CASE ~TouchesRegistry(b, h)
    BY <2>1 DEF TouchesRegistry, RegistryPart
  <2>2. CASE pr[r].verdict = "green"
    \* Every manifest that waits for the index is refused by the gates.
    <3>1. SUFFICES ASSUME h.json[pv] # b.json[pv] PROVE FALSE
      OBVIOUS
    <3>2. Unindexed(h.json[pv]) /\ g.json[pv] = h.json[pv]
      BY <1>2, <2>2, <3>1 DEF BranchIndex, BranchInv, Represents
    <3>3. IndexCurrent(g) /\ TarballSignaturesOk(g)
      BY <1>2, <2>2 DEF BranchIndex
    <3> DEFINE row == g.index.rows[pv]
    <3>4. row = Indexed(g)[pv] /\ Indexed(g)[pv] = g.json[pv]
      BY <3>3 DEF IndexCurrent
    <3>5. g.tgz[pv] # NoFile
      BY <3>2, <3>3, <3>4 DEF TarballSignaturesOk, Unindexed
    <3>6. g.json[pv] # NoFile /\ g.json[pv].integrity = NoFile
      BY <3>2 DEF Unindexed
    <3>7. g.json[pv] = [g.json[pv] EXCEPT !.integrity = g.tgz[pv]]
      BY <3>4, <3>5, <3>6 DEF Indexed
    <3>8. g.json[pv] \in Manifest
      BY <1>3, <3>2, <3>6 DEF Tree
    <3>9. [g.json[pv] EXCEPT !.integrity = g.tgz[pv]].integrity = g.tgz[pv]
      BY <3>8 DEF Manifest
    <3> QED BY <3>5, <3>6, <3>7, <3>9
  <2> QED BY <1>2, <2>1, <2>2
<1>5. ASSUME NEW pv \in PV
      PROVE  main'.json[pv] = main.json[pv]
  <2> HIDE DEF b, h
  <2>1. (MergeTree(b, h, main)).json[pv] = Pick(b.json[pv], h.json[pv], main.json[pv])
    BY <1>3, MergePoint
  <2>2. Pick(b.json[pv], h.json[pv], main.json[pv]) = main.json[pv]
    BY <1>4 DEF Pick
  <2> QED BY <1>1, <2>1, <2>2
<1>6. ASSUME NEW pv \in PV
      PROVE  main'.tgz[pv] = main.tgz[pv]
  <2>1. CASE main.json[pv] # NoFile
    BY <1>1, <1>2, <2>1 DEF Immutable, AllAuthentic, Authentic
  <2>2. CASE main.json[pv] = NoFile
    BY <1>1, <1>2, <1>5, <2>2 DEF AllAuthentic, Authentic
  <2> QED BY <2>1, <2>2
<1>7. h.index.rows = b.index.rows
  BY <1>2 DEF BranchIndex
<1>8. ASSUME NEW pv \in PV
      PROVE  main'.index.rows[pv] = main.index.rows[pv]
  <2> HIDE DEF b, h
  <2>1. (MergeTree(b, h, main)).index.rows[pv]
          = Pick(b.index.rows[pv], h.index.rows[pv], main.index.rows[pv])
    BY <1>3, MergeIndex
  <2>2. Pick(b.index.rows[pv], h.index.rows[pv], main.index.rows[pv])
          = main.index.rows[pv]
    BY <1>7 DEF Pick
  <2> QED BY <1>1, <2>1, <2>2
<1>9. main'.index.at = main.index.at
  BY <1>1, <1>3, MergeIndex DEF Pick
<1>10. SameIndex(main', main)
  <2>1. main' \in Tree /\ main \in Tree
    BY <1>1, <1>3
  <2> HIDE DEF b, h, g
  <2> QED BY <2>1, <1>5, <1>6, <1>8, SameIndexPoint
<1> QED BY <1>9, <1>10

\* A branch that built the index merges only into a main that has the files it
\* forked from, and its own files are those that were validated.
LEMMA MergeWithBuild ==
  ASSUME Inv, IndexInv, NEW r \in PullRequests, Merge(r),
         pr[r].head.index.at # pr[r].base.index.at
  PROVE  IndexCurrent(main') /\ main'.index.at = pr[r].head.index.at
<1> DEFINE b == pr[r].base
           h == pr[r].head
           g == pr[r].merged
<1>1. /\ main' = MergeTree(b, h, main) /\ Mergeable(b, h, main)
      /\ pr[r].phase = "open" /\ BranchIndex(r)
      /\ TouchesRegistry(b, h) => pr[r].verdict = "green"
  BY DEF Merge, IndexInv
<1>2. b \in Tree /\ h \in Tree /\ main \in Tree
  BY <1>1, BranchTrees
<1>3. pr[r].verdict = "green"
  BY <1>1 DEF TouchesRegistry, RegistryPart
<1>4. IndexCurrent(g) /\ SameIndex(g, h)
  BY <1>1, <1>3 DEF BranchIndex
<1>5. ~Clash(b.index.at, h.index.at, main.index.at) /\ h.index.at # main.index.at
  BY <1>1, <1>2, MergeIndex DEF BranchIndex, OwnTime
<1>6. SameIndex(b, main)
  BY <1>1, <1>5 DEF Clash, BranchIndex
<1>7. SameIndex(main', h)
  BY <1>1, <1>2, <1>6, MergeOntoBase
<1>8. SameIndex(main', g)
  BY <1>4, <1>7 DEF SameIndex
<1>9. main'.index.at = h.index.at
  BY <1>1, <1>2, MergeIndex DEF Pick
<1>10. IndexCurrent(main')
  <2> HIDE DEF b, h, g
  <2> QED BY <1>4, <1>8, CurrentSame
<1> QED BY <1>9, <1>10

\* A merge leaves the index of main current.
LEMMA MergeIndexInv ==
  ASSUME Inv, IndexInv, NEW r \in PullRequests, Merge(r)
  PROVE  IndexInv'
<1>1. /\ pr'[r].phase = "merged" /\ now' = now
      /\ \A q \in PullRequests \ {r} : pr'[q] = pr[q]
  <2>1. pr \in [PullRequests -> Branch]
    BY DEF Inv, TypeOK
  <2> QED BY <2>1 DEF Merge
<1>2. pr[r].phase = "open" /\ BranchIndex(r)
  BY DEF Merge, IndexInv
<1>3. IndexCurrent(main') /\ main'.index.at \in {main.index.at, pr[r].head.index.at}
  BY MergeWithBuild, MergeWithoutBuild, CurrentSame DEF IndexInv
<1>4. main'.index.at <= now'
  BY <1>1, <1>2, <1>3 DEF IndexInv, BranchIndex
<1>5. ASSUME NEW q \in PullRequests, pr'[q].phase = "open"
      PROVE  BranchIndex(q)'
  <2>1. q # r /\ pr'[q] = pr[q] /\ pr[q].phase = "open" /\ BranchIndex(q)
    BY <1>1, <1>5 DEF IndexInv
  <2>2. pr[q].base.index.at = main'.index.at => SameIndex(pr[q].base, main')
    <3>1. CASE pr[r].head.index.at = pr[r].base.index.at
      BY <2>1, <3>1, MergeWithoutBuild DEF BranchIndex, SameIndex
    <3>2. CASE pr[r].head.index.at # pr[r].base.index.at
      BY <1>2, <2>1, <3>2, MergeWithBuild DEF BranchIndex, OwnTime
    <3> QED BY <3>1, <3>2
  <2>3. pr[q].head.index.at # pr[q].base.index.at => OwnTime(q)'
    <3>1. SUFFICES ASSUME pr[q].head.index.at # pr[q].base.index.at
                   PROVE  OwnTime(q)'
      OBVIOUS
    <3>2. OwnTime(q)
      BY <2>1, <3>1 DEF BranchIndex
    <3>3. pr[q].head.index.at # main'.index.at
      BY <1>2, <1>3, <2>1, <3>2 DEF OwnTime
    <3>4. ASSUME NEW p \in PullRequests, pr'[p].phase = "open"
          PROVE  pr'[p] = pr[p]
      BY <1>1, <3>4
    <3> QED BY <2>1, <3>2, <3>3, <3>4 DEF OwnTime
  <2> QED BY <1>1, <2>1, <2>2, <2>3 DEF BranchIndex, SameIndex
<1> QED BY <1>3, <1>4, <1>5 DEF IndexInv, IndexCurrent, Indexed

\* A branch opens at main; the other steps change no commit.
LEMMA OpenIndex ==
  ASSUME Inv, IndexInv, NEW r \in PullRequests, Open(r)
  PROVE  IndexInv'
<1>1. /\ pr[r].phase = "closed" /\ UNCHANGED <<main, now>>
      /\ pr \in [PullRequests -> Branch] /\ now \in Nat /\ pr[r].verdict = "none"
      /\ pr' = [pr EXCEPT ![r].phase = "open", ![r].base = main, ![r].head = main]
  BY DEF Open, Inv, TypeOK
<1>2. /\ pr'[r].phase = "open" /\ pr'[r].base = main /\ pr'[r].head = main
      /\ pr'[r].verdict = "none"
      /\ \A q \in PullRequests \ {r} : pr'[q] = pr[q]
  BY <1>1 DEF Branch
<1>3. BranchIndex(r)'
  BY <1>1, <1>2 DEF IndexInv, BranchIndex, SameIndex
<1>4. \A q \in PullRequests \ {r} : OwnIndex(q) =>
        main.index.at # pr[q].head.index.at
  BY DEF OwnIndex, IndexInv, BranchIndex, OwnTime
<1> QED BY <1>1, <1>2, <1>3, <1>4, IndexStep

\* Steps that leave main and every branch's commits alone.
LEMMA SameCommitsIndex ==
  ASSUME Inv, IndexInv, UNCHANGED <<main, now>>,
         \A q \in PullRequests :
           /\ pr'[q].phase = pr[q].phase /\ pr'[q].base = pr[q].base
           /\ pr'[q].head = pr[q].head /\ pr'[q].verdict = pr[q].verdict
           /\ pr'[q].merged = pr[q].merged
  PROVE  IndexInv'
<1>1. ASSUME NEW q \in PullRequests, pr'[q].phase = "open"
      PROVE  BranchIndex(q)'
  <2>1. BranchIndex(q)
    BY <1>1 DEF IndexInv
  <2>2. OwnTime(q) => OwnTime(q)'
    BY DEF OwnTime
  <2> QED BY <2>1, <2>2 DEF BranchIndex, SameIndex
<1> QED BY <1>1 DEF IndexInv, IndexCurrent, Indexed

\* A step of the system keeps the invariant of the index.
LEMMA NextIndex ==
  ASSUME Inv, IndexInv, [Next]_vars
  PROVE  IndexInv'
<1>1. CASE UNCHANGED vars
  BY <1>1, SameCommitsIndex DEF vars
<1>2. ASSUME NEW r \in PullRequests, Contribute(r)
      PROVE  IndexInv'
  <2>1. PICK b, h : Pushable(r, b, h) /\ Push(r, b, h)
    BY <1>2, ContributePush
  <2>2. pr[r].phase = "open"
    BY <1>2 DEF Contribute
  <2> QED BY <2>1, <2>2, PushIndex
<1>3. ASSUME NEW r \in PullRequests, RunStart(r) \/ RunStop(r)
      PROVE  IndexInv'
  <2>1. pr \in [PullRequests -> Branch]
    BY DEF Inv, TypeOK
  <2>2. CASE RunStart(r)
    <3>1. pr' = [pr EXCEPT ![r].due = FALSE] /\ UNCHANGED <<main, now>>
      BY <2>2 DEF RunStart
    <3>2. \A q \in PullRequests :
            /\ pr'[q].phase = pr[q].phase /\ pr'[q].base = pr[q].base
            /\ pr'[q].head = pr[q].head /\ pr'[q].verdict = pr[q].verdict
            /\ pr'[q].merged = pr[q].merged
      BY <2>1, <3>1 DEF Branch
    <3> QED BY <3>1, <3>2, SameCommitsIndex
  <2>3. CASE RunStop(r)
    BY <2>3, SameCommitsIndex DEF RunStop
  <2> QED BY <1>3, <2>2, <2>3
<1>4. ASSUME Dispatch \/ \E c \in queue : Deploy(c)
      PROVE  IndexInv'
  BY <1>4, SameCommitsIndex DEF Dispatch, Deploy
<1>5. CASE Next
  BY <1>2, <1>3, <1>4, <1>5, OpenIndex, ValidateStartIndex, ValidateEndIndex,
     RunPushIndex, MergeIndexInv DEF Next
<1> QED BY <1>1, <1>5

-----------------------------------------------------------------------------
(* The theorems.                                                           *)

\* Type correctness, for every instance.
THEOREM TypeCorrect == Spec => []TypeOK
<1>1. Inv => TypeOK
  BY DEF Inv
<1> QED BY <1>1, SpecInv, PTL

\* No merge changes or removes what main publishes.
THEOREM MainImmutable == Spec => PublishedImmutable
<1>1. Inv /\ [Next]_vars => [Immutable(main, main')]_main
  <2> SUFFICES ASSUME Inv, Next, main' # main
               PROVE  Immutable(main, main')
    BY DEF vars
  <2>1. PICK r \in PullRequests : Merge(r)
    BY OnlyMerges
  <2> QED BY <2>1, MergeKeeps
<1> QED BY <1>1, SpecInv, PTL DEF Spec, PublishedImmutable

\* Every version main publishes is whole and signed by the key it names.
THEOREM MainAuthentic == Spec => []PublishedAuthentic
<1>1. Inv => PublishedAuthentic
  BY DEF Inv, AllAuthentic, PublishedAuthentic
<1> QED BY <1>1, SpecInv, PTL

\* What enters main is what the checks of its pull request ran on, and its key was
\* active there and permitted the pack.
THEOREM MainEntersAsChecked == Spec => EntersAsChecked
<1>1. Init => KeyInv
  BY DEF Init, KeyInv, GreenKeys
<1>2. Inv /\ KeyInv /\ [Next]_vars => KeyInv'
  BY NextKeys
<1>3. Inv /\ KeyInv /\ [Next]_vars => [\A pv \in PV : EnteredAsChecked(pv)]_vars
  <2> SUFFICES ASSUME Inv, KeyInv, Next, NEW pv \in PV,
                      main.json[pv] = NoFile, main'.json[pv] # NoFile
               PROVE  EnteredAsChecked(pv)
    BY DEF EnteredAsChecked
  <2>1. main' # main
    OBVIOUS
  <2>2. PICK r \in PullRequests : Merge(r)
    BY <2>1, OnlyMerges
  <2> QED BY <2>2, MergeEnters DEF EnteredAsChecked
<1> QED BY <1>1, <1>2, <1>3, SpecInv, PTL DEF Spec, EntersAsChecked

\* The index of main describes the files of main, whatever was merged in between.
THEOREM MainIndexStaysCurrent == Spec => []MainIndexCurrent
<1>1. Init => IndexInv
  BY InitIndex
<1>2. Inv /\ IndexInv /\ [Next]_vars => IndexInv'
  BY NextIndex
<1>3. IndexInv => MainIndexCurrent
  BY DEF IndexInv, IndexCurrent, MainIndexCurrent
<1> QED BY <1>1, <1>2, <1>3, SpecInv, PTL DEF Spec

\* What a commit holds for each version, files missing included.
LEMMA FilesType ==
  ASSUME NEW t \in Tree
  PROVE  FilesOf(t) \in
           [PV -> [tgz: Tarball \cup {NoFile}, sig: Signature \cup {NoFile},
                   keyId: Keys] \cup {NoFile}]
<1>1. ASSUME NEW pv \in PV, t.json[pv] # NoFile
      PROVE  /\ t.tgz[pv] \in Tarball \cup {NoFile}
             /\ t.sig[pv] \in Signature \cup {NoFile}
             /\ t.json[pv].keyId \in Keys
  BY <1>1 DEF Tree, Manifest
<1> QED BY <1>1 DEF FilesOf

\* The files of a commit that is or was main's are published.
LEMMA SupersededContained ==
  ASSUME NEW t \in Tree, NEW m \in Tree, AllAuthentic(t), Immutable(t, m)
  PROVE  Abstract!Contained(FilesOf(t), FilesOf(m))
<1>1. ASSUME NEW pv \in PV, t.json[pv] # NoFile
      PROVE  /\ m.json[pv] # NoFile /\ m.json[pv].keyId = t.json[pv].keyId
             /\ m.tgz[pv] = t.tgz[pv] /\ m.sig[pv] = t.sig[pv]
  <2>1. t.tgz[pv] # NoFile /\ t.sig[pv] # NoFile
    BY <1>1 DEF AllAuthentic, Authentic
  <2>2. m.json[pv] # NoFile /\ Frozen(m.json[pv]) = Frozen(t.json[pv])
    BY <1>1 DEF Immutable
  <2>3. m.tgz[pv] = t.tgz[pv] /\ m.sig[pv] = t.sig[pv]
    BY <1>1, <2>1 DEF Immutable
  <2> QED BY <2>2, <2>3 DEF Frozen
<1> QED BY <1>1 DEF Abstract!Contained, FilesOf

\* Publication implements the catalog: a merge publishes more, a deploy of main
\* serves published files, a deploy of a branch is a preview.
THEOREM RefinesCatalog == Spec => ImplementsCatalog
<1>1. Init => Abstract!CatalogInit
  <2> SUFFICES ASSUME Init PROVE Abstract!CatalogInit
    OBVIOUS
  <2>1. main \in Tree /\ live = [tree |-> main, onMain |-> TRUE]
    BY InitInv DEF Inv, TypeOK, Init
  <2> QED BY <2>1, FilesType DEF Abstract!CatalogInit
<1>2. Inv /\ [Next]_vars =>
        [Abstract!Publish \/ Abstract!Serve \/ Abstract!Preview]_<<
           FilesOf(main), FilesOf(live.tree), live.onMain>>
  <2> SUFFICES ASSUME Inv, [Next]_vars
               PROVE  \/ Abstract!Publish \/ Abstract!Serve \/ Abstract!Preview
                      \/ UNCHANGED <<FilesOf(main), FilesOf(live.tree), live.onMain>>
    OBVIOUS
  <2>1. Inv'
    BY NextInv
  <2>2. live' \in Checkout /\ live'.tree \in Tree /\ main' \in Tree
    BY <2>1 DEF Inv, TypeOK, Checkout
  <2>3. CASE main' = main /\ live'.onMain
    <3>1. AllAuthentic(live'.tree) /\ Immutable(live'.tree, main')
      BY <2>1, <2>3 DEF Inv, Superseded, AllAuthentic
    <3>2. FilesOf(main)' = FilesOf(main) /\ FilesOf(live.tree)' = FilesOf(live'.tree)
      BY <2>3 DEF FilesOf
    <3>3. live'.onMain = TRUE
      BY <2>2, <2>3 DEF Checkout
    <3> QED BY <2>2, <2>3, <3>1, <3>2, <3>3, FilesType, SupersededContained
            DEF Abstract!Serve
  <2>4. CASE main' = main /\ ~live'.onMain
    <3>1. FilesOf(main)' = FilesOf(main) /\ FilesOf(live.tree)' = FilesOf(live'.tree)
      BY <2>4 DEF FilesOf
    <3>2. live'.onMain = FALSE
      BY <2>2, <2>4 DEF Checkout
    <3> QED BY <2>2, <3>1, <3>2, FilesType DEF Abstract!Preview
  <2>5. CASE main' # main
    <3>1. PICK r \in PullRequests : Merge(r) /\ live' = live
      BY <2>5, OnlyMerges DEF vars
    <3>2. /\ main \in Tree /\ main' \in Tree /\ AllAuthentic(main)
          /\ Immutable(main, main')
      BY <3>1, MergeKeeps DEF Inv, TypeOK
    <3>3. /\ FilesOf(main)' = FilesOf(main')
          /\ FilesOf(live.tree)' = FilesOf(live.tree) /\ live.onMain' = live.onMain
      BY <3>1 DEF FilesOf
    <3>4. Abstract!Contained(FilesOf(main), FilesOf(main'))
      BY <3>2, SupersededContained
    <3> QED BY <3>2, <3>3, <3>4, FilesType DEF Abstract!Publish
  <2> QED BY <2>3, <2>4, <2>5
<1> QED BY <1>1, <1>2, SpecInv, PTL
        DEF Spec, ImplementsCatalog, Abstract!CatalogSpec, Abstract!cvars
=============================================================================
