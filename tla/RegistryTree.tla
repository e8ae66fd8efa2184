---------------------------- MODULE RegistryTree ----------------------------
(***************************************************************************)
(* The content of one commit of the repository, as far as publication can  *)
(* tell commits apart: the pack sources under packs/, the three served     *)
(* files of every version under registry/v2/packs, the registry index, the *)
(* key registry and the security advisories; the scripts that write them   *)
(* (auto-register, build-pack-tarball, build-index), the gates that read   *)
(* them, and git's three-way merge of two such contents.                   *)
(***************************************************************************)
EXTENDS Naturals

CONSTANTS
  Packs,       \* pack names
  Versions,    \* version numbers a source manifest may carry
  Contents,    \* what the files of a pack other than pack.json may hold
  Keys,        \* key ids, registered or not
  Grants,      \* permittedNamespaces a key may be given, resolved to pack names
  BotKey,      \* the key whose private half the auto-register workflow holds
  NoFile       \* content of a path at which there is no file

ASSUME VersionsAssumption == Versions \subseteq Nat
ASSUME KeysAssumption == BotKey \in Keys /\ Grants \subseteq SUBSET Packs

PV == Packs \X Versions

\* packs/<name>/pack.json and the files next to it.
Source == [version: Versions, content: Contents]

\* A tarball: its files, the key id in the signing block of its pack.json, and
\* the private key that made the signature embedded at keys/pack.json.sig.
Tarball == [content: Contents, keyId: Keys, signer: Keys]

\* The detached .sig. It covers the bytes of pack.json, hence the key id, and
\* says nothing of the other files of the tarball.
Signature == [keyId: Keys, signer: Keys]

\* <version>.json, and the row the index derives from it.
Manifest == [keyId: Keys, integrity: Tarball \cup {NoFile}, yanked: BOOLEAN]

\* An entry of signingKeys[] in .well-known/openwop-registry.json: the status of
\* a key and its permittedNamespaces. The public key of every key is in
\* registry/keys throughout, listed or not.
Listing == [status: {"active", "retired"}, permits: Grants]
Unlisted == [status |-> "unlisted", permits |-> {}]

ASSUME NoFileAssumption ==
  NoFile \notin Source \cup Tarball \cup Signature \cup Manifest

Tree == [src: [Packs -> Source \cup {NoFile}],
         tgz: [PV -> Tarball \cup {NoFile}],
         json: [PV -> Manifest \cup {NoFile}],
         sig: [PV -> Signature \cup {NoFile}],
         index: [at: Nat, rows: [PV -> Manifest \cup {NoFile}]],
         keys: [Keys -> Listing \cup {Unlisted}],
         affected: SUBSET PV]

-----------------------------------------------------------------------------
(* Writing: auto-register.mjs, build-pack-tarball.mjs, build-index.mjs.     *)

\* keyMaySign: registered, active, and the pack is in its namespaces.
KeyMaySign(t, k, p) == t.keys[k].status = "active" /\ p \in t.keys[k].permits

\* The version the source of p would be published as.
Current(t, p) == <<p, t.src[p].version>>

\* The packs a run publishes: a source whose own version has no manifest in
\* the tree, in scope (changed since the merge base), signable by the key.
Todo(t, scope, k) ==
  {p \in scope : /\ t.src[p] # NoFile
                 /\ KeyMaySign(t, k, p)
                 /\ t.json[Current(t, p)] = NoFile}

\* The three files of a version are copied one after the other: the tarball, the
\* manifest, the signature. Copied(t, T, J, S, ...) has the tarballs of the packs
\* T, the manifests of J and the signatures of S in place. priv is the private
\* key the run was given, k the key id claimed for it.
Currents(t, ps) == {Current(t, p) : p \in ps}
Copied(t, T, J, S, k, priv) ==
  [t EXCEPT
     !.tgz = [pv \in PV |->
       IF pv \in Currents(t, T)
       THEN [content |-> t.src[pv[1]].content, keyId |-> k, signer |-> priv]
       ELSE @[pv]],
     !.json = [pv \in PV |->
       IF pv \in Currents(t, J)
       THEN [keyId |-> k, integrity |-> NoFile, yanked |-> FALSE]
       ELSE @[pv]],
     !.sig = [pv \in PV |->
       IF pv \in Currents(t, S) THEN [keyId |-> k, signer |-> priv] ELSE @[pv]]]

\* build-index writes the hash of the tarball into the manifest when there is
\* a tarball, leaves the recorded one otherwise, and derives a row from it.
Indexed(t) ==
  [pv \in PV |->
     IF t.json[pv] # NoFile /\ t.tgz[pv] # NoFile
     THEN [t.json[pv] EXCEPT !.integrity = t.tgz[pv]]
     ELSE t.json[pv]]

\* generatedAt is the time of the run: no two runs write the same value.
Reindex(t, now) ==
  [t EXCEPT !.json = Indexed(t), !.index = [at |-> now, rows |-> Indexed(t)]]

-----------------------------------------------------------------------------
(* The gates.                                                              *)

\* build-index --check and the integrity step: content, not generatedAt.
\* (Faulty variant: a manifest that has no row yet goes unnoticed.)
IndexRowsCurrent(t) ==
  \A pv \in PV : t.index.rows[pv] # NoFile => t.index.rows[pv] = Indexed(t)[pv]
IndexCurrent(t) == t.json = Indexed(t) /\ t.index.rows = Indexed(t)

\* check-pack-tarball-signatures: every row that is not yanked has a tarball
\* whose embedded signature verifies under the key the row names.
TarballSignaturesOk(t) ==
  \A pv \in PV :
    LET row == t.index.rows[pv] IN
      row # NoFile /\ ~row.yanked =>
        /\ t.tgz[pv] # NoFile
        /\ t.tgz[pv].keyId = row.keyId
        /\ t.tgz[pv].signer = row.keyId

\* check-registry-signer-consistency: the row and the manifest agree.
SignersConsistent(t) ==
  \A pv \in PV :
    t.index.rows[pv] # NoFile =>
      t.json[pv] # NoFile /\ t.json[pv].keyId = t.index.rows[pv].keyId

\* (Faulty variant of the next gate: the .sig is there, nobody verifies it.)
SignaturesPresent(t) ==
  \A pv \in PV :
    t.tgz[pv] # NoFile =>
      /\ t.sig[pv] # NoFile
      /\ t.json[pv] # NoFile
      /\ pv[1] \in t.keys[t.json[pv].keyId].permits

\* verify-signatures: every tarball, yanked or not, has a manifest and a
\* detached signature by the key the manifest names, which is listed and
\* permits the pack. The status of the key is not looked at.
SignaturesVerify(t) ==
  \A pv \in PV :
    t.tgz[pv] # NoFile =>
      /\ t.sig[pv] # NoFile
      /\ t.json[pv] # NoFile
      /\ LET k == t.json[pv].keyId IN
           /\ pv[1] \in t.keys[k].permits
           /\ t.tgz[pv].keyId = t.sig[pv].keyId
           /\ t.sig[pv].signer = k

\* check-advisories: a published version an advisory matches is yanked.
AdvisoriesYanked(t) ==
  \A pv \in t.affected :
    t.tgz[pv] # NoFile => t.json[pv] # NoFile /\ t.json[pv].yanked

\* check-pack-namespace-authority: keyMaySign for every published manifest.
NamespaceAuthority(t) ==
  \A pv \in PV :
    t.json[pv] # NoFile => KeyMaySign(t, t.json[pv].keyId, pv[1])

\* check-published-immutable: the lifecycle fields are all that may change.
Frozen(m) == [keyId |-> m.keyId, integrity |-> m.integrity]
Immutable(base, t) ==
  \A pv \in PV :
    base.json[pv] # NoFile =>
      /\ t.json[pv] # NoFile
      /\ Frozen(t.json[pv]) = Frozen(base.json[pv])
      /\ base.tgz[pv] # NoFile => t.tgz[pv] = base.tgz[pv]
      /\ base.sig[pv] # NoFile => t.sig[pv] = base.sig[pv]
NewSignedByActiveKey(base, t) ==
  \A pv \in PV :
    base.json[pv] = NoFile /\ t.json[pv] # NoFile =>
      t.keys[t.json[pv].keyId].status = "active"

\* What the validate job of registry-publish runs on any commit,
ServeGate(t) ==
  /\ IndexCurrent(t)
  /\ TarballSignaturesOk(t)
  /\ SignersConsistent(t)
  /\ SignaturesVerify(t)
  /\ AdvisoriesYanked(t)
\* the step it adds on a pull request,
\* (Faulty variant: the base ref does not resolve, and the check is skipped.)
PullRequestGateSkipped(base, t) == TRUE
PullRequestGate(base, t) == Immutable(base, t) /\ NewSignedByActiveKey(base, t)
\* and what registry-check.sh runs inside the auto-register job.
RegistryCheck(base, t) ==
  ServeGate(t) /\ NamespaceAuthority(t) /\ PullRequestGate(base, t)

-----------------------------------------------------------------------------
(* git's three-way merge: path by path, and line by line in the two files   *)
(* that many changes share, the registry index and the list of keys. Every  *)
(* rebuild of the index changes its generatedAt line, so two of them clash. *)

Pick(b, h, m) == IF h = b THEN m ELSE h
Clash(b, h, m) == h # b /\ m # b /\ h # m

PickAll(b, h, m) == [x \in DOMAIN m |-> Pick(b[x], h[x], m[x])]
ClashAny(b, h, m) == \E x \in DOMAIN m : Clash(b[x], h[x], m[x])

MergeTree(b, h, m) ==
  [src |-> PickAll(b.src, h.src, m.src),
   tgz |-> PickAll(b.tgz, h.tgz, m.tgz),
   json |-> PickAll(b.json, h.json, m.json),
   sig |-> PickAll(b.sig, h.sig, m.sig),
   index |-> [at |-> Pick(b.index.at, h.index.at, m.index.at),
              rows |-> PickAll(b.index.rows, h.index.rows, m.index.rows)],
   keys |-> PickAll(b.keys, h.keys, m.keys),
   affected |-> Pick(b.affected, h.affected, m.affected)]

Mergeable(b, h, m) ==
  /\ ~ClashAny(b.src, h.src, m.src)
  /\ ~ClashAny(b.tgz, h.tgz, m.tgz)
  /\ ~ClashAny(b.json, h.json, m.json)
  /\ ~ClashAny(b.sig, h.sig, m.sig)
  /\ ~Clash(b.index.at, h.index.at, m.index.at)
  /\ ~ClashAny(b.index.rows, h.index.rows, m.index.rows)
  /\ ~ClashAny(b.keys, h.keys, m.keys)
  /\ ~Clash(b.affected, h.affected, m.affected)

\* The path filter registry/** of the registry-publish workflow.
RegistryPart(t) == <<t.tgz, t.json, t.sig, t.index, t.keys, t.affected>>
=============================================================================
