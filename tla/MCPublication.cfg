\* One pack, two keys, two pushes to each pull request: republishing, withdrawing,
\* yanking, signing with the wrong private key, registering, retiring and narrowing keys.
CONSTANTS
  p1 = p1  p2 = p2  c1 = c1  c2 = c2  k1 = k1  k2 = k2  r1 = r1  r2 = r2
  Packs = {p1}
  Versions = {1, 2}
  Contents = {c1, c2}
  Keys = {k1, k2}
  Grants <- MCGrants
  BotKey = k1
  NoFile = NoFile
  NoTree = NoTree
  PullRequests = {r1, r2}
  SeedPacks = {p1}
  SeedSource <- MCSeedSource
  SeedKeys = {k1}
  SeedGrant <- MCSeedGrant
  MaxEdits = 2
  MaxDispatches = 0
SPECIFICATION Spec
INVARIANTS TypeOK MainIndexCurrent PublishedAuthentic
PROPERTIES PublishedImmutable EntersAsChecked
SYMMETRY Symmetry
CHECK_DEADLOCK FALSE
