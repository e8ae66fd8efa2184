\* Two packs, one push to each pull request, deploys of main and, started by hand, of
\* branches, in any order.
CONSTANTS
  p1 = p1  p2 = p2  c1 = c1  c2 = c2  k1 = k1  k2 = k2  r1 = r1  r2 = r2
  Packs = {p1, p2}
  Versions = {1, 2}
  Contents = {c1, c2}
  Keys = {k1, k2}
  Grants <- MCGrants
  BotKey = k1
  NoFile = NoFile
  NoTree = NoTree
  PullRequests = {r1, r2}
  SeedPacks = {p1}
  SeedSource <- MCSeedSource
  SeedKeys = {k1}
  SeedGrant <- MCSeedGrant
  MaxEdits = 1
  MaxDispatches = 2
SPECIFICATION Spec
PROPERTIES ImplementsCatalog
SYMMETRY Symmetry
CHECK_DEADLOCK FALSE
