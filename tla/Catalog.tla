------------------------------ MODULE Catalog ------------------------------
(***************************************************************************)
(* What the registry promises a client that pins a version: a version that *)
(* is published stays published with the files it was published with, and  *)
(* the site serves nothing but published files, unless a maintainer has it *)
(* preview a branch.                                                       *)
(***************************************************************************)
CONSTANTS
  Version,  \* pack versions
  Files,    \* the tarball, the signature and the signed manifest of a version
  None      \* no files

VARIABLES
  published,  \* the files of each published version
  served,     \* the files the site serves for each version
  official    \* what is served is not a preview

cvars == <<published, served, official>>

Contained(a, b) == \A v \in Version : a[v] # None => b[v] = a[v]

CatalogInit ==
  /\ published \in [Version -> Files \cup {None}]
  /\ served = published
  /\ official = TRUE

Publish ==
  /\ published' \in [Version -> Files \cup {None}]
  /\ Contained(published, published')
  /\ UNCHANGED <<served, official>>

Serve ==
  /\ served' \in [Version -> Files \cup {None}]
  /\ Contained(served', published)
  /\ official' = TRUE
  /\ UNCHANGED published

Preview ==
  /\ served' \in [Version -> Files \cup {None}]
  /\ official' = FALSE
  /\ UNCHANGED published

CatalogSpec == CatalogInit /\ [][Publish \/ Serve \/ Preview]_cvars

\* What a client that resolved a pin earlier relies on.
ServedIsPublished == official => Contained(served, published)
=============================================================================
