\* Each kind of node, two nodes visited twice, three messages.
CONSTANTS
  R0 = R0
  R1 = R1
  mail = mail
  phone = phone
  slack = slack
  call = call
  bot = bot
  talk = talk
  entity = entity
  hello = hello
  bye = bye
  plain = plain
  copied = copied
  None = None
  Runs <- MCRuns
  Nodes <- MCNodes
  Saids <- MCSaids
  Rests <- MCRests
  Contents <- MCContents
  Scripts <- MCScripts
  KindOf <- MCKindOf
  MaxTries = 1
  MaxCrashes = 1
  MaxClock = 1
SPECIFICATION Spec
INVARIANTS EgressOncePerRun EmailSentOnce ReportedWasDelivered
SYMMETRY Symmetry
CHECK_DEADLOCK FALSE
