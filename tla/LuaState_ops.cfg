\* the webserver and the out-of-band server, which share the word 2 and the hint
CONSTANTS
  Servers = {web, oob}
SPECIFICATION FairSpec
INVARIANTS
  TypeOK
  OwnersExclude
PROPERTIES
  ServersNotStarved
CHECK_DEADLOCK FALSE
