CONSTANTS
  par = par
  seq = seq
  look = look
  show = show
  play = play
  hide = hide
  Root = par
  Simple = {look, show, play, hide}
  Starts = {show, play}
  Compounds = {par, seq}
  Parts <- MCParts
  Parallel = {par}
  MaxTriggers = 2
CHECK_DEADLOCK FALSE
SPECIFICATION FairSpec
CONSTRAINT OneAtATime
INVARIANT ReportsAfterAll
PROPERTY EachReports
