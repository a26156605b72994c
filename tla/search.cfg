SPECIFICATION FairSpec
CONSTANTS
  Servers = {s1, s2}
  Files = {f, g}
  Timeout = 2
  Ticks = 3
  MaxCommands = 3
  MaxAnswers = 2
  MaxElapsed = 7
INVARIANT FetchFromLister
INVARIANT WindowKept
PROPERTY CommandEnds
CHECK_DEADLOCK FALSE
