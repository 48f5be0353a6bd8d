SPECIFICATION Spec
CONSTANTS
  j1 = j1  j2 = j2  c1 = c1  g1 = g1
  Jobs = {j1, j2}
  Clients = {c1}
  GraphClients = {g1}
  Dumps <- MCDumps
  Fixtures <- MCFixtures
  LiveContent <- MCLive
  MaxNow = 1
  NoName = NoName
  Extracts <- MCExtracts
  FixtureNodes <- MCFixtureNodes
  FirstGraph <- Good
SYMMETRY JobSymmetry
CHECK_DEADLOCK FALSE
INVARIANTS LiveComplete DefaultRuns
PROPERTY NothingDropped
