SPECIFICATION EvaluationSpec
CONSTANTS
  NoFinal = NoFinal
  NoTransform = NoTransform
  NoSource = NoSource
  NoComposed = NoComposed
  NoPolicy = NoPolicy
  NoRatchet = NoRatchet
  NoJob = NoJob
  NoArtifact = NoArtifact
  ExpectedCases = 2
  ExpectedRuns <- ThreeRuns
  Contracts <- MCContracts
  Manifest <- MCManifest
  Observations <- MCObservations
  RunCounts = {0, 1, 3}
  Snapshots = {d1, d2}
  BadSnapshot = bad
  Models = {m1}
  MaxJobs = 3
INVARIANTS
  PassMeansRight
  ArtifactComplete
PROPERTIES
  RatchetTurnsOneWay
SYMMETRY SnapshotSymmetry
CHECK_DEADLOCK FALSE
