SPECIFICATION Spec
CONSTANTS
  Downloads = {d1, d2}
  Files = {f1}
  Clearers = {c1, c2}
  MaxClears = 2
  Nobody = Nobody
INVARIANTS
  MetricsInv
  SavedSurvives
  ClearHolds
PROPERTIES
  SavesWhole
CHECK_DEADLOCK FALSE
