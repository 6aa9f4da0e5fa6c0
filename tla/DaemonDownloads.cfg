SPECIFICATION FairDownloads
CONSTANTS
  Callers = {d1, d2}
  MaxPauses = 3
  None = None
INVARIANTS
  NoneStranded
  DownloadsInv
  RunningIsListed
PROPERTIES
  KeepsPromise
  OpenGateAdmits
  DownloadsEnd
  RequestsAnswered
