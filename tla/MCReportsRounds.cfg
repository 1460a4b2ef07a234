SPECIFICATION Spec
CONSTANTS
  Procs = {p1}
  ReportTypes = {"DATA_QUALITY_REPORT"}
  MaxVersion = 2
  NoClaim = NoClaim
  NoId = NoId
  fin = fin
  part = part
  doc = doc
  dq = dq
  uns = uns
  lim = lim
  multi = multi
  shared = shared
  conf = conf
  late = late
  stray = stray
  ClaimInfo <- MCClaimInfo
  Packages <- MCPackages
  EvidenceInfo <- MCEvidenceInfo
CHECK_DEADLOCK FALSE
INVARIANT
  RoundTwoHasPredecessor
