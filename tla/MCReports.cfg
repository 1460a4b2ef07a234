SPECIFICATION Spec
CONSTANTS
  Procs = {p1, p2}
  ReportTypes = {"DATA_QUALITY_REPORT"}
  MaxVersion = 3
  NoClaim = NoClaim
  NoId = NoId
  fin = fin
  part = part
  doc = doc
  dq = dq
  uns = uns
  lim = lim
  multi = multi
  shared = shared
  conf = conf
  late = late
  stray = stray
  ClaimInfo <- MCClaimInfo
  Packages <- MCPackages
  EvidenceInfo <- MCEvidenceInfo
SYMMETRY Symmetry
CHECK_DEADLOCK FALSE
INVARIANTS
  PublishedEvidenceSound
  SealedIsExamined
  PublishedReferencesResolve
  RevisionConverges
  LineageNeverGrows
