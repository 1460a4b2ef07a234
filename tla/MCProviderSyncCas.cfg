SPECIFICATION Spec
CONSTANTS
  NoRow = NoRow
  Sessions = {s1, s2, s3}
  Versions <- MCVersions
  Amounts <- MCAmounts
  Times <- MCTimes
  Requests <- MCRequests
  Drafts <- MCDrafts
  Manifest <- MCManifest
  Registrations <- MCRegistrations
  LicenseRows <- MCLicenseRows
  Responses <- MCResponses
  HealthContexts <- MCHealthContexts
  MaxTime = 1
SYMMETRY Symmetry
CHECK_DEADLOCK FALSE
INVARIANTS
  NoLostUpdate
