SPECIFICATION FieldSpec
CONSTANTS
  Hosts = {"asgi", "fastapi", "django"}
  Requests <- MCRequests
  MaxBytes = 2
  Chunks = {1, 2}
  Waits = {0, 1, 3}
  NoLength = NoLength
  Pods = {"own", "other"}
  Own = "own"
  Rows = {"r1", "r2"}
  Environment = "prod"
  Passphrases = {"passphrase", "dev fallback"}
  Runbook <- MCRunbook
  NoKeySet = NoKeySet
INVARIANTS
  
  BodyWithinLimit
  RunsUnderItsOwnId
  RotationKeepsData
