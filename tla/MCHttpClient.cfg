SPECIFICATION HttpSpec
CONSTANTS
  Calls = {c1, c2}
  FailMax = 2
  SuccessThreshold = 1
  ResetTimeout = 1
  DefaultAttempts = 3
  Registrations <- MCRegistrations
  Excluded = {"ValueError"}
  Flags <- MCFlags
  DnsAnswers <- MCDnsAnswers
  Hosts <- MCHosts
  Allowlist <- MCAllowlist
  BlockPrivate = TRUE
  OwnClient = FALSE
INVARIANTS
  KeyedCallsRunOnce
  EveryAttemptAudited
  ConnectsToValidated
PROPERTIES
  EveryCallEnds
