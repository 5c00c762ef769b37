SPECIFICATION FairSpec
CONSTANTS
  keyed = keyed
  keyless = keyless
  Events = {keyed, keyless}
  Keyless = {keyless}
  Bodies <- MCBodies
  Requests = {q1, q2}
  NoRequest = NoRequest
  DeadLetters = TRUE
  MaxFaults = 3
INVARIANTS TypeOK AckedIsHandedOver DuplicatesExcused
PROPERTIES ClaimIsOwn EveryBodyAcked
