SPECIFICATION Spec
CONSTANTS
  q1 = q1
  q2 = q2
  q3 = q3
  k1 = k1
  i1 = i1
  i2 = i2
  Requests = {q1, q2, q3}
  Keys = {k1}
  Inputs = {i1, i2}
  KeyOf <- OneKey
  InputOf <- TwoInputs
  Nobody = Nobody
  Lease = 1
  Ttl = 2
  MaxFailed = 2
  MaxExpired = 1
CHECK_DEADLOCK FALSE
INVARIANTS TypeOK AtMostOneSend AnswersTrue SettlingUnderWay
PROPERTIES OncePerKeySpec KeptChangesByCut
