CONSTANTS
  q1 = q1  q2 = q2  q3 = q3  q4 = q4
  s1 = s1  s2 = s2  s3 = s3
  b1 = b1  b2 = b2  b3 = b3  b4 = b4
  Request = {q1, q2, q3, q4}
  Session = {s1, s2, s3}
  Blob = {b1, b2, b3, b4}
  RequestId = {q1, q2, q3, q4}
  Size <- Sizes
  SessionOf <- Sessions
  IdOf <- SharedIds
  MaxBytes = 2
  MaxTotal = 2
  MaxSessions = 2
  MaxEntry = 2
  MaxRefs = 3
  MaxProjected = 2
SPECIFICATION Spec
INVARIANT RegisteredSurvive
CHECK_DEADLOCK FALSE
