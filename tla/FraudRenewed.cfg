CONSTANTS
  SESSION_COUNT = 2
  COOKIESTORE_COUNT = 1
  SessionId = {s1, s2, s3}
  Uuid = {u1, u2, u3, u4}
  CookieName = {"name"}
  Cut <- CutNames
  CookieValue = {v1}
  Location = {1}
  UserName = {alice}
  HARD_TIMEOUT = 1
  INACTIVITY_TIMEOUT = 0
  Null = Null
  Worker = {w1, w2}
  Free = Free
  FRAUD_DETECTION = TRUE
  Verdict = {"OK", "SUSPICIOUS", "FRAUD"}
  LOCK_MAY_FAIL = FALSE
  MAX_TIME = 0
  MAX_SETCOOKIES = 0
SPECIFICATION Spec
SYMMETRY Symmetry
CHECK_DEADLOCK FALSE
INVARIANT FraudEndsSession
