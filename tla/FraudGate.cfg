CONSTANTS
  SESSION_COUNT = 1
  COOKIESTORE_COUNT = 2
  SessionId = {s1, s2}
  Uuid = {u1, u2, u3}
  CookieName = {"name"}
  Cut <- CutNames
  CookieValue = {v1}
  Location = {1, 2}
  UserName = {alice}
  HARD_TIMEOUT = 1
  INACTIVITY_TIMEOUT = 0
  Null = Null
  Worker = {w1, w2}
  Free = Free
  FRAUD_DETECTION = TRUE
  Verdict = {"OK", "SUSPICIOUS", "FRAUD"}
  LOCK_MAY_FAIL = TRUE
  MAX_TIME = 1
  MAX_SETCOOKIES = 1
SPECIFICATION Spec
SYMMETRY Symmetry
CHECK_DEADLOCK FALSE
PROPERTY CriticalNeedsVerdict
