CONSTANTS
  SESSION_COUNT = 1
  COOKIESTORE_COUNT = 1
  SessionId = {s1, s2}
  Uuid = {u1, u2, u3}
  CookieName = {"name", "other"}
  Cut <- CutNames
  CookieValue = {v1}
  Location = {1}
  UserName = {alice}
  HARD_TIMEOUT = 1
  INACTIVITY_TIMEOUT = 0
  Null = Null
  Worker = {w1, w2}
  Free = Free
  FRAUD_DETECTION = TRUE
  Verdict = {"FRAUD"}
  LOCK_MAY_FAIL = FALSE
  MAX_TIME = 0
  MAX_SETCOOKIES = 2
SPECIFICATION FairSpec
CHECK_DEADLOCK FALSE
PROPERTY MutexReleased
