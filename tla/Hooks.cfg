CONSTANTS
  SESSION_COUNT = 2
  COOKIESTORE_COUNT = 1
  SessionId = {s1, s2, s3}
  Uuid = {u1, u2, u3}
  CookieName = {"name", "long name"}
  Cut <- CutNames
  CookieValue = {v1}
  Location = {1}
  UserName = {alice}
  HARD_TIMEOUT = 1
  INACTIVITY_TIMEOUT = 0
  Null = Null
  Worker = {w1, w2}
  Free = Free
  FRAUD_DETECTION = FALSE
  Verdict = {"OK", "SUSPICIOUS", "FRAUD"}
  LOCK_MAY_FAIL = FALSE
  MAX_TIME = 1
  MAX_SETCOOKIES = 1
SPECIFICATION FairSpec
INVARIANTS TypeOK StoreIntact HookWalksEnd MutualExclusion
PROPERTIES HooksImplementMap MutexDiscipline ServesOwnSession MutexReleased
