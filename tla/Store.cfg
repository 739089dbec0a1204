CONSTANTS
  SESSION_COUNT = 2
  COOKIESTORE_COUNT = 3
  SessionId = {s1, s2, s3}
  Uuid = {u1, u2, u3}
  CookieName = {"name", "long name"}
  Cut <- CutNames
  CookieValue = {v1}
  Location = {1}
  UserName = {alice}
  HARD_TIMEOUT = 1
  INACTIVITY_TIMEOUT = 0
  MAX_TIME = 1
  Null = Null
SPECIFICATION Spec
SYMMETRY Symmetry
INVARIANTS TypeOK ChainInv CookieOwnership OneCookiePerKey ChainsEnd SessionsDistinct
PROPERTIES ImplementsMap HardTimeoutKept
