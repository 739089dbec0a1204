CONSTANTS
  SESSION_COUNT = 2
  COOKIESTORE_COUNT = 1
  SessionId = {s1, s2, s3}
  Uuid = {u1, u2, u3}
  CookieName = {"name"}
  Cut <- CutNames
  CookieValue = {v1}
  Location = {1}
  UserName = {alice}
  HARD_TIMEOUT = 1
  INACTIVITY_TIMEOUT = 1
  MAX_TIME = 0
  Null = Null
SPECIFICATION Spec
SYMMETRY Symmetry
PROPERTY RenewalKeepsContent
