SPECIFICATION FairSpec
CONSTANTS
  r1 = r1
  r2 = r2
  Request = {r1, r2}
  Url <- Urls
  UrlOf <- Targets
  url_store <- Store
  THRESHOLD = 2
  LEARNING_MODE = FALSE
  AuthStrength <- Strengths
  Free = Free
  Cleanup = Cleanup
  QUEUE_LIMIT = 1
  DELIVERY_TIMEOUT = 1
  MAX_RATINGS = 2
INVARIANTS TypeOK RatedOrRefused NoVerdictMissed ConnectionsFreed CleanupHearsAll
PROPERTIES MutexReleased ClicksAnswered
CHECK_DEADLOCK FALSE
