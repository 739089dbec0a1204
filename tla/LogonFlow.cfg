SPECIFICATION FairSpec
CONSTANTS
  Tab = {t1}
  SessionId = {1, 2, 3, 4}
  NoId = NoId
  Url <- Pages
  RenewUrl <- Renews
  FreeUrl <- Errors
  DestroyUrl <- Logouts
  LogonUrl <- Logons
  LogonServer <- Servers
  HOME = "/"
  URL_AFTER_RENEW = "/"
  SESSION_EXPIRED_URL = "/renew"
  SESSION_DESTROY_URL = "/error"
  COOKIES_REFUSED_URL = "/error"
  SHM_FULL_URL = "/error"
  SERVICE_LIST_ERROR_URL = "/error"
  ServiceList <- Lists
  CommandCookies <- Commands
  NoCommands = NoCommands
  Config <- PassingConfigs
  MAX_EXPIRIES = 1
INVARIANTS TypeOK RightsProved RightsRenewed CookieTestBounded
PROPERTIES ProtectedPagesProved RedirectsEnd
