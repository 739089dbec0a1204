------------------------------ MODULE LogonFlow ------------------------------
(***************************************************************************)
(* A browser led through mod_mshield: the cookie test, the logon pages,    *)
(* the step-up to a higher authentication strength, logout and renewal.    *)
(* A hook is one step, as the giant mutex makes it without fraud           *)
(* detection; requests of several tabs interleave between the hooks.  A    *)
(* session is named by its id.  (That a slot may be another session's by   *)
(* the time the output filter opens it is the subject of MShield.)  Other  *)
(* clients are there only in that they may fill the stores at any time.    *)
(***************************************************************************)
EXTENDS Integers, FiniteSets

CONSTANTS
  Tab,                  \* tabs of the browser, which share its cookie
  SessionId,            \* session ids
  NoId,                 \* no session cookie
  Url,                  \* the URLs a browser may ask for
  RenewUrl,             \* those that match MOD_MSHIELD_SESSION_RENEW_URL
  FreeUrl,              \* MOD_MSHIELD_SESSION_FREE_URL
  DestroyUrl,           \* MOD_MSHIELD_SESSION_DESTROY
  LogonUrl,             \* MOD_MSHIELD_AUTHORIZED_LOGON_URL
  LogonServer,          \* MOD_MSHIELD_GLOBAL_LOGON_SERVER_URL, _1 and _2
  HOME, URL_AFTER_RENEW, SESSION_EXPIRED_URL, SESSION_DESTROY_URL,
  COOKIES_REFUSED_URL, SHM_FULL_URL, SERVICE_LIST_ERROR_URL,
  ServiceList,          \* the sets of URLs a service list may match
  CommandCookies,       \* what the cookies after LOGON=ok may command
  NoCommands,           \* no such cookies
  Config,               \* the configurations the server may be started with
  MAX_EXPIRIES          \* how often a session times out in a behaviour

ASSUME CountAssumption == MAX_EXPIRIES \in Nat

ASSUME IdAssumption == SessionId \subseteq Nat /\ NoId \notin SessionId

ASSUME UrlAssumption ==
  /\ RenewUrl \cup FreeUrl \cup DestroyUrl \cup LogonUrl \subseteq Url
  /\ LogonServer \in [0 .. 2 -> Url]
  /\ {HOME, URL_AFTER_RENEW, SESSION_EXPIRED_URL, SESSION_DESTROY_URL,
      COOKIES_REFUSED_URL, SHM_FULL_URL, SERVICE_LIST_ERROR_URL} \subseteq Url
  /\ Url \in ServiceList /\ ServiceList \subseteq SUBSET Url
  /\ CommandCookies \subseteq
       [auth_strength : Int, service_list : ServiceList, redirect : Url]

(* The directives that steer a logon.  required is the                     *)
(* MOD_MSHIELD_AUTH_STRENGTH of a URL, or -1 where no logon is required or *)
(* the access control exempts the URL.                                     *)
ASSUME ConfigAssumption ==
  Config \subseteq [required : [Url -> -1 .. 2], service_list_enabled : BOOLEAN,
                   return_to_orig_url : BOOLEAN]

VARIABLES
  config,      \* the configuration, which does not change
  sessions,    \* the sessions that exist and that the browser can name, by id
  accepts,     \* whether the browser takes cookies
  cookie,      \* the session cookie it has
  pc,          \* pc[t]: a page is shown, a request is under way to the access
               \* checker, or it is with the backend
  req,         \* req[t]: the request of a tab
  expiries     \* timeouts so far

vars == <<config, sessions, accepts, cookie, pc, req, expiries>>

-----------------------------------------------------------------------------
(* The session fields of a logon.  proved, raised and stuck are history:   *)
(* the strength that a logon server has vouched for in this session, -1 if *)
(* none; whether LOGON=ok was taken under the session's present id; and    *)
(* whether the filter then ended with an error instead of a renewal.       *)

session_data_t ==
  [url : Url, redirect_on_auth_flag : {0, 1}, logon_state : {0, 1},
   auth_strength : 0 .. 2, service_list : ServiceList,
   redirect_url_after_login : Url,
   proved : -1 .. 2, raised : BOOLEAN, stuck : BOOLEAN]

NewSession(url) ==
  [url |-> url, redirect_on_auth_flag |-> 1, logon_state |-> 0,
   auth_strength |-> 0, service_list |-> Url,
   redirect_url_after_login |-> HOME,
   proved |-> -1, raised |-> FALSE, stuck |-> FALSE]

Exists == DOMAIN sessions

MAX_MADE == 6    \* where the counter of sessions set up for a request stops

(* A request: made counts the sessions set up for it in a row, logon is    *)
(* the strength of the credentials the user sends, -1 if none.  made is    *)
(* history: it starts again when a request names a session, be it there or *)
(* gone, for then the client has taken the cookie.                         *)
Request ==
  [url : Url, cookie_try : -1 .. 3, sid : SessionId \cup {NoId},
   logon : -1 .. 2, made : 0 .. MAX_MADE]

NoRequest ==
  [url |-> HOME, cookie_try |-> 0, sid |-> NoId, logon |-> -1, made |-> 0]

Init ==
  /\ config \in Config
  /\ sessions = [s \in {} |-> NewSession(HOME)]
  /\ accepts \in BOOLEAN
  /\ cookie = NoId
  /\ pc = [t \in Tab |-> "page"]
  /\ req = [t \in Tab |-> NoRequest]
  /\ expiries = 0

Goto(t, place) == pc' = [pc EXCEPT ![t] = place]

(* What the tab shows at the end of a request.                             *)
ShowPage(t) == Goto(t, "page") /\ req' = [req EXCEPT ![t] = NoRequest]

(* A 302: the browser asks for the new URL, with the cookie it has by then. *)
Redirect(t, url, n, made) ==
  /\ Goto(t, "sent")
  /\ req' = [req EXCEPT ![t] = [url |-> url, cookie_try |-> n, sid |-> cookie',
                                logon |-> -1, made |-> made]]

mod_mshield_redirect_to_relurl(t, url) == Redirect(t, url, 0, 0)

(* Set-Cookie with a session id.                                           *)
mshield_add_session_cookie_to_headers(sid) ==
  cookie' = IF accepts THEN sid ELSE NoId

(* Ids are interchangeable, and one that nothing remembers is as good as   *)
(* new: the least of those is drawn.                                       *)
Remembered == Exists \cup {cookie} \cup {req[t].sid : t \in Tab}

FreshId ==
  {s \in SessionId \ Remembered : \A r \in SessionId \ Remembered : s <= r}

With(m, sid, data) ==
  [s \in DOMAIN m \cup {sid} |-> IF s = sid THEN data ELSE m[s]]

Without(sid) == [s \in Exists \ {sid} |-> sessions[s]]

(* A session that the browser names no more is like one of another client: *)
(* it takes room until its timeout, and nothing else.                      *)
Keep(m) ==
  sessions' = [s \in DOMAIN m \cap ({cookie'} \cup {req'[t].sid : t \in Tab}) |-> m[s]]

(* mod_mshield_redirect_to_shm_error, when there is no room for a session.  *)
RedirectToShmError(t) ==
  /\ cookie' = cookie
  /\ Redirect(t, SHM_FULL_URL, 0, req[t].made)
  /\ Keep(sessions)

(* mshield_session_create, for a request that goes on to url with n tries. *)
CreateAndRedirect(t, url, n) ==
  \/ \E sid \in FreshId :
       /\ mshield_add_session_cookie_to_headers(sid)
       /\ Redirect(t, url, n, IF req[t].made = MAX_MADE THEN MAX_MADE
                                                          ELSE req[t].made + 1)
       /\ Keep(With(sessions, sid, NewSession(req[t].url)))
  \/ RedirectToShmError(t)

-----------------------------------------------------------------------------
(* The user asks a tab for a URL, which may have a __cookie_try in it that *)
(* is below 0 or above 2, or sends credentials from a logon page.          *)

Visit(t) ==
  /\ pc[t] = "page"
  /\ \E url \in Url, logon \in -1 .. 2, n \in -1 .. 3 :
       /\ logon # -1 => url = LogonServer[logon]
       /\ req' = [req EXCEPT ![t] = [url |-> url, cookie_try |-> n, sid |-> cookie,
                                     logon |-> logon, made |-> 0]]
  /\ Goto(t, "sent")
  /\ UNCHANGED <<config, sessions, accepts, cookie, expiries>>

(* A session reaches its hard or its inactivity timeout.                   *)
TimeOut ==
  /\ expiries < MAX_EXPIRIES
  /\ expiries' = expiries + 1
  /\ UNCHANGED <<config, accepts, cookie, pc, req>>
  /\ \E sid \in Exists : Keep(Without(sid))

-----------------------------------------------------------------------------
(* The access checker, part 1: URLs that need no session.                  *)

Arrived(t) == pc[t] = "sent" /\ UNCHANGED <<config, accepts, expiries>>

RenewRequest(t) ==
  /\ Arrived(t)
  /\ req[t].url \in RenewUrl
  /\ CreateAndRedirect(t, URL_AFTER_RENEW, 0)

FreeRequest(t) ==
  /\ Arrived(t)
  /\ req[t].url \in FreeUrl \ RenewUrl
  /\ cookie' = cookie
  /\ ShowPage(t)
  /\ Keep(sessions)

(* Part 2: the session of the request, and the cookie test.                *)
NeedsSession(t) == Arrived(t) /\ req[t].url \notin RenewUrl \cup FreeUrl

(* A 500 with the cookie of the new session.                               *)
CookieTestError(t) ==
  \/ \E sid \in FreshId :
       /\ mshield_add_session_cookie_to_headers(sid)
       /\ ShowPage(t)
       /\ Keep(With(sessions, sid, NewSession(req[t].url)))
  \/ RedirectToShmError(t)

(* Mutant: the counter is not increased.                                   *)
SameCookieTry(t) ==
  /\ NeedsSession(t) /\ req[t].sid = NoId
  /\ \/ req[t].cookie_try >= 3 /\ CreateAndRedirect(t, COOKIES_REFUSED_URL, 0)
     \/ req[t].cookie_try \in 0 .. 2 /\ CreateAndRedirect(t, req[t].url, req[t].cookie_try)
     \/ req[t].cookie_try < 0 /\ CookieTestError(t)

(* Without a session cookie: set up a session, then redirect to the next   *)
(* try, or to the error page after the third.                              *)
mod_mshield_redirect_to_cookie_try(t) ==
  /\ NeedsSession(t) /\ req[t].sid = NoId
  /\ \/ req[t].cookie_try >= 3 /\ CreateAndRedirect(t, COOKIES_REFUSED_URL, 0)
     \/ /\ req[t].cookie_try \in 0 .. 2
        /\ CreateAndRedirect(t, req[t].url, req[t].cookie_try + 1)
     \/ req[t].cookie_try < 0 /\ CookieTestError(t)

SessionGone(t) ==
  /\ NeedsSession(t) /\ req[t].sid \notin Exists \cup {NoId}
  /\ cookie' = cookie
  /\ mod_mshield_redirect_to_relurl(t, SESSION_EXPIRED_URL)
  /\ Keep(sessions)

ValidSession(t) == NeedsSession(t) /\ req[t].sid \in Exists

Data(t) == sessions[req[t].sid]

DestroySession(t) ==
  /\ ValidSession(t)
  /\ req[t].url \in DestroyUrl
  /\ cookie' = cookie
  /\ mod_mshield_redirect_to_relurl(t, SESSION_DESTROY_URL)
  /\ Keep(Without(req[t].sid))

(* The cookie test succeeded: back to the URL it began with.               *)
CookieTestPassed(t) ==
  /\ ValidSession(t) /\ req[t].url \notin DestroyUrl
  /\ req[t].cookie_try > 0
  /\ cookie' = cookie
  /\ mod_mshield_redirect_to_relurl(t, Data(t).url)
  /\ Keep(sessions)

-----------------------------------------------------------------------------
(* Part 2, authorization.                                                  *)

(* Mutant: the strength is compared before the logon state.                *)
StrengthOnly(s, url) ==
  IF config.required[url] = -1 \/ s.auth_strength >= config.required[url] THEN "STATUS_OK"
  ELSE IF s.logon_state = 0 THEN "STATUS_ELOGIN"
  ELSE IF config.service_list_enabled /\ url \notin s.service_list THEN "STATUS_EDENIED"
  ELSE "STATUS_ESTEPUP"

mshield_access_control(s, url) ==
  CASE config.required[url] = -1                                      -> "STATUS_OK"
    [] config.required[url] # -1 /\ s.logon_state = 0                 -> "STATUS_ELOGIN"
    [] /\ config.required[url] # -1 /\ s.logon_state = 1
       /\ config.service_list_enabled /\ url \notin s.service_list    -> "STATUS_EDENIED"
    [] OTHER -> IF s.auth_strength >= config.required[url] THEN "STATUS_OK"
                                                    ELSE "STATUS_ESTEPUP"

Authorized(t, status) ==
  /\ ValidSession(t) /\ req[t].url \notin DestroyUrl
  /\ req[t].cookie_try <= 0
  /\ mshield_access_control(Data(t), req[t].url) = status

(* Off to a logon server: the session remembers where to come back to.     *)
RedirectToLogon(t, server) ==
  /\ cookie' = cookie
  /\ mod_mshield_redirect_to_relurl(t, server)
  /\ Keep(With(sessions, req[t].sid,
               [Data(t) EXCEPT !.url = req[t].url, !.redirect_on_auth_flag = 1]))

LogonNeeded(t) ==
  Authorized(t, "STATUS_ELOGIN") /\ RedirectToLogon(t, LogonServer[0])

StepUpNeeded(t) ==
  /\ Authorized(t, "STATUS_ESTEPUP")
  /\ RedirectToLogon(t, LogonServer[config.required[req[t].url]])

Denied(t) ==
  /\ Authorized(t, "STATUS_EDENIED")
  /\ cookie' = cookie
  /\ mod_mshield_redirect_to_relurl(t, SERVICE_LIST_ERROR_URL)
  /\ Keep(sessions)

FirstSinceLogon(t) ==
  Data(t).redirect_on_auth_flag = 1 /\ Data(t).logon_state = 1

(* Mutant: the flag is not reset on the way back.                          *)
ReturnAgain(t) ==
  /\ Authorized(t, "STATUS_OK") /\ FirstSinceLogon(t)
  /\ config.return_to_orig_url
  /\ cookie' = cookie
  /\ mod_mshield_redirect_to_relurl(t, Data(t).url)
  /\ Keep(sessions)

(* The first request after a logon goes to the URL that asked for it, if   *)
(* the configuration says so.                                              *)
ReturnToOrigUrl(t) ==
  /\ Authorized(t, "STATUS_OK") /\ FirstSinceLogon(t)
  /\ config.return_to_orig_url
  /\ cookie' = cookie
  /\ mod_mshield_redirect_to_relurl(t, Data(t).url)
  /\ Keep(With(sessions, req[t].sid, [Data(t) EXCEPT !.redirect_on_auth_flag = 0]))

Proceed(t) ==
  /\ Authorized(t, "STATUS_OK")
  /\ FirstSinceLogon(t) => ~ config.return_to_orig_url
  /\ sessions' = IF FirstSinceLogon(t)
                 THEN [sessions EXCEPT ![req[t].sid].redirect_on_auth_flag = 0]
                 ELSE sessions
  /\ Goto(t, "backend")
  /\ UNCHANGED <<cookie, req>>

-----------------------------------------------------------------------------
(* The output filter.  Of an answer it matters whether it says LOGON=ok,   *)
(* whether command cookies follow that (sent before it they are ordinary   *)
(* cookies), and what they command.                                        *)

Answer == [logon : BOOLEAN, commands : CommandCookies \cup {NoCommands}]

(* Mutant: the number is taken as it is.                                   *)
AnyStrength(n) == n

(* MOD_MSHIELD_AUTH_STRENGTH out of range counts as 0.                     *)
AllowedStrength(n) == IF n \in 0 .. 2 THEN n ELSE 0

(* A backend may send what it likes, but the logon servers, and they alone *)
(* at an authorized URL, say LOGON=ok only to a user who has shown them    *)
(* the credentials, and state the strength of these, or 0, or none that is *)
(* valid.                                                                  *)
Honest(a, url, logon) ==
  /\ a.logon /\ url \in LogonUrl =>
       /\ logon # -1
       /\ a.commands # NoCommands => a.commands.auth_strength \notin (0 .. 2) \ {0, logon}
  /\ ~ a.logon => a.commands = NoCommands

MustRenew(a, url) == a.logon /\ url \in LogonUrl

Larger(m, n) == IF m > n THEN m ELSE n

(* Mutant: LOGON=ok is taken from any URL.                                 *)
TakeFromAnyUrl(s, a, url, logon) ==
  IF ~ a.logon THEN s
  ELSE LET s1 == [s EXCEPT !.logon_state = 1, !.raised = TRUE,
                           !.proved = IF url \in LogonUrl THEN Larger(@, logon) ELSE @]
       IN  IF a.commands = NoCommands THEN s1
           ELSE [s1 EXCEPT !.auth_strength = AllowedStrength(a.commands.auth_strength),
                           !.service_list = a.commands.service_list,
                           !.redirect_url_after_login = a.commands.redirect]

filter_response_cookie_from_logon_url(s, a, url, logon) ==
  IF ~ MustRenew(a, url) THEN s
  ELSE LET s1 == [s EXCEPT !.logon_state = 1, !.raised = TRUE,
                           !.proved = Larger(@, logon)]
       IN  IF a.commands = NoCommands THEN s1
           ELSE [s1 EXCEPT !.auth_strength = AllowedStrength(a.commands.auth_strength),
                           !.service_list = a.commands.service_list,
                           !.redirect_url_after_login = a.commands.redirect]

Filtered(t, a) ==
  filter_response_cookie_from_logon_url(Data(t), a, req[t].url, req[t].logon)

Answered(t) == pc[t] = "backend" /\ UNCHANGED <<config, accepts, expiries>>

(* "Session not found!"                                                    *)
FilterFindsNoSession(t) ==
  /\ Answered(t)
  /\ req[t].sid \notin Exists
  /\ cookie' = cookie
  /\ ShowPage(t)
  /\ Keep(sessions)

FilterAnswer(t, a) ==
  /\ Answered(t) /\ req[t].sid \in Exists
  /\ Honest(a, req[t].url, req[t].logon)

FilterOrdinary(t) ==
  \E a \in Answer :
    /\ FilterAnswer(t, a)
    /\ ~ MustRenew(a, req[t].url)
    /\ cookie' = cookie
    /\ ShowPage(t)
    /\ Keep(With(sessions, req[t].sid, Filtered(t, a)))

(* After an error of a header or of the renewal, what LOGON=ok has set     *)
(* stays, under the old id.                                                *)
NotRenewed(t, a) ==
  With(sessions, req[t].sid,
       [Filtered(t, a) EXCEPT !.stuck = @ \/ MustRenew(a, req[t].url)])

(* The way out on STATUS_ESHMFULL, and that on any other error, with a 500. *)
FilterStoreFull(t) ==
  \E a \in Answer :
    /\ FilterAnswer(t, a)
    /\ cookie' = cookie
    /\ mod_mshield_redirect_to_relurl(t, SHM_FULL_URL)
    /\ Keep(NotRenewed(t, a))

FilterFails(t) ==
  \E a \in Answer :
    /\ FilterAnswer(t, a)
    /\ cookie' = cookie
    /\ ShowPage(t)
    /\ Keep(NotRenewed(t, a))

(* Mutant: the logon is recorded, and the session keeps its id.            *)
RenewalForgotten(t) ==
  \E a \in Answer :
    /\ FilterAnswer(t, a)
    /\ MustRenew(a, req[t].url)
    /\ cookie' = cookie
    /\ ShowPage(t)
    /\ Keep(With(sessions, req[t].sid, Filtered(t, a)))

mshield_session_renew(t) ==
  \E a \in Answer, sid \in FreshId :
    /\ FilterAnswer(t, a)
    /\ MustRenew(a, req[t].url)
    /\ mshield_add_session_cookie_to_headers(sid)
    /\ IF config.return_to_orig_url
       THEN ShowPage(t)
       ELSE mod_mshield_redirect_to_relurl(t, Filtered(t, a).redirect_url_after_login)
    /\ Keep(With(Without(req[t].sid), sid,
                 [Filtered(t, a) EXCEPT !.raised = FALSE, !.stuck = FALSE]))

(* An error after the renewal: the browser is not told the new id.         *)
RenewalUntold(t) ==
  \E a \in Answer :
    /\ FilterAnswer(t, a)
    /\ MustRenew(a, req[t].url)
    /\ cookie' = cookie
    /\ ShowPage(t)
    /\ Keep(Without(req[t].sid))

-----------------------------------------------------------------------------
(* Either hook may end with a 500 that changes no session the browser can  *)
(* name: the mutex cannot be locked, or there is no memory, or a directive *)
(* or a regular expression is wrong.                                       *)
HookFails(t) ==
  /\ pc[t] # "page"
  /\ cookie' = cookie
  /\ ShowPage(t)
  /\ Keep(sessions)
  /\ UNCHANGED <<config, accepts, expiries>>

mshield_access_checker(t) ==
  \/ RenewRequest(t)
  \/ FreeRequest(t)
  \/ mod_mshield_redirect_to_cookie_try(t)
  \/ SessionGone(t)
  \/ DestroySession(t)
  \/ CookieTestPassed(t)
  \/ LogonNeeded(t)
  \/ StepUpNeeded(t)
  \/ Denied(t)
  \/ ReturnToOrigUrl(t)
  \/ Proceed(t)

mshield_output_filter(t) ==
  \/ FilterFindsNoSession(t)
  \/ FilterOrdinary(t)
  \/ FilterStoreFull(t)
  \/ FilterFails(t)
  \/ mshield_session_renew(t)
  \/ RenewalUntold(t)

Next ==
  \/ \E t \in Tab :
       \/ Visit(t) \/ HookFails(t)
       \/ mshield_access_checker(t) \/ mshield_output_filter(t)
  \/ TimeOut

Spec == Init /\ [][Next]_vars

(* The hooks run, a browser follows a redirection at once, and a backend   *)
(* answers.  Nothing is assumed of the user.                               *)
FairSpec ==
  /\ Spec
  /\ \A t \in Tab : WF_vars(mshield_access_checker(t)) /\ WF_vars(mshield_output_filter(t))

-----------------------------------------------------------------------------
TypeOK ==
  /\ config \in Config
  /\ Exists \subseteq SessionId
  /\ sessions \in [Exists -> session_data_t]
  /\ accepts \in BOOLEAN
  /\ cookie \in SessionId \cup {NoId}
  /\ pc \in [Tab -> {"page", "sent", "backend"}]
  /\ req \in [Tab -> Request]
  /\ expiries \in 0 .. MAX_EXPIRIES

(* A session has no more rights than a logon server has vouched for in it: *)
(* it is logged on only if one said so, and its auth_strength is not above *)
(* what its user has shown, over step-ups, renewals, badly ordered command *)
(* cookies and what other backends send.                                   *)
RightsProved ==
  \A sid \in Exists :
    /\ sessions[sid].logon_state = 1 => sessions[sid].proved # -1
    /\ sessions[sid].auth_strength > 0 =>
         sessions[sid].auth_strength <= sessions[sid].proved

(* A request goes on to a URL with a required strength only in a session   *)
(* whose user has shown that strength to a logon server.                   *)
ProtectedPagesProved ==
  [][\A t \in Tab : pc[t] = "sent" /\ pc'[t] = "backend" =>
       /\ req[t].sid \in Exists
       /\ config.required[req[t].url] <= Data(t).proved]_vars

(* A session keeps the id it had before a logon only where the filter has  *)
(* ended the response with an error, of a full store, a later header or    *)
(* the renewal: LOGON=ok raises the rights in one place (the filter        *)
(* callback) and the id is changed in another (after it).                  *)
RightsRenewed == \A sid \in Exists : sessions[sid].raised => sessions[sid].stuck

(* The cookie test stops: no request sets up more than five sessions in a  *)
(* row, four for the test and one for the renew URL, without the client    *)
(* naming one of them.                                                     *)
CookieTestBounded == \A t \in Tab : req[t].made <= 5

(* Every request ends in a page; no two redirections chase each other.     *)
RedirectsEnd == \A t \in Tab : pc[t] = "sent" ~> pc[t] = "page"
=============================================================================
