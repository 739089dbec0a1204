--------------------------- MODULE LogonFlowProofs ---------------------------
(* LogonFlow for any number of tabs, any URLs and any configurations: the  *)
(* types, that nobody has rights which no logon server vouched for, and    *)
(* that the cookie test stops.                                             *)
EXTENDS LogonFlow, TLAPS

(* The session data that may be in the store, and the stores of these.     *)
Vouched ==
  {d \in session_data_t :
     /\ d.logon_state = 1 => d.proved # -1
     /\ d.auth_strength > 0 => d.auth_strength <= d.proved
     /\ d.raised => d.stuck}

StoreOK(m) == DOMAIN m \subseteq SessionId /\ m \in [DOMAIN m -> Vouched]

RestOK ==
  /\ config \in Config
  /\ accepts \in BOOLEAN
  /\ cookie \in SessionId \cup {NoId}
  /\ pc \in [Tab -> {"page", "sent", "backend"}]
  /\ req \in [Tab -> Request]
  /\ expiries \in 0 .. MAX_EXPIRIES

LogonInv == RestOK /\ StoreOK(sessions)

-----------------------------------------------------------------------------
(* Adding or replacing a session keeps the store.                          *)
LEMMA WithStore ==
  ASSUME NEW m, StoreOK(m), NEW sid \in SessionId, NEW d \in Vouched
  PROVE  StoreOK(With(m, sid, d))
  BY DEF StoreOK, With

(* Removing one keeps it.                                                  *)
LEMMA WithoutStore ==
  ASSUME NEW sid, StoreOK(sessions)
  PROVE  StoreOK(Without(sid))
  BY DEF StoreOK, Without, Exists

(* So does forgetting the sessions that the browser names no more.         *)
LEMMA KeepStore ==
  ASSUME NEW m, StoreOK(m), Keep(m)
  PROVE  StoreOK(sessions')
  BY DEF StoreOK, Keep

(* A new session has no rights.                                            *)
LEMMA NewVouched ==
  ASSUME NEW url \in Url
  PROVE  NewSession(url) \in Vouched
  BY UrlAssumption DEF NewSession, Vouched, session_data_t

(* The session of a request, where it exists.                              *)
LEMMA StoredVouched ==
  ASSUME LogonInv, NEW t \in Tab, req[t].sid \in Exists
  PROVE  /\ req[t] \in Request
         /\ Data(t) \in Vouched
         /\ Data(t) \in session_data_t
         /\ req[t].sid \in SessionId
  BY DEF LogonInv, RestOK, StoreOK, Exists, Data, Vouched

(* A change of the redirection fields leaves the rights alone.             *)
LEMMA MovedVouched ==
  ASSUME NEW d \in Vouched, NEW url \in Url, NEW flag \in {0, 1}
  PROVE  /\ [d EXCEPT !.url = url, !.redirect_on_auth_flag = flag] \in Vouched
         /\ [d EXCEPT !.redirect_on_auth_flag = flag] \in Vouched
  BY DEF Vouched, session_data_t

(* A redirection keeps what is not the store.                              *)
LEMMA RedirectRest ==
  ASSUME RestOK, NEW t \in Tab, NEW url \in Url, NEW n \in 0 .. 3,
         NEW made \in 0 .. MAX_MADE, cookie' \in SessionId \cup {NoId},
         UNCHANGED <<config, accepts, expiries>>, Redirect(t, url, n, made)
  PROVE  RestOK'
<1>1. [url |-> url, cookie_try |-> n, sid |-> cookie', logon |-> -1, made |-> made]
        \in Request
  BY DEF Request
<1>2. QED BY <1>1 DEF RestOK, Redirect, Goto

(* So does one that sets up no session.                                    *)
LEMMA RelurlRest ==
  ASSUME RestOK, NEW t \in Tab, NEW url \in Url, cookie' \in SessionId \cup {NoId},
         UNCHANGED <<config, accepts, expiries>>, mod_mshield_redirect_to_relurl(t, url)
  PROVE  RestOK'
  BY RedirectRest DEF mod_mshield_redirect_to_relurl, MAX_MADE

(* A page keeps it.                                                        *)
LEMMA ShowPageRest ==
  ASSUME RestOK, NEW t \in Tab, cookie' \in SessionId \cup {NoId},
         UNCHANGED <<config, accepts, expiries>>, ShowPage(t)
  PROVE  RestOK'
<1>1. NoRequest \in Request
  BY UrlAssumption DEF Request, NoRequest, MAX_MADE
<1>2. QED BY <1>1 DEF RestOK, ShowPage, Goto

(* The page for a full store keeps the invariant.                          *)
LEMMA FullKeeps ==
  ASSUME LogonInv, NEW t \in Tab, UNCHANGED <<config, accepts, expiries>>,
         RedirectToShmError(t)
  PROVE  LogonInv'
<1>1. RestOK /\ StoreOK(sessions) /\ req[t].made \in 0 .. MAX_MADE
  BY DEF LogonInv, RestOK, Request
<1>2. cookie' \in SessionId \cup {NoId} /\ SHM_FULL_URL \in Url
  BY <1>1, UrlAssumption DEF RestOK, RedirectToShmError
<1>3. QED BY <1>1, <1>2, RedirectRest, KeepStore DEF LogonInv, RedirectToShmError

(* A session set up, or a full store, keeps the invariant.                 *)
LEMMA CreateKeeps ==
  ASSUME LogonInv, NEW t \in Tab, NEW url \in Url, NEW n \in 0 .. 3,
         UNCHANGED <<config, accepts, expiries>>, CreateAndRedirect(t, url, n)
  PROVE  LogonInv'
<1>1. RestOK /\ StoreOK(sessions) /\ req[t] \in Request /\ req[t].url \in Url
      /\ req[t].made \in 0 .. MAX_MADE
  BY DEF LogonInv, RestOK, Request
<1>2. CASE RedirectToShmError(t)
  BY <1>2, FullKeeps
<1> DEFINE made == IF req[t].made = MAX_MADE THEN MAX_MADE ELSE req[t].made + 1
<1>3. ASSUME NEW sid \in FreshId,
             mshield_add_session_cookie_to_headers(sid),
             Redirect(t, url, n, made),
             Keep(With(sessions, sid, NewSession(req[t].url)))
      PROVE  LogonInv'
  <2>1. sid \in SessionId
    BY DEF FreshId
  <2>2. StoreOK(sessions')
    BY <1>1, <1>3, <2>1, NewVouched, WithStore, KeepStore
  <2>3. cookie' \in SessionId \cup {NoId}
    BY <1>3, <2>1 DEF mshield_add_session_cookie_to_headers
  <2>4. made \in 0 .. MAX_MADE
    BY <1>1 DEF MAX_MADE
  <2> HIDE DEF made
  <2>5. RestOK'
    BY <1>1, <1>3, <2>3, <2>4, RedirectRest
  <2>6. QED BY <2>2, <2>5 DEF LogonInv
<1>4. QED BY <1>2, <1>3 DEF CreateAndRedirect

(* What the filter makes of an honest answer is vouched for once the       *)
(* session has a new id, or a note that the filter ended with an error.    *)
LEMMA FilteredVouched ==
  ASSUME NEW d \in Vouched, NEW a \in Answer, NEW url \in Url, NEW logon \in -1 .. 2,
         Honest(a, url, logon)
  PROVE  LET f == filter_response_cookie_from_logon_url(d, a, url, logon)
         IN  /\ [f EXCEPT !.raised = FALSE, !.stuck = FALSE] \in Vouched
             /\ [f EXCEPT !.stuck = @ \/ MustRenew(a, url)] \in Vouched
             /\ ~ MustRenew(a, url) => f \in Vouched
             /\ f.redirect_url_after_login \in Url
<1> DEFINE f == filter_response_cookie_from_logon_url(d, a, url, logon)
<1>1. d \in session_data_t
  BY DEF Vouched
<1>2. CASE ~ MustRenew(a, url)
  <2>1. f = d
    BY <1>2 DEF filter_response_cookie_from_logon_url
  <2>4. [d EXCEPT !.raised = FALSE, !.stuck = FALSE] \in Vouched
    BY DEF Vouched, session_data_t
  <2>5. [d EXCEPT !.stuck = @ \/ MustRenew(a, url)] = d
    BY <1>1, <1>2 DEF session_data_t
  <2>6. d.redirect_url_after_login \in Url
    BY <1>1 DEF session_data_t
  <2> HIDE DEF f
  <2>7. QED BY <2>1, <2>4, <2>5, <2>6 DEF f
<1>3. CASE MustRenew(a, url)
  <2>1. a.logon /\ url \in LogonUrl /\ logon \in 0 .. 2
    BY <1>3 DEF MustRenew, Honest
  <2> DEFINE p == Larger(d.proved, logon)
             s1 == [d EXCEPT !.logon_state = 1, !.raised = TRUE, !.proved = p]
  <2>2. d.proved \in -1 .. 2 /\ p \in 0 .. 2 /\ p >= d.proved /\ p >= logon
    BY <1>1, <2>1 DEF session_data_t, Larger
  <2> HIDE DEF p
  <2>3. s1 \in session_data_t /\ s1.logon_state = 1 /\ s1.proved = p
        /\ s1.auth_strength = d.auth_strength
    <3> DEFINE s0 == [d EXCEPT !.logon_state = 1, !.proved = p]
    <3>1. p \in -1 .. 2
      BY <2>2
    <3>2. s0 \in session_data_t /\ s0.logon_state = 1 /\ s0.proved = p
          /\ s0.auth_strength = d.auth_strength
      BY <1>1, <3>1 DEF session_data_t
    <3>3. s1 = [s0 EXCEPT !.raised = TRUE]
      BY <1>1 DEF session_data_t
    <3> HIDE DEF s0, s1
    <3>4. QED BY <3>2, <3>3 DEF session_data_t
  <2>4. s1.auth_strength > 0 => s1.auth_strength <= s1.proved
    BY <2>2, <2>3, <1>1 DEF Vouched, session_data_t
  <2> USE DEF p
  <2>5. /\ f \in session_data_t /\ f.proved # -1
        /\ f.auth_strength > 0 => f.auth_strength <= f.proved
    <3>1. CASE a.commands = NoCommands
      <4>1. f = s1
        BY <1>3, <3>1 DEF filter_response_cookie_from_logon_url
      <4>2. QED BY <4>1, <2>2, <2>3, <2>4
    <3>2. CASE a.commands # NoCommands
      <4> DEFINE n == AllowedStrength(a.commands.auth_strength)
      <4>1. a.commands \in [auth_strength : Int, service_list : ServiceList, redirect : Url]
        BY <3>2, UrlAssumption DEF Answer
      <4>2. n \in 0 .. 2 /\ n \in {0, logon}
        BY <2>1, <3>2, <4>1 DEF Honest, AllowedStrength
      <4>3. f = [s1 EXCEPT !.auth_strength = n,
                           !.service_list = a.commands.service_list,
                           !.redirect_url_after_login = a.commands.redirect]
        BY <1>3, <3>2 DEF filter_response_cookie_from_logon_url
      <4> HIDE DEF f, n, p, s1
      <4>4. f \in session_data_t /\ f.proved = s1.proved /\ f.auth_strength = n
        BY <2>3, <4>1, <4>2, <4>3 DEF session_data_t
      <4>5. QED BY <2>1, <2>2, <2>3, <4>2, <4>4
    <3>3. QED BY <3>1, <3>2
  <2> HIDE DEF f
  <2>6. [f EXCEPT !.raised = FALSE, !.stuck = FALSE] \in Vouched
    BY <2>5 DEF Vouched, session_data_t
  <2>7. [f EXCEPT !.stuck = @ \/ TRUE] \in Vouched
    BY <2>5 DEF Vouched, session_data_t
  <2>8. MustRenew(a, url) = TRUE
    BY <1>3 DEF MustRenew
  <2>9. QED BY <2>5, <2>6, <2>7, <2>8, <1>3 DEF f, session_data_t
<1>4. QED BY <1>2, <1>3

-----------------------------------------------------------------------------
(* A redirection without a new session keeps the invariant, if the store   *)
(* it leaves is sound.                                                     *)
LEMMA RelurlKeeps ==
  ASSUME LogonInv, NEW t \in Tab, NEW url \in Url, NEW m, StoreOK(m),
         cookie' \in SessionId \cup {NoId}, UNCHANGED <<config, accepts, expiries>>,
         mod_mshield_redirect_to_relurl(t, url), Keep(m)
  PROVE  LogonInv'
  BY RelurlRest, KeepStore DEF LogonInv

(* So does a page.                                                         *)
LEMMA ShowPageKeeps ==
  ASSUME LogonInv, NEW t \in Tab, NEW m, StoreOK(m),
         cookie' \in SessionId \cup {NoId}, UNCHANGED <<config, accepts, expiries>>,
         ShowPage(t), Keep(m)
  PROVE  LogonInv'
  BY ShowPageRest, KeepStore DEF LogonInv

(* The access checker keeps the invariant.                                 *)
LEMMA CheckerKeeps ==
  ASSUME LogonInv, NEW t \in Tab, mshield_access_checker(t)
  PROVE  LogonInv'
<1>1. /\ RestOK /\ StoreOK(sessions) /\ cookie \in SessionId \cup {NoId}
      /\ req[t] \in Request /\ req[t].url \in Url /\ req[t].cookie_try \in -1 .. 3
  BY DEF LogonInv, RestOK, Request
<1>2. /\ {SESSION_EXPIRED_URL, SESSION_DESTROY_URL, SERVICE_LIST_ERROR_URL,
          COOKIES_REFUSED_URL, URL_AFTER_RENEW} \subseteq Url
      /\ \A k \in 0 .. 2 : LogonServer[k] \in Url
  BY UrlAssumption
<1>3. CASE RenewRequest(t)
  BY <1>2, <1>3, CreateKeeps DEF RenewRequest, Arrived
<1>4. CASE FreeRequest(t)
  BY <1>1, <1>4, ShowPageKeeps DEF FreeRequest, Arrived
<1>5. CASE mod_mshield_redirect_to_cookie_try(t)
  <2>1. UNCHANGED <<config, accepts, expiries>>
    BY <1>5 DEF mod_mshield_redirect_to_cookie_try, NeedsSession, Arrived
  <2>2. CASE CreateAndRedirect(t, COOKIES_REFUSED_URL, 0)
    BY <1>2, <2>1, <2>2, CreateKeeps
  <2>3. CASE /\ req[t].cookie_try \in 0 .. 2
             /\ CreateAndRedirect(t, req[t].url, req[t].cookie_try + 1)
    <3>1. req[t].cookie_try + 1 \in 0 .. 3
      BY <1>1, <2>3
    <3>2. QED BY <1>1, <2>1, <2>3, <3>1, CreateKeeps
  <2>4. CASE RedirectToShmError(t)
    BY <2>1, <2>4, FullKeeps
  <2>5. ASSUME NEW sid \in FreshId,
               mshield_add_session_cookie_to_headers(sid), ShowPage(t),
               Keep(With(sessions, sid, NewSession(req[t].url)))
        PROVE  LogonInv'
    <3>1. sid \in SessionId
      BY DEF FreshId
    <3>2. StoreOK(With(sessions, sid, NewSession(req[t].url)))
      BY <1>1, <3>1, NewVouched, WithStore
    <3>3. cookie' \in SessionId \cup {NoId}
      BY <2>5, <3>1 DEF mshield_add_session_cookie_to_headers
    <3>4. QED BY <2>1, <2>5, <3>2, <3>3, ShowPageKeeps
  <2>6. QED BY <1>5, <2>2, <2>3, <2>4, <2>5
           DEF mod_mshield_redirect_to_cookie_try, CookieTestError
<1>6. CASE SessionGone(t)
  BY <1>1, <1>2, <1>6, RelurlKeeps DEF SessionGone, NeedsSession, Arrived
<1>7. ASSUME ValidSession(t)
      PROVE  /\ UNCHANGED <<config, accepts, expiries>>
             /\ Data(t) \in Vouched /\ req[t].sid \in SessionId /\ Data(t).url \in Url
  BY <1>7, StoredVouched DEF ValidSession, NeedsSession, Arrived, session_data_t
<1>8. CASE DestroySession(t)
  BY <1>1, <1>2, <1>7, <1>8, WithoutStore, RelurlKeeps DEF DestroySession
<1>9. CASE CookieTestPassed(t)
  BY <1>1, <1>7, <1>9, RelurlKeeps DEF CookieTestPassed
<1>10. ASSUME NEW server \in Url, ValidSession(t), RedirectToLogon(t, server)
       PROVE  LogonInv'
  <2>1. [Data(t) EXCEPT !.url = req[t].url, !.redirect_on_auth_flag = 1] \in Vouched
    BY <1>1, <1>7, <1>10, MovedVouched
  <2>2. StoreOK(With(sessions, req[t].sid, [Data(t) EXCEPT !.url = req[t].url,
                                                         !.redirect_on_auth_flag = 1]))
    BY <1>1, <1>7, <1>10, <2>1, WithStore
  <2>3. QED BY <1>1, <1>7, <1>10, <2>2, RelurlKeeps DEF RedirectToLogon
<1>11. CASE LogonNeeded(t)
  BY <1>2, <1>10, <1>11 DEF LogonNeeded, Authorized
<1>12. CASE StepUpNeeded(t)
  <2>1. config.required[req[t].url] \in -1 .. 2
    BY <1>1, ConfigAssumption DEF RestOK
  <2>2. config.required[req[t].url] # -1
    BY <1>12 DEF StepUpNeeded, Authorized, mshield_access_control
  <2>3. LogonServer[config.required[req[t].url]] \in Url
    BY <1>2, <2>1, <2>2
  <2>4. QED BY <1>10, <1>12, <2>3 DEF StepUpNeeded, Authorized
<1>13. CASE Denied(t)
  BY <1>1, <1>2, <1>7, <1>13, RelurlKeeps DEF Denied, Authorized
<1>14. CASE ReturnToOrigUrl(t)
  <2>1. ValidSession(t)
    BY <1>14 DEF ReturnToOrigUrl, Authorized
  <2>2. [Data(t) EXCEPT !.redirect_on_auth_flag = 0] \in Vouched
    BY <1>1, <1>7, <2>1, MovedVouched
  <2>3. StoreOK(With(sessions, req[t].sid, [Data(t) EXCEPT !.redirect_on_auth_flag = 0]))
    BY <1>1, <1>7, <2>1, <2>2, WithStore
  <2>4. QED BY <1>1, <1>7, <1>14, <2>1, <2>3, RelurlKeeps DEF ReturnToOrigUrl
<1>15. CASE Proceed(t)
  <2>1. ValidSession(t)
    BY <1>15 DEF Proceed, Authorized
  <2>2. [Data(t) EXCEPT !.redirect_on_auth_flag = 0] \in Vouched
    BY <1>1, <1>7, <2>1, MovedVouched
  <2>3. StoreOK([sessions EXCEPT ![req[t].sid].redirect_on_auth_flag = 0])
    BY <1>1, <2>2 DEF StoreOK, Data
  <2>4. StoreOK(sessions')
    BY <1>1, <1>15, <2>3 DEF Proceed
  <2>5. RestOK'
    BY <1>1, <1>7, <1>15, <2>1 DEF Proceed, RestOK, Goto
  <2>6. QED BY <2>4, <2>5 DEF LogonInv
<1>16. QED BY <1>3, <1>4, <1>5, <1>6, <1>8, <1>9, <1>11, <1>12, <1>13, <1>14, <1>15
           DEF mshield_access_checker

(* The output filter keeps it.                                             *)
LEMMA FilterKeeps ==
  ASSUME LogonInv, NEW t \in Tab, mshield_output_filter(t)
  PROVE  LogonInv'
<1>1. /\ RestOK /\ StoreOK(sessions) /\ cookie \in SessionId \cup {NoId}
      /\ req[t] \in Request /\ req[t].url \in Url /\ req[t].logon \in -1 .. 2
  BY DEF LogonInv, RestOK, Request
<1>2. CASE FilterFindsNoSession(t)
  BY <1>1, <1>2, ShowPageKeeps DEF FilterFindsNoSession, Answered
<1>3. ASSUME NEW a \in Answer, FilterAnswer(t, a)
      PROVE  /\ UNCHANGED <<config, accepts, expiries>> /\ req[t].sid \in SessionId
             /\ [Filtered(t, a) EXCEPT !.raised = FALSE, !.stuck = FALSE] \in Vouched
             /\ [Filtered(t, a) EXCEPT !.stuck = @ \/ MustRenew(a, req[t].url)] \in Vouched
             /\ ~ MustRenew(a, req[t].url) => Filtered(t, a) \in Vouched
             /\ Filtered(t, a).redirect_url_after_login \in Url
  <2>1. /\ UNCHANGED <<config, accepts, expiries>> /\ req[t].sid \in SessionId
        /\ Data(t) \in Vouched /\ Honest(a, req[t].url, req[t].logon)
    BY <1>3, StoredVouched DEF FilterAnswer, Answered
  <2>2. QED BY <1>1, <2>1, FilteredVouched DEF Filtered
<1>4. CASE FilterOrdinary(t)
  <2>1. PICK a \in Answer :
          /\ FilterAnswer(t, a) /\ ~ MustRenew(a, req[t].url) /\ cookie' = cookie
          /\ ShowPage(t) /\ Keep(With(sessions, req[t].sid, Filtered(t, a)))
    BY <1>4 DEF FilterOrdinary
  <2>2. StoreOK(With(sessions, req[t].sid, Filtered(t, a)))
    BY <1>1, <1>3, <2>1, WithStore
  <2>3. QED BY <1>1, <1>3, <2>1, <2>2, ShowPageKeeps
<1>a. ASSUME NEW a \in Answer, FilterAnswer(t, a)
      PROVE  StoreOK(NotRenewed(t, a))
  BY <1>1, <1>3, <1>a, WithStore DEF NotRenewed
<1>8. CASE FilterFails(t)
  <2>1. PICK a \in Answer :
          /\ FilterAnswer(t, a) /\ cookie' = cookie
          /\ ShowPage(t) /\ Keep(NotRenewed(t, a))
    BY <1>8 DEF FilterFails
  <2>2. QED BY <1>1, <1>3, <1>a, <2>1, ShowPageKeeps
<1>9. CASE RenewalUntold(t)
  <2>1. PICK a \in Answer :
          /\ FilterAnswer(t, a) /\ cookie' = cookie
          /\ ShowPage(t) /\ Keep(Without(req[t].sid))
    BY <1>9 DEF RenewalUntold
  <2>2. QED BY <1>1, <1>3, <2>1, WithoutStore, ShowPageKeeps
<1>5. CASE FilterStoreFull(t)
  <2>1. PICK a \in Answer :
          /\ FilterAnswer(t, a) /\ cookie' = cookie
          /\ mod_mshield_redirect_to_relurl(t, SHM_FULL_URL)
          /\ Keep(NotRenewed(t, a))
    BY <1>5 DEF FilterStoreFull
  <2>2. StoreOK(NotRenewed(t, a))
    BY <1>a, <2>1
  <2>3. SHM_FULL_URL \in Url
    BY UrlAssumption
  <2>4. QED BY <1>1, <1>3, <2>1, <2>2, <2>3, RelurlKeeps
<1>6. CASE mshield_session_renew(t)
  <2>1. PICK a \in Answer, sid \in FreshId :
          /\ FilterAnswer(t, a) /\ mshield_add_session_cookie_to_headers(sid)
          /\ IF config.return_to_orig_url
             THEN ShowPage(t)
             ELSE mod_mshield_redirect_to_relurl(t, Filtered(t, a).redirect_url_after_login)
          /\ Keep(With(Without(req[t].sid), sid,
                       [Filtered(t, a) EXCEPT !.raised = FALSE, !.stuck = FALSE]))
    BY <1>6 DEF mshield_session_renew
  <2>2. sid \in SessionId /\ cookie' \in SessionId \cup {NoId}
    BY <2>1 DEF FreshId, mshield_add_session_cookie_to_headers
  <2>3. StoreOK(With(Without(req[t].sid), sid,
                     [Filtered(t, a) EXCEPT !.raised = FALSE, !.stuck = FALSE]))
    BY <1>1, <1>3, <2>1, <2>2, WithStore, WithoutStore
  <2>4. CASE config.return_to_orig_url
    BY <1>3, <2>1, <2>2, <2>3, <2>4, ShowPageKeeps
  <2>5. CASE ~ config.return_to_orig_url
    BY <1>3, <2>1, <2>2, <2>3, <2>5, RelurlKeeps
  <2>6. QED BY <2>4, <2>5
<1>7. QED BY <1>2, <1>4, <1>5, <1>6, <1>8, <1>9 DEF mshield_output_filter

-----------------------------------------------------------------------------
(* The user and the timeouts keep it, and so does every step.              *)
LEMMA LogonStep == LogonInv /\ [Next]_vars => LogonInv'
<1> SUFFICES ASSUME LogonInv, [Next]_vars
             PROVE  LogonInv'
  OBVIOUS
<1>1. ASSUME NEW t \in Tab, Visit(t)
      PROVE  LogonInv'
  <2>1. PICK url \in Url, logon \in -1 .. 2, n \in -1 .. 3 :
          req' = [req EXCEPT ![t] = [url |-> url, cookie_try |-> n, sid |-> cookie,
                                     logon |-> logon, made |-> 0]]
    BY <1>1 DEF Visit
  <2>2. [url |-> url, cookie_try |-> n, sid |-> cookie, logon |-> logon, made |-> 0]
          \in Request
    BY DEF LogonInv, RestOK, Request, MAX_MADE
  <2>3. QED BY <1>1, <2>1, <2>2 DEF Visit, Goto, LogonInv, RestOK
<1>2. CASE TimeOut
  <2>1. StoreOK(sessions')
    BY <1>2, WithoutStore, KeepStore DEF TimeOut, LogonInv
  <2>2. QED BY <1>2, <2>1, CountAssumption DEF TimeOut, LogonInv, RestOK
<1>3. CASE UNCHANGED vars
  BY <1>3 DEF vars, LogonInv, RestOK
<1>5. ASSUME NEW t \in Tab, HookFails(t)
      PROVE  LogonInv'
  BY <1>5, ShowPageKeeps DEF HookFails, LogonInv, RestOK
<1>4. QED BY <1>1, <1>2, <1>3, <1>5, CheckerKeeps, FilterKeeps DEF Next

(* The invariant holds at first.                                           *)
LEMMA LogonInit == Init => LogonInv
<1> SUFFICES ASSUME Init PROVE LogonInv
  OBVIOUS
<1>1. StoreOK(sessions)
  BY DEF Init, StoreOK
<1>2. NoRequest \in Request
  BY UrlAssumption DEF NoRequest, Request, MAX_MADE
<1>3. QED BY <1>1, <1>2, CountAssumption DEF Init, LogonInv, RestOK

(* It says what the three invariants say.                                  *)
LEMMA LogonImplies == LogonInv => TypeOK /\ RightsProved /\ RightsRenewed
BY DEF LogonInv, RestOK, StoreOK, Vouched, TypeOK, RightsProved, RightsRenewed, Exists

(* The variables keep their types.                                         *)
THEOREM LogonTypesCorrect == Spec => []TypeOK
BY LogonInit, LogonStep, LogonImplies, PTL DEF Spec

(* A session has no more rights than a logon server has vouched for in it. *)
THEOREM RightsCorrect == Spec => []RightsProved
BY LogonInit, LogonStep, LogonImplies, PTL DEF Spec

(* Rights are not raised under an id that stays, unless the filter ends    *)
(* with an error (mod_mshield.c:100-109 and 130-138).                      *)
THEOREM RenewalCorrect == Spec => []RightsRenewed
BY LogonInit, LogonStep, LogonImplies, PTL DEF Spec

(* Only Proceed hands a request to a backend.                              *)
LEMMA OnlyProceed ==
  ASSUME LogonInv, [Next]_vars, NEW t \in Tab, pc[t] = "sent", pc'[t] = "backend"
  PROVE  Proceed(t)
<1>1. pc \in [Tab -> {"page", "sent", "backend"}]
  BY DEF LogonInv, RestOK
<1>2. ~ TimeOut /\ ~ UNCHANGED vars
  BY DEF TimeOut, vars
<1>3. PICK u \in Tab : \/ Visit(u) \/ HookFails(u)
                       \/ mshield_access_checker(u) \/ mshield_output_filter(u)
  BY <1>2 DEF Next
<1>4. \A place \in {"page", "sent"} : ~ Goto(u, place)
  BY <1>1 DEF Goto
<1>5. ~ ShowPage(u) /\ \A url, n, made : ~ Redirect(u, url, n, made)
  BY <1>4 DEF ShowPage, Redirect
<1>6. ~ Visit(u) /\ ~ HookFails(u) /\ ~ mshield_output_filter(u)
  BY <1>4, <1>5 DEF Visit, HookFails, mshield_output_filter, FilterFindsNoSession,
     FilterOrdinary, FilterStoreFull, FilterFails, mshield_session_renew, RenewalUntold,
     mod_mshield_redirect_to_relurl
<1>7. ~ CreateAndRedirect(u, req[u].url, req[u].cookie_try + 1)
      /\ ~ CreateAndRedirect(u, COOKIES_REFUSED_URL, 0)
      /\ ~ CreateAndRedirect(u, URL_AFTER_RENEW, 0)
      /\ ~ CookieTestError(u)
  BY <1>5 DEF CreateAndRedirect, CookieTestError, RedirectToShmError
<1>8. Proceed(u)
  BY <1>3, <1>5, <1>6, <1>7 DEF mshield_access_checker, RenewRequest, FreeRequest,
     mod_mshield_redirect_to_cookie_try, SessionGone, DestroySession, CookieTestPassed,
     LogonNeeded, StepUpNeeded, RedirectToLogon, Denied, ReturnToOrigUrl,
     mod_mshield_redirect_to_relurl
<1>9. u = t
  BY <1>1, <1>8 DEF Proceed, Goto
<1>10. QED BY <1>8, <1>9

(* A request goes to a backend only with the strength its URL requires.    *)
THEOREM ProtectionCorrect == Spec => ProtectedPagesProved
<1>1. ASSUME LogonInv, [Next]_vars, NEW t \in Tab, pc[t] = "sent", pc'[t] = "backend"
      PROVE  req[t].sid \in Exists /\ config.required[req[t].url] <= Data(t).proved
  <2>1. Authorized(t, "STATUS_OK") /\ req[t].sid \in Exists
    BY <1>1, OnlyProceed DEF Proceed, Authorized, ValidSession
  <2>2. Data(t) \in Vouched /\ Data(t) \in session_data_t /\ req[t].url \in Url
    BY <1>1, <2>1, StoredVouched DEF Request
  <2>3. config.required[req[t].url] \in -1 .. 2
    BY <1>1, <2>2, ConfigAssumption DEF LogonInv, RestOK
  <2>4. Data(t).proved \in -1 .. 2 /\ Data(t).logon_state \in {0, 1}
        /\ Data(t).auth_strength \in 0 .. 2
    BY <2>2 DEF session_data_t
  <2>5. CASE config.required[req[t].url] = -1
    BY <2>1, <2>4, <2>5
  <2>6. CASE config.required[req[t].url] # -1
    <3>1. Data(t).logon_state = 1 /\ Data(t).auth_strength >= config.required[req[t].url]
      BY <2>1, <2>4, <2>6 DEF Authorized, mshield_access_control
    <3>2. Data(t).proved >= 0 /\ (Data(t).auth_strength > 0 =>
                                    Data(t).auth_strength <= Data(t).proved)
      BY <2>2, <2>4, <3>1 DEF Vouched
    <3>3. QED BY <2>1, <2>3, <2>4, <3>1, <3>2
  <2>7. QED BY <2>5, <2>6
<1>2. LogonInv /\ [Next]_vars =>
        [\A t \in Tab : pc[t] = "sent" /\ pc'[t] = "backend" =>
            /\ req[t].sid \in Exists
            /\ config.required[req[t].url] <= Data(t).proved]_vars
  BY <1>1
<1>3. QED BY <1>2, LogonInit, LogonStep, PTL DEF Spec, ProtectedPagesProved

-----------------------------------------------------------------------------
(* The cookie test, for a client that refuses cookies.  A request of it    *)
(* has set up no more sessions than it has been tried, or one more where   *)
(* it began at the renew URL, unless it has come to an error page.         *)

Tested(r) ==
  \/ r.url \in RenewUrl /\ r.made = 0
  \/ r.url \notin RenewUrl /\ r.made <= r.cookie_try + 1
  \/ r.url \in FreeUrl \ RenewUrl /\ r.made <= 5

Refused(t) == req[t].sid = NoId /\ pc[t] # "backend" /\ Tested(req[t])

RefusedInv ==
  /\ LogonInv
  /\ ~ accepts => cookie = NoId /\ \A t \in Tab : Refused(t)

(* What SETTINGS.md asks of the configuration: "this url has to be part of *)
(* the free url section. Otherwise Apache will loop".                      *)
ErrorPagesFree ==
  /\ {COOKIES_REFUSED_URL, SHM_FULL_URL} \subseteq FreeUrl \ RenewUrl
  /\ URL_AFTER_RENEW \notin RenewUrl

(* A step that gives one tab another request leaves the others alone.      *)
LEMMA OthersRefused ==
  ASSUME RefusedInv, ~ accepts, NEW t \in Tab, NEW r, NEW place \in {"page", "sent"},
         r.sid = NoId, Tested(r), cookie' = NoId, Goto(t, place),
         req' = [req EXCEPT ![t] = r]
  PROVE  cookie' = NoId /\ \A u \in Tab : Refused(u)'
BY DEF RefusedInv, LogonInv, RestOK, Refused, Goto

(* The page for a full store ends the test of a client that refuses        *)
(* cookies.                                                                *)
LEMMA FullRefused ==
  ASSUME ErrorPagesFree, RefusedInv, ~ accepts, NEW t \in Tab, req[t].made <= 5,
         RedirectToShmError(t)
  PROVE  cookie' = NoId /\ \A u \in Tab : Refused(u)'
<1> DEFINE r == [url |-> SHM_FULL_URL, cookie_try |-> 0, sid |-> cookie',
                 logon |-> -1, made |-> req[t].made]
<1>1. cookie' = NoId
  BY DEF RefusedInv, RedirectToShmError
<1>2. Tested(r) /\ r.sid = NoId
  BY <1>1 DEF Tested, ErrorPagesFree
<1>3. Goto(t, "sent") /\ req' = [req EXCEPT ![t] = r]
  BY DEF RedirectToShmError, Redirect
<1> HIDE DEF r
<1>4. QED BY <1>1, <1>2, <1>3, OthersRefused

(* A redirection, with or without a new session, keeps a client that       *)
(* refuses cookies within the test.                                        *)
LEMMA CreateRefused ==
  ASSUME ErrorPagesFree, RefusedInv, ~ accepts, NEW t \in Tab, NEW url \in Url,
         NEW n \in 0 .. 3, req[t].made <= 4, CreateAndRedirect(t, url, n),
         \/ url \notin RenewUrl /\ req[t].made <= n
         \/ url \in FreeUrl \ RenewUrl
  PROVE  cookie' = NoId /\ \A u \in Tab : Refused(u)'
<1>1. req[t].made \in 0 .. MAX_MADE /\ cookie = NoId
  BY DEF RefusedInv, LogonInv, RestOK, Request
<1>2. CASE RedirectToShmError(t)
  BY <1>1, <1>2, FullRefused DEF MAX_MADE
<1>3. ASSUME NEW sid \in FreshId, mshield_add_session_cookie_to_headers(sid),
             Redirect(t, url, n, IF req[t].made = MAX_MADE THEN MAX_MADE
                                                           ELSE req[t].made + 1)
      PROVE  cookie' = NoId /\ \A u \in Tab : Refused(u)'
  <2> DEFINE r == [url |-> url, cookie_try |-> n, sid |-> cookie', logon |-> -1,
                   made |-> req[t].made + 1]
  <2>1. cookie' = NoId
    BY <1>3 DEF mshield_add_session_cookie_to_headers
  <2>2. Tested(r) /\ r.sid = NoId
    BY <1>1, <2>1 DEF Tested
  <2>3. req[t].made # MAX_MADE
    BY <1>1 DEF MAX_MADE
  <2>4. Goto(t, "sent") /\ req' = [req EXCEPT ![t] = r]
    BY <1>3, <2>3 DEF Redirect
  <2> HIDE DEF r
  <2>5. QED BY <2>1, <2>2, <2>4, OthersRefused
<1>4. QED BY <1>2, <1>3 DEF CreateAndRedirect

(* Every step keeps it there: it has no session to open, and the checker   *)
(* lets it have the free pages only.                                       *)
LEMMA RefusedStep ==
  ASSUME ErrorPagesFree, RefusedInv, [Next]_vars, ~ accepts
  PROVE  cookie' = NoId /\ \A u \in Tab : Refused(u)'
<1>1. NoId \notin Exists
  BY IdAssumption DEF RefusedInv, LogonInv, StoreOK, Exists
<1>2. \A t \in Tab : Refused(t) /\ req[t] \in Request
  BY DEF RefusedInv, LogonInv, RestOK
<1>3. NoRequest.sid = NoId /\ Tested(NoRequest)
  BY DEF NoRequest, Tested
<1>4. ASSUME NEW t \in Tab, Visit(t)
      PROVE  cookie' = NoId /\ \A u \in Tab : Refused(u)'
  <2>1. PICK url \in Url, logon \in -1 .. 2, n \in -1 .. 3 :
          req' = [req EXCEPT ![t] = [url |-> url, cookie_try |-> n, sid |-> cookie,
                                     logon |-> logon, made |-> 0]]
    BY <1>4 DEF Visit
  <2> DEFINE r == [url |-> url, cookie_try |-> n, sid |-> cookie, logon |-> logon,
                   made |-> 0]
  <2>2. cookie' = NoId /\ cookie = NoId /\ Goto(t, "sent")
    BY <1>4 DEF Visit, RefusedInv
  <2>3. Tested(r) /\ r.sid = NoId /\ req' = [req EXCEPT ![t] = r]
    BY <2>1, <2>2 DEF Tested
  <2> HIDE DEF r
  <2>4. QED BY <2>2, <2>3, OthersRefused
<1>5. ASSUME NEW t \in Tab, RenewRequest(t)
      PROVE  cookie' = NoId /\ \A u \in Tab : Refused(u)'
  <2>1. req[t].made = 0 /\ URL_AFTER_RENEW \in Url /\ URL_AFTER_RENEW \notin RenewUrl
        /\ CreateAndRedirect(t, URL_AFTER_RENEW, 0)
    BY <1>2, <1>5, UrlAssumption DEF RenewRequest, Refused, Tested, ErrorPagesFree
  <2>2. QED BY <2>1, CreateRefused
<1>6. ASSUME NEW t \in Tab, FreeRequest(t)
      PROVE  cookie' = NoId /\ \A u \in Tab : Refused(u)'
  BY <1>3, <1>6, OthersRefused DEF FreeRequest, ShowPage, RefusedInv
<1>7. ASSUME NEW t \in Tab, mod_mshield_redirect_to_cookie_try(t)
      PROVE  cookie' = NoId /\ \A u \in Tab : Refused(u)'
  <2>1. /\ req[t].url \in Url \ (RenewUrl \cup FreeUrl) /\ req[t].cookie_try \in -1 .. 3
        /\ req[t].made \in 0 .. MAX_MADE /\ req[t].made <= req[t].cookie_try + 1
    BY <1>2, <1>7 DEF mod_mshield_redirect_to_cookie_try, NeedsSession, Request, Refused,
       Tested
  <2>2. req[t].made <= 4
    BY <2>1 DEF MAX_MADE
  <2>3. CASE CreateAndRedirect(t, COOKIES_REFUSED_URL, 0)
    <3>1. COOKIES_REFUSED_URL \in Url /\ COOKIES_REFUSED_URL \in FreeUrl \ RenewUrl
      BY UrlAssumption DEF ErrorPagesFree
    <3>2. QED BY <2>2, <2>3, <3>1, CreateRefused
  <2>4. CASE /\ req[t].cookie_try \in 0 .. 2
             /\ CreateAndRedirect(t, req[t].url, req[t].cookie_try + 1)
    <3>1. req[t].cookie_try + 1 \in 0 .. 3
      BY <2>1, <2>4
    <3>2. QED BY <2>1, <2>2, <2>4, <3>1, CreateRefused
  <2>5. CASE RedirectToShmError(t)
    BY <2>2, <2>5, <2>1, FullRefused
  <2>6. ASSUME NEW sid \in FreshId, mshield_add_session_cookie_to_headers(sid), ShowPage(t)
        PROVE  cookie' = NoId /\ \A u \in Tab : Refused(u)'
    BY <1>3, <2>6, OthersRefused DEF mshield_add_session_cookie_to_headers, ShowPage
  <2>7. QED BY <1>7, <2>3, <2>4, <2>5, <2>6
           DEF mod_mshield_redirect_to_cookie_try, CookieTestError
<1>8. ASSUME NEW t \in Tab
      PROVE  ~ ValidSession(t) /\ ~ SessionGone(t) /\ pc[t] # "backend"
  BY <1>1, <1>2 DEF ValidSession, SessionGone, Refused
<1>9. ASSUME NEW t \in Tab, mshield_access_checker(t)
      PROVE  cookie' = NoId /\ \A u \in Tab : Refused(u)'
  BY <1>5, <1>6, <1>7, <1>8, <1>9 DEF mshield_access_checker, DestroySession,
     CookieTestPassed, LogonNeeded, StepUpNeeded, Denied, ReturnToOrigUrl, Proceed, Authorized
<1>10. ASSUME NEW t \in Tab
       PROVE  ~ mshield_output_filter(t)
  BY <1>8 DEF mshield_output_filter, FilterFindsNoSession, FilterOrdinary, FilterStoreFull,
     FilterFails, mshield_session_renew, RenewalUntold, FilterAnswer, Answered
<1>13. ASSUME NEW t \in Tab, HookFails(t)
       PROVE  cookie' = NoId /\ \A u \in Tab : Refused(u)'
  BY <1>3, <1>13, OthersRefused DEF HookFails, ShowPage, RefusedInv
<1>11. CASE TimeOut \/ UNCHANGED vars
  BY <1>2, <1>11 DEF TimeOut, vars, Refused, RefusedInv
<1>12. QED BY <1>4, <1>9, <1>10, <1>11, <1>13 DEF Next

(* A client that takes cookies names a session after the first: a request  *)
(* of it has set up one at most, and then not at the renew URL.            *)
Named(r) == r.made \in {0, 1} /\ (r.made = 1 => r.sid # NoId /\ r.url \notin RenewUrl)

AcceptedInv == LogonInv /\ \A t \in Tab : Named(req[t])

(* The new request of one tab leaves the others alone.                     *)
LEMMA OthersNamed ==
  ASSUME AcceptedInv, NEW t \in Tab, NEW r, Named(r), req' = [req EXCEPT ![t] = r]
  PROVE  \A u \in Tab : Named(req'[u])
BY DEF AcceptedInv, LogonInv, RestOK

(* A page or a redirection that sets up no session keeps this.             *)
LEMMA ShowPageNamed ==
  ASSUME AcceptedInv, NEW t \in Tab, ShowPage(t)
  PROVE  \A u \in Tab : Named(req'[u])
<1>1. Named(NoRequest)
  BY DEF Named, NoRequest
<1>2. QED BY <1>1, OthersNamed DEF ShowPage

(* So does one to a page of the same host.                                 *)
LEMMA RelurlNamed ==
  ASSUME AcceptedInv, NEW t \in Tab, NEW url, mod_mshield_redirect_to_relurl(t, url)
  PROVE  \A u \in Tab : Named(req'[u])
<1> DEFINE r == [url |-> url, cookie_try |-> 0, sid |-> cookie', logon |-> -1, made |-> 0]
<1>1. req' = [req EXCEPT ![t] = r] /\ Named(r)
  BY DEF mod_mshield_redirect_to_relurl, Redirect, Named
<1> HIDE DEF r
<1>2. QED BY <1>1, OthersNamed

(* So does one to the page for a full store.                               *)
LEMMA FullNamed ==
  ASSUME AcceptedInv, NEW t \in Tab, req[t].made = 0, RedirectToShmError(t)
  PROVE  \A u \in Tab : Named(req'[u])
<1> DEFINE r == [url |-> SHM_FULL_URL, cookie_try |-> 0, sid |-> cookie',
                 logon |-> -1, made |-> req[t].made]
<1>1. req' = [req EXCEPT ![t] = r] /\ Named(r)
  BY DEF RedirectToShmError, Redirect, Named
<1> HIDE DEF r
<1>2. QED BY <1>1, OthersNamed

(* So does one that sets up the first.                                     *)
LEMMA CreateNamed ==
  ASSUME AcceptedInv, accepts, NEW t \in Tab, NEW url, NEW n, url \notin RenewUrl,
         req[t].made = 0, CreateAndRedirect(t, url, n)
  PROVE  \A u \in Tab : Named(req'[u])
<1>1. CASE RedirectToShmError(t)
  BY <1>1, FullNamed
<1>2. ASSUME NEW sid \in FreshId, mshield_add_session_cookie_to_headers(sid),
             Redirect(t, url, n, IF req[t].made = MAX_MADE THEN MAX_MADE
                                                           ELSE req[t].made + 1)
      PROVE  \A u \in Tab : Named(req'[u])
  <2> DEFINE r == [url |-> url, cookie_try |-> n, sid |-> cookie', logon |-> -1, made |-> 1]
  <2>1. cookie' # NoId
    BY <1>2, IdAssumption DEF mshield_add_session_cookie_to_headers, FreshId
  <2>2. (IF req[t].made = MAX_MADE THEN MAX_MADE ELSE req[t].made + 1) = 1
    BY DEF MAX_MADE
  <2>3. req' = [req EXCEPT ![t] = r] /\ Named(r)
    BY <1>2, <2>1, <2>2 DEF Redirect, Named
  <2> HIDE DEF r
  <2>4. QED BY <2>3, OthersNamed
<1>3. QED BY <1>1, <1>2 DEF CreateAndRedirect

(* Every step keeps it, for whatever needs a new session has had none.     *)
LEMMA AcceptedStep ==
  ASSUME ErrorPagesFree, AcceptedInv, accepts, [Next]_vars
  PROVE  \A u \in Tab : Named(req'[u])
<1>1. ASSUME NEW t \in Tab, Visit(t)
      PROVE  \A u \in Tab : Named(req'[u])
  <2>1. PICK url \in Url, logon \in -1 .. 2, n \in -1 .. 3 :
          req' = [req EXCEPT ![t] = [url |-> url, cookie_try |-> n, sid |-> cookie,
                                     logon |-> logon, made |-> 0]]
    BY <1>1 DEF Visit
  <2> DEFINE r == [url |-> url, cookie_try |-> n, sid |-> cookie, logon |-> logon,
                   made |-> 0]
  <2>2. req' = [req EXCEPT ![t] = r] /\ Named(r)
    BY <2>1 DEF Named
  <2> HIDE DEF r
  <2>3. QED BY <2>2, OthersNamed
<1>2. ASSUME NEW t \in Tab, RenewRequest(t)
      PROVE  \A u \in Tab : Named(req'[u])
  <2>1. req[t].made = 0 /\ URL_AFTER_RENEW \notin RenewUrl
    BY <1>2 DEF RenewRequest, AcceptedInv, Named, ErrorPagesFree
  <2>2. CreateAndRedirect(t, URL_AFTER_RENEW, 0)
    BY <1>2 DEF RenewRequest
  <2>3. QED BY <2>1, <2>2, CreateNamed
<1>3. ASSUME NEW t \in Tab, mod_mshield_redirect_to_cookie_try(t)
      PROVE  \A u \in Tab : Named(req'[u])
  <2>1. req[t].made = 0 /\ req[t].url \notin RenewUrl /\ COOKIES_REFUSED_URL \notin RenewUrl
    BY <1>3 DEF mod_mshield_redirect_to_cookie_try, NeedsSession, AcceptedInv, Named,
       ErrorPagesFree
  <2>2. CASE CreateAndRedirect(t, COOKIES_REFUSED_URL, 0)
    BY <2>1, <2>2, CreateNamed
  <2>3. CASE CreateAndRedirect(t, req[t].url, req[t].cookie_try + 1)
    BY <2>1, <2>3, CreateNamed
  <2>4. CASE RedirectToShmError(t)
    BY <2>1, <2>4, FullNamed
  <2>5. CASE ShowPage(t)
    BY <2>5, ShowPageNamed
  <2>6. QED BY <1>3, <2>2, <2>3, <2>4, <2>5
           DEF mod_mshield_redirect_to_cookie_try, CookieTestError
<1>4. ASSUME NEW t \in Tab, mshield_access_checker(t)
      PROVE  \A u \in Tab : Named(req'[u])
  <2>1. CASE FreeRequest(t)
    BY <2>1, ShowPageNamed DEF FreeRequest
  <2>2. CASE Proceed(t)
    BY <2>2 DEF Proceed, AcceptedInv, Named
  <2>3. CASE \E url : mod_mshield_redirect_to_relurl(t, url)
    BY <2>3, RelurlNamed
  <2>4. QED BY <1>2, <1>3, <1>4, <2>1, <2>2, <2>3 DEF mshield_access_checker, SessionGone,
            DestroySession, CookieTestPassed, LogonNeeded, StepUpNeeded, RedirectToLogon,
            Denied, ReturnToOrigUrl
<1>5. ASSUME NEW t \in Tab, mshield_output_filter(t)
      PROVE  \A u \in Tab : Named(req'[u])
  <2>1. CASE ShowPage(t)
    BY <2>1, ShowPageNamed
  <2>2. CASE \E url : mod_mshield_redirect_to_relurl(t, url)
    BY <2>2, RelurlNamed
  <2>3. QED BY <1>5, <2>1, <2>2 DEF mshield_output_filter, FilterFindsNoSession,
            FilterOrdinary, FilterStoreFull, FilterFails, mshield_session_renew,
            RenewalUntold
<1>8. ASSUME NEW t \in Tab, HookFails(t)
      PROVE  \A u \in Tab : Named(req'[u])
  BY <1>8, ShowPageNamed DEF HookFails
<1>6. CASE TimeOut \/ UNCHANGED vars
  BY <1>6 DEF TimeOut, vars, AcceptedInv, Named
<1>7. QED BY <1>1, <1>4, <1>5, <1>6, <1>8 DEF Next

(* The cookie test stops, for clients that take cookies and for those that *)
(* refuse them, however many requests their tabs make, whatever times out  *)
(* and however full the store is: a request sets up at most five sessions  *)
(* in a row before an error page ends it.                                  *)
THEOREM CookieTestCorrect ==
  ASSUME ErrorPagesFree
  PROVE  Spec => []CookieTestBounded
<1> DEFINE TestInv == IF accepts THEN AcceptedInv ELSE RefusedInv
<1>1. Init => TestInv
  BY LogonInit DEF Init, RefusedInv, Refused, Tested, AcceptedInv, Named, NoRequest
<1>2. TestInv /\ [Next]_vars => TestInv'
  <2> SUFFICES ASSUME TestInv, [Next]_vars
               PROVE  TestInv'
    OBVIOUS
  <2>1. LogonInv'
    BY LogonStep DEF RefusedInv, AcceptedInv
  <2>2. accepts' = accepts
    BY DEF Next, vars, Visit, TimeOut, mshield_access_checker, RenewRequest, FreeRequest,
       mod_mshield_redirect_to_cookie_try, SessionGone, DestroySession, CookieTestPassed,
       LogonNeeded, StepUpNeeded, Denied, ReturnToOrigUrl, Proceed, Authorized,
       ValidSession, NeedsSession, Arrived, HookFails, mshield_output_filter,
       FilterFindsNoSession, FilterOrdinary, FilterStoreFull, FilterFails,
       mshield_session_renew, RenewalUntold, FilterAnswer, Answered
  <2>3. QED BY <2>1, <2>2, RefusedStep, AcceptedStep DEF RefusedInv, AcceptedInv
<1>3. ASSUME TestInv, NEW t \in Tab
      PROVE  req[t].made <= 5
  BY <1>3 DEF AcceptedInv, Named, RefusedInv, LogonInv, RestOK, Request, Refused, Tested
<1>4. TestInv => CookieTestBounded
  BY <1>3 DEF CookieTestBounded
<1> HIDE DEF TestInv
<1>5. QED BY <1>1, <1>2, <1>4, PTL DEF Spec

=============================================================================
