---------------------------- MODULE MCLogonFlow ----------------------------
(* LogonFlow for TLC: a site with a public page, one page behind a logon   *)
(* and one behind a stronger logon.                                        *)
EXTENDS LogonFlow

Pages == {"/", "/app", "/bank", "/login0", "/login2", "/renew", "/logout", "/error"}

Strength(app, bank) ==
  [url \in Pages |-> CASE url = "/app"  -> app
                       [] url = "/bank" -> bank
                       [] OTHER         -> -1]

Servers == [k \in 0 .. 2 |-> IF k = 2 THEN "/login2" ELSE "/login0"]

Logons == {"/login0", "/login2"}

Renews == {"/renew"}

Errors == {"/error"}

Logouts == {"/logout"}

Lists == {Pages, Pages \ {"/bank"}}

Commands ==
  {[auth_strength |-> 0, service_list |-> Pages, redirect |-> "/"],
   [auth_strength |-> 3, service_list |-> Pages, redirect |-> "/"],
   [auth_strength |-> 2, service_list |-> Pages, redirect |-> "/bank"],
   [auth_strength |-> 2, service_list |-> Pages \ {"/bank"}, redirect |-> "/"]}

Configuration(app, bank, list, return) ==
  [required |-> Strength(app, bank), service_list_enabled |-> list,
   return_to_orig_url |-> return]

(* Step-up with a fixed page after a logon; or one strength, and the way   *)
(* back to the URL that asked for the logon.                               *)
PassingConfigs ==
  {Configuration(0, 2, TRUE, FALSE), Configuration(0, 0, TRUE, TRUE)}

StepUpAndReturn == {Configuration(0, 2, FALSE, TRUE)}
=============================================================================
