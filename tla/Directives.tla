------------------------------ MODULE Directives ------------------------------
(***************************************************************************)
(* Reading httpd.conf: the handlers of the MOD_MSHIELD_* directives, which *)
(* Apache calls in the order of the file.  Some directives give others     *)
(* their defaults when they are read, and the ones about fraud detection   *)
(* are dropped while it is off.  What a text says is left out.             *)
(***************************************************************************)
EXTENDS Integers, Sequences

CONSTANTS
  Server, main,         \* the main server and its virtual hosts
  GIVEN,                \* the fields the file may set
  Text,                 \* what it may set them to
  Pattern, Level,       \* the arguments of MOD_MSHIELD_URL
  LEVEL_MIN, LEVEL_MAX, \* MOD_MSHIELD_URL_CRITICALITY_LEVEL_MIN and _MAX
  MAX_DIRECTIVES        \* bound: the length of the file

Flag == {"On", "Off"}

-----------------------------------------------------------------------------
(* The fields of mod_mshield_server_t, by the handlers that set them.      *)

CookieField ==
  {"return_to_orig_url", "client_refuses_cookies_url", "cookie_name", "cookie_domain",
   "cookie_path", "cookie_expiration", "cookie_secure", "cookie_httponly"}

SessionField ==
  {"session_free_url", "session_hard_timeout", "session_inactivity_timeout",
   "session_expired_url", "session_renew_url", "all_shm_space_used_url",
   "session_destroy", "session_destroy_url", "authorization_enabled"}

LogonField ==
  {"global_logon_server_url", "global_logon_server_url_1", "global_logon_server_url_2",
   "global_logon_auth_cookie_name", "global_logon_auth_cookie_value",
   "session_store_free_cookies"}

ServiceField ==
  {"service_list_cookie_name", "service_list_cookie_value", "service_list_error_url",
   "authorized_logon_url", "url_after_renew", "username_value"}

General == CookieField \cup SessionField \cup LogonField \cup ServiceField

FraudField ==
  {"validation_threshold", "broker", "fraud_detected_url", "fraud_error_url",
   "topic_analyse", "topic_usermapping", "topic_url_config", "delivery_check_interval",
   "msg_delivery_timeout", "connection_timeout", "response_timeout", "redis_server",
   "redis_port"}

Fraud == FraudField \cup {"learning_mode", "url_store"}

Field == General \cup Fraud \cup {"enabled", "fraud_detection", "service_list"}

ASSUME DirectivesAssumption ==
  /\ main \in Server
  /\ {"null", "default"} \cap Text = {} /\ Flag \cap Text = {}
  /\ Pattern \cap Field = {}
  /\ Level \subseteq Int /\ LEVEL_MIN \in Nat /\ LEVEL_MAX \in Nat
  /\ MAX_DIRECTIVES \in Nat

(* The flags among them.                                                   *)
FlagField == {"return_to_orig_url", "cookie_secure", "cookie_httponly",
              "authorization_enabled"}

Arg(f) == IF f \in FlagField THEN Flag ELSE Text

VARIABLES
  conf,        \* conf[s]: the settings of server s
  url_store,   \* url_store[s]: the level of each pattern, -1 if it has none
  file         \* history: the directives read so far

vars == <<conf, url_store, file>>

(* Zeroed memory: "null" is a NULL pointer, 0 or FALSE.                    *)
Init ==
  /\ conf = [s \in Server |-> [f \in Field |-> "null"]]
  /\ url_store = [s \in Server |-> [p \in Pattern |-> -1]]
  /\ file = <<>>

(* Without a merge function a virtual host has the settings of the main    *)
(* server, all of them, or, if it has a directive of its own, none.        *)
Conf(s) ==
  conf[IF \E i \in DOMAIN file : file[i].server = s THEN s ELSE main]

Read(s, name, arg) ==
  /\ Len(file) < MAX_DIRECTIVES
  /\ file' = Append(file, [server |-> s, name |-> name, arg |-> arg])

Set(s, f, arg) == conf' = [conf EXCEPT ![s][f] = arg]

-----------------------------------------------------------------------------
(* Mutant: fraud detection is on by default.                               *)
EnabledTurnsFraudOn(s, arg) ==
  /\ Read(s, "enabled", arg)
  /\ conf' = [conf EXCEPT ![s] =
       [f \in Field |-> IF f = "enabled" THEN arg
                        ELSE IF f = "fraud_detection" THEN "On"
                        ELSE IF f \in General THEN "default" ELSE @[f]]]
  /\ UNCHANGED url_store

(* MOD_MSHIELD_ENABLED, On or Off, undoes what was set before, and turns   *)
(* fraud detection off.                                                    *)
mshield_config_enabled(s, arg) ==
  /\ Read(s, "enabled", arg)
  /\ conf' = [conf EXCEPT ![s] =
       [f \in Field |-> IF f = "enabled" THEN arg
                        ELSE IF f = "fraud_detection" THEN "Off"
                        ELSE IF f \in General THEN "default" ELSE @[f]]]
  /\ UNCHANGED url_store

(* The handler of any one of the general fields.                           *)
mshield_config_general(s, f, arg) ==
  /\ Read(s, f, arg)
  /\ Set(s, f, arg)
  /\ UNCHANGED url_store

(* This flag can be set, not unset.                                        *)
mshield_config_service_list_enabled(s, arg) ==
  /\ Read(s, "service_list", arg)
  /\ \/ arg = "On" /\ Set(s, "service_list", arg)
     \/ arg = "Off" /\ conf' = conf
  /\ UNCHANGED url_store

(* So can this one, which gives its group the defaults and makes the store *)
(* anew.                                                                   *)
mshield_config_fraud_detection_enabled(s, arg) ==
  /\ Read(s, "fraud_detection", arg)
  /\ \/ /\ arg = "On"
        /\ conf' = [conf EXCEPT ![s] =
             [f \in Field |-> IF f = "fraud_detection" THEN "On"
                              ELSE IF f \in Fraud THEN "default" ELSE @[f]]]
        /\ url_store' = [url_store EXCEPT ![s] = [p \in Pattern |-> -1]]
     \/ arg = "Off" /\ UNCHANGED <<conf, url_store>>

FraudOn(s) == conf[s]["fraud_detection"] = "On"

mshield_config_fraud_learning_mode(s, arg) ==
  /\ Read(s, "learning_mode", arg)
  /\ IF arg = "On" /\ FraudOn(s) THEN Set(s, "learning_mode", arg) ELSE conf' = conf
  /\ UNCHANGED url_store

(* Mutant: the setting is taken while fraud detection is off.              *)
FraudUnchecked(s, f, arg) ==
  /\ Read(s, f, arg)
  /\ Set(s, f, arg)
  /\ UNCHANGED url_store

(* The handler of any one of the fraud fields.  A threshold out of range   *)
(* is logged, and set.                                                     *)
mshield_config_fraud(s, f, arg) ==
  /\ Read(s, f, arg)
  /\ IF FraudOn(s) THEN Set(s, f, arg) ELSE conf' = conf
  /\ UNCHANGED url_store

InRange(level) == level \in LEVEL_MIN .. LEVEL_MAX

(* Mutant: any level is stored.                                            *)
UrlsUnchecked(s, pattern, level) ==
  /\ Read(s, pattern, level)
  /\ IF FraudOn(s) THEN url_store' = [url_store EXCEPT ![s][pattern] = level]
     ELSE url_store' = url_store
  /\ conf' = conf

(* An entry out of range is dropped without a word.                        *)
mshield_config_urls(s, pattern, level) ==
  /\ Read(s, pattern, level)
  /\ IF FraudOn(s) /\ InRange(level)
     THEN url_store' = [url_store EXCEPT ![s][pattern] = level]
     ELSE url_store' = url_store
  /\ conf' = conf

Next ==
  \E s \in Server :
    \/ \E arg \in Flag :
         \/ mshield_config_enabled(s, arg)
         \/ mshield_config_service_list_enabled(s, arg)
         \/ mshield_config_fraud_detection_enabled(s, arg)
         \/ mshield_config_fraud_learning_mode(s, arg)
    \/ \E f \in GIVEN \cap General : \E arg \in Arg(f) : mshield_config_general(s, f, arg)
    \/ \E f \in GIVEN \cap FraudField, arg \in Text : mshield_config_fraud(s, f, arg)
    \/ \E p \in Pattern, level \in Level : mshield_config_urls(s, p, level)

Spec == Init /\ [][Next]_vars

-----------------------------------------------------------------------------
TypeOK ==
  /\ conf \in [Server -> [Field -> Text \cup Flag \cup {"null", "default"}]]
  /\ url_store \in [Server -> [Pattern -> (LEVEL_MIN .. LEVEL_MAX) \cup {-1}]]

(* Where the module is on, no hook finds a pattern or a URL that is NULL;  *)
(* where fraud detection is on, no NULL store, broker or topic.  It takes  *)
(* no order of directives, and no virtual host, to break this.             *)
Complete ==
  \A s \in Server :
    /\ Conf(s)["enabled"] = "On" => \A f \in General : Conf(s)[f] # "null"
    /\ Conf(s)["fraud_detection"] = "On" => \A f \in Fraud : Conf(s)[f] # "null"

(* What a file comes to, read as a whole, where an Off is a word like any  *)
(* other: SETTINGS.md and the table of the directives say of each switch   *)
(* that it turns its part on and off.                                      *)
Of(s) == {i \in DOMAIN file : file[i].server = s}

Resets(d, f) ==
  \/ d.name = "enabled" /\ f \in General \cup {"fraud_detection"}
  \/ d.name = "fraud_detection" /\ d.arg = "On" /\ f \in Fraud \cup Pattern

Says(d, f, arg) == d.name = f /\ d.arg = arg

(* Fraud detection is on where the file comes to the i-th directive.       *)
FraudOnAt(s, i) ==
  \E j \in Of(s) :
    /\ j < i /\ Says(file[j], "fraud_detection", "On")
    /\ \A k \in Of(s) : j < k /\ k < i =>
         /\ ~ Says(file[k], "fraud_detection", "Off")
         /\ ~ Resets(file[k], "fraud_detection")

Honours(d, fraud) ==
  \/ d.name \in General \cup {"service_list"}
  \/ d.name \in FraudField \cup {"learning_mode"} /\ fraud
  \/ d.name \in Pattern /\ InRange(d.arg) /\ fraud

(* The directives of s that have a say about f.                            *)
Said(s, f) ==
  {i \in Of(s) : Resets(file[i], f)
                   \/ (file[i].name = f /\ Honours(file[i], FraudOnAt(s, i)))}

IsLast(i, S) == i \in S /\ \A j \in S : j <= i

(* v is what the last of them says, or none if there is none.              *)
LastWord(s, f, v, reset, none) ==
  \/ Said(s, f) = {} /\ v = none
  \/ \E i \in Said(s, f) :
       IsLast(i, Said(s, f)) /\ v = IF file[i].name = f THEN file[i].arg ELSE reset

(* The last of them is On.                                                 *)
LastSaysOn(s, f) ==
  \E i \in Said(s, f) : IsLast(i, Said(s, f)) /\ Says(file[i], f, "On")

(* The files that the handlers do not read so: they turn a switch off that *)
(* was on, and it stays on.                                                *)
SwitchedOff(s, f) ==
  \E i, k \in Of(s) :
    /\ i < k /\ Says(file[i], f, "On") /\ Says(file[k], f, "Off")
    /\ \A j \in Of(s) : i < j /\ j < k => ~ Resets(file[j], f)

(* But for those, what is in force is what the file says last.             *)
AsDocumented(s) ==
  /\ \A f \in GIVEN \cap General : LastWord(s, f, conf[s][f], "default", "null")
  /\ ~ SwitchedOff(s, "service_list") =>
       (conf[s]["service_list"] = "On" <=> LastSaysOn(s, "service_list"))
  /\ ~ SwitchedOff(s, "fraud_detection") =>
       /\ FraudOn(s) <=> FraudOnAt(s, Len(file) + 1)
       /\ \A f \in GIVEN \cap FraudField : LastWord(s, f, conf[s][f], "default", "null")
       /\ \A p \in Pattern : LastWord(s, p, url_store[s][p], -1, -1)
       /\ ~ SwitchedOff(s, "learning_mode") =>
            (conf[s]["learning_mode"] = "On" <=> LastSaysOn(s, "learning_mode"))

(* A setting is in force until MOD_MSHIELD_ENABLED, or for the fraud group *)
(* MOD_MSHIELD_FRAUD_DETECTION_ENABLED On, comes after it, a fraud setting *)
(* only if detection was on before it, a switch as it was last turned;     *)
(* nothing in one server changes another.  Only a switch that the file     *)
(* turns off after it was on, and what hangs on it, is not as it says.     *)
InForce == \A s \in Server : AsDocumented(s)
=============================================================================
