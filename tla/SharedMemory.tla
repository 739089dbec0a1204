---------------------------- MODULE SharedMemory ----------------------------
(***************************************************************************)
(* The shared memory and the clock, as every process of the server sees    *)
(* them.  The modules that EXTEND this one say who writes them and when.   *)
(***************************************************************************)
EXTENDS ShmStore

CONSTANT MAX_TIME      \* bound on the clock

ASSUME MaxTimeAssumption == MAX_TIME \in Nat

VARIABLES
  sessions,   \* session_data_t sessions[MOD_MSHIELD_SESSION_COUNT]
  cookies,    \* cookie_t cookies[MOD_MSHIELD_COOKIESTORE_COUNT]
  now         \* apr_time_sec(apr_time_now())

(* generate_session_id draws from a space so large that a draw never hits  *)
(* a value in use.                                                         *)
FreshId == SessionId \ {sessions[i].session_id : i \in UsedSessions(sessions)}
=============================================================================
