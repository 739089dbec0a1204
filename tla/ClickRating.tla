----------------------------- MODULE ClickRating -----------------------------
(***************************************************************************)
(* Clicks and their verdicts: one child process with its Kafka producer,   *)
(* the librdkafka queue behind it, the broker, the engine that rates       *)
(* clicks, and the Redis channel on which a verdict comes back.  A request *)
(* here has a valid session, and is told apart only by its click.          *)
(* kafka_produce runs under the giant mutex, so one at a time, unless a    *)
(* request whose lock failed has unlocked the mutex under its holder.      *)
(***************************************************************************)
EXTENDS Integers, Sequences, FiniteSets

CONSTANTS
  Request,              \* requests, each one click
  Url, UrlOf,           \* the URL each is for
  url_store,            \* MOD_MSHIELD_URL: patterns with risk levels
  THRESHOLD,            \* MOD_MSHIELD_FRAUD_VALIDATION_THRESHOLD
  LEARNING_MODE,        \* MOD_MSHIELD_FRAUD_LEARNING_MODE
  AuthStrength,         \* auth_strength of the session of each request
  Free, Cleanup,        \* who else may be said to hold the giant mutex
  QUEUE_LIMIT,          \* messages and reports librdkafka has room for
  DELIVERY_TIMEOUT,     \* MOD_MSHIELD_KAFKA_MSG_DELIVERY_TIMEOUT, in ticks
  MAX_RATINGS           \* how often the engine rates a click it gets again

Verdict == {"OK", "SUSPICIOUS", "FRAUD"}

RedisError == {"IO", "EOF"}

ASSUME ClickAssumption ==
  /\ UrlOf \in [Request -> Url]
  /\ url_store \subseteq [pattern : SUBSET Url, risk_level : Int]
  /\ THRESHOLD \in Int /\ LEARNING_MODE \in BOOLEAN
  /\ AuthStrength \in [Request -> 0 .. 2]
  /\ Free \notin Request /\ Cleanup \notin Request /\ Free # Cleanup
  /\ QUEUE_LIMIT \in Nat /\ DELIVERY_TIMEOUT \in Nat /\ MAX_RATINGS \in Nat

VARIABLES
  pc,          \* where each request is
  mutex,       \* who holds the giant mutex
  critical,    \* validationRequired of each click
  topic,       \* topic[r]: where r produces to
  context,     \* the Redis connection of each request
  inbox,       \* verdicts that have come over it
  verdict,     \* what the wait of each request ended with
  elapsed,     \* how long each request has been polling
  child,       \* the child process: running, draining, stopped or abandoned
  rk,          \* the producer and topic handles it has connected
  outq,        \* messages librdkafka has neither delivered nor given up
  reports,     \* delivery reports that nobody has polled yet
  log,         \* clicks at the broker that the engine has to read
  rated,       \* history: the verdicts published for each click
  produced,    \* history: the messages librdkafka has accepted
  heard        \* history: the reports that have been polled

kafka == <<rk, outq, reports, produced, heard>>
redis == <<context, inbox>>
engine == <<log, rated>>
vars == <<pc, mutex, critical, topic, verdict, elapsed, child, kafka, redis, engine>>

(* Where a request holds the mutex, and where it is over.                  *)
Locked == {"click", "produce", "poll"}

Over == {"idle", "refused", "failed", "done"}

PC == Locked \cup Over \cup {"waiting", "relock", "backend"}

Topic == {"analyse", "usermapping"}

Message == Topic \X Request

Report == [msg : Message, ok : BOOLEAN]

Init ==
  /\ pc = [r \in Request |-> "idle"]
  /\ mutex = Free
  /\ critical = [r \in Request |-> FALSE]
  /\ topic = [r \in Request |-> "analyse"]
  /\ context = [r \in Request |-> "none"]
  /\ inbox = [r \in Request |-> <<>>]
  /\ verdict = [r \in Request |-> "none"]
  /\ elapsed = [r \in Request |-> 0]
  /\ child = "running"
  /\ rk = {}
  /\ outq = {} /\ reports = {} /\ log = {}
  /\ rated = [r \in Request |-> <<>>]
  /\ produced = {} /\ heard = {}

Goto(r, place) == pc' = [pc EXCEPT ![r] = place]

(* apr_global_mutex_lock and apr_global_mutex_unlock, on the way to place. *)
(* What it does to unlock the mutex without holding it, is up to the kind  *)
(* of mutex: nothing, or it is free.                                       *)
Acquire(r, place) == mutex = Free /\ mutex' = r /\ Goto(r, place)

Release(r, place) ==
  /\ mutex' \in IF mutex = r THEN {Free} ELSE {mutex, Free}
  /\ Goto(r, place)

(* A hook that cannot lock the mutex answers with a 500 at once.           *)
LockFails(r) ==
  /\ pc[r] = "backend" \/ (pc[r] = "idle" /\ child = "running")
  /\ Goto(r, "failed")
  /\ UNCHANGED <<mutex, critical, topic, verdict, elapsed, child, kafka, redis, engine>>

-----------------------------------------------------------------------------
(* extract_click_to_kafka                                                  *)

(* The risk level of the first matching entry, in the order of a hash      *)
(* table; 0 for a URL that matches none.  An entry whose matching ends     *)
(* with an error is passed over, so that it may be 0 for any URL.          *)
get_url_risk_level(url) ==
  {0} \cup {e.risk_level : e \in {f \in url_store : url \in f.pattern}}

extract_click_to_kafka(r) ==
  /\ child = "running"
  /\ pc[r] = "idle" /\ Acquire(r, "click")
  /\ \E risk_level \in get_url_risk_level(UrlOf[r]) :
       critical' = [critical EXCEPT ![r] = risk_level >= THRESHOLD /\ ~ LEARNING_MODE]
  /\ UNCHANGED <<topic, verdict, elapsed, child, kafka, redis, engine>>

(* The redirection to fraud_error_url.                                     *)
Refuse(r) == Release(r, "refused")

ConnectFails(r) ==
  /\ pc[r] = "click" /\ critical[r]
  /\ Refuse(r)
  /\ UNCHANGED <<critical, topic, verdict, elapsed, child, kafka, redis, engine>>

(* Mutant: the subscription comes after kafka_produce.                     *)
SubscribeAfterProduce(r) ==
  /\ critical[r]
  /\ \/ /\ pc[r] = "click" /\ Goto(r, "produce")
        /\ context' = [context EXCEPT ![r] = "broken"]
     \/ /\ pc[r] = "waiting" /\ context[r] = "broken" /\ pc' = pc
        /\ context' = [context EXCEPT ![r] = "subscribed"]
  /\ UNCHANGED <<mutex, critical, topic, inbox, verdict, elapsed, child, kafka, engine>>

(* Nobody looks at the reply to SUBSCRIBE, which may have failed.          *)
Subscribe(r) ==
  /\ pc[r] = "click" /\ critical[r]
  /\ \E c \in {"subscribed", "broken"} : context' = [context EXCEPT ![r] = c]
  /\ Goto(r, "produce")
  /\ UNCHANGED <<mutex, critical, topic, inbox, verdict, elapsed, child, kafka, engine>>

UncriticalClick(r) ==
  /\ pc[r] = "click" /\ ~ critical[r]
  /\ Goto(r, "produce")
  /\ UNCHANGED <<mutex, critical, topic, verdict, elapsed, child, kafka, redis, engine>>

-----------------------------------------------------------------------------
(* kafka_produce.  The producer and each topic are connected when they are *)
(* first needed.                                                           *)

Needed(r) == {"producer", topic[r]}

(* Mutant: the way out forgets redisFree.                                  *)
FailedKeepsContext(r) ==
  IF topic[r] = "analyse"
  THEN context' = context /\ Refuse(r)
  ELSE context' = context /\ Release(r, "done")

(* Of a failure the output filter takes no notice, and the request goes on *)
(* as if nothing had happened.                                             *)
Failed(r) ==
  IF topic[r] = "analyse"
  THEN /\ context' = [context EXCEPT ![r] = IF @ = "none" THEN @ ELSE "freed"]
       /\ Refuse(r)
  ELSE context' = context /\ Release(r, "done")

(* kafka_connect_producer or kafka_topic_connect_producer fails, the       *)
(* latter perhaps after the former has succeeded.                          *)
kafka_topic_connect_producer(r) ==
  /\ pc[r] = "produce"
  /\ \/ "producer" \notin rk /\ rk' = rk
     \/ topic[r] \notin rk /\ rk' = rk \cup {"producer"}
  /\ Failed(r)
  /\ UNCHANGED <<critical, topic, inbox, verdict, elapsed, child,
                 outq, reports, produced, heard, engine>>

HasRoom == Cardinality(outq) + Cardinality(reports) < QUEUE_LIMIT

(* A message for which the queue has no room is lost, and the polling goes *)
(* on as if it were there.                                                 *)
rd_kafka_produce(r) ==
  /\ pc[r] = "produce"
  /\ rk' = rk \cup Needed(r)
  /\ LET accepted == IF HasRoom THEN {<<topic[r], r>>} ELSE {}
     IN  outq' = outq \cup accepted /\ produced' = produced \cup accepted
  /\ elapsed' = [elapsed EXCEPT ![r] = 0]
  /\ Goto(r, "poll")
  /\ UNCHANGED <<mutex, critical, topic, verdict, child, reports, heard, redis, engine>>

(* Every report there is, is served in one poll.                           *)
rd_kafka_poll == heard' = heard \cup reports /\ reports' = {}

(* The click is sent, as far as kafka_produce can tell.                    *)
Succeeded(r) ==
  Release(r, IF topic[r] = "usermapping" THEN "done"
             ELSE IF critical[r] THEN "waiting" ELSE "backend")

(* Mutants: the time is looked at only when a report was served; and it    *)
(* begins anew with each poll.                                             *)
PollForever(r) ==
  /\ pc[r] = "poll"
  /\ rd_kafka_poll
  /\ \E now \in elapsed[r] + 1 .. DELIVERY_TIMEOUT + 1 :
       IF reports # {}
       THEN /\ elapsed' = [elapsed EXCEPT ![r] = 0]
            /\ IF now > DELIVERY_TIMEOUT THEN Failed(r)
               ELSE context' = context /\ Succeeded(r)
       ELSE elapsed' = [elapsed EXCEPT ![r] = now] /\ UNCHANGED <<pc, mutex, context>>
  /\ UNCHANGED <<critical, topic, inbox, verdict, child, rk, outq, produced, engine>>

TimerRestarts(r) ==
  /\ pc[r] = "poll"
  /\ rd_kafka_poll
  /\ elapsed' = [elapsed EXCEPT ![r] = 0]
  /\ IF reports # {} THEN context' = context /\ Succeeded(r)
     ELSE UNCHANGED <<pc, mutex, context>>
  /\ UNCHANGED <<critical, topic, inbox, verdict, child, rk, outq, produced, engine>>

(* A poll takes time, perhaps too much; then the report that it has served *)
(* does not help.                                                          *)
kafka_produce(r) ==
  /\ pc[r] = "poll"
  /\ rd_kafka_poll
  /\ \E now \in elapsed[r] + 1 .. DELIVERY_TIMEOUT + 1 :
       IF now > DELIVERY_TIMEOUT
       THEN elapsed' = [elapsed EXCEPT ![r] = 0] /\ Failed(r)
       ELSE IF reports # {}
       THEN elapsed' = [elapsed EXCEPT ![r] = 0] /\ context' = context /\ Succeeded(r)
       ELSE elapsed' = [elapsed EXCEPT ![r] = now] /\ UNCHANGED <<pc, mutex, context>>
  /\ UNCHANGED <<critical, topic, inbox, verdict, child, rk, outq, produced, engine>>

-----------------------------------------------------------------------------
(* The wait for the verdict, without the mutex.  A message on the channel  *)
(* that is no verdict is freed and waited on: it changes nothing but the   *)
(* time at which Redis gives up, so that it is no step here.               *)

handle_mshield_result(r) ==
  /\ pc[r] = "waiting" /\ context[r] = "subscribed" /\ inbox[r] # <<>>
  /\ verdict' = [verdict EXCEPT ![r] = Head(inbox[r])]
  /\ inbox' = [inbox EXCEPT ![r] = Tail(@)]
  /\ Goto(r, "relock")
  /\ UNCHANGED <<mutex, critical, topic, context, elapsed, child, kafka, engine>>

(* Mutant: no response timeout.                                            *)
NoResponseTimeout(r) ==
  /\ pc[r] = "waiting" /\ context[r] = "broken"
  /\ verdict' = [verdict EXCEPT ![r] = "EOF"]
  /\ Goto(r, "relock")
  /\ UNCHANGED <<mutex, critical, topic, elapsed, child, kafka, redis, engine>>

(* REDIS_ERR_IO, a timeout included, or any other error of the connection. *)
WaitFails(r) ==
  /\ pc[r] = "waiting"
  /\ \E error \in RedisError : verdict' = [verdict EXCEPT ![r] = error]
  /\ Goto(r, "relock")
  /\ UNCHANGED <<mutex, critical, topic, elapsed, child, kafka, redis, engine>>

(* Mutant: status is still that of kafka_produce after an error.           *)
PassesOnError(r) ==
  \/ verdict[r] \in {"OK", "IO"}
  \/ verdict[r] = "SUSPICIOUS" /\ AuthStrength[r] = 2

(* An OK goes on, and SUSPICIOUS in a session of the highest strength.     *)
Passes(r) ==
  \/ verdict[r] = "OK"
  \/ verdict[r] = "SUSPICIOUS" /\ AuthStrength[r] = 2

(* The mutex is taken again, and given back when the request goes on or is *)
(* redirected; after an I/O error the connection is not freed.             *)
Relock(r) ==
  /\ pc[r] = "relock" /\ mutex = Free
  /\ Goto(r, IF Passes(r) THEN "backend" ELSE "refused")
  /\ context' = [context EXCEPT ![r] = IF verdict[r] = "IO" THEN @ ELSE "freed"]
  /\ UNCHANGED <<mutex, critical, topic, inbox, verdict, elapsed, child, kafka, engine>>

(* When it cannot be taken, the request is answered with a 500 whatever    *)
(* the verdict was: the connection is not freed, and the access checker    *)
(* unlocks a mutex that it does not hold.                                  *)
RelockFails(r) ==
  /\ pc[r] = "relock"
  /\ Release(r, "failed")
  /\ UNCHANGED <<critical, topic, verdict, elapsed, child, kafka, redis, engine>>

-----------------------------------------------------------------------------
(* The output filter, for its part in Kafka: if the response names the     *)
(* user, the name is produced too.                                         *)
mod_mshield_filter_response_cookies_cb(r) ==
  /\ pc[r] = "backend" /\ mutex = Free
  /\ \/ /\ topic' = [topic EXCEPT ![r] = "usermapping"]
        /\ Acquire(r, "produce")
     \/ /\ Goto(r, "done")
        /\ UNCHANGED <<topic, mutex>>
  /\ UNCHANGED <<critical, verdict, elapsed, child, kafka, redis, engine>>

-----------------------------------------------------------------------------
(* The end of the child process, when it has no request any more.          *)

kafka_cleanup ==
  /\ child = "running" /\ \A r \in Request : pc[r] \in Over
  /\ mutex = Free
  /\ IF "producer" \in rk
     THEN child' = "draining" /\ mutex' = Cleanup /\ rd_kafka_poll
     ELSE child' = "stopped" /\ UNCHANGED <<mutex, heard, reports>>
  /\ UNCHANGED <<pc, critical, topic, verdict, elapsed, rk, outq, produced, redis, engine>>

(* Without the mutex it does nothing, and the child goes.                  *)
CleanupFails ==
  /\ child = "running" /\ \A r \in Request : pc[r] \in Over
  /\ child' = "abandoned"
  /\ UNCHANGED <<pc, mutex, critical, topic, verdict, elapsed, kafka, redis, engine>>

(* rd_kafka_outq_len counts the reports too.                               *)
Drain ==
  /\ child = "draining"
  /\ reports # {} /\ rd_kafka_poll
  /\ UNCHANGED <<pc, mutex, critical, topic, verdict, elapsed, child, rk, outq,
                 produced, redis, engine>>

(* Mutant: the producer is destroyed after the one poll.                   *)
DestroyAtOnce ==
  /\ child = "draining"
  /\ rk' = rk \ {"producer"}
  /\ child' = "stopped" /\ mutex' = Free
  /\ UNCHANGED <<pc, critical, topic, verdict, elapsed, outq, reports, produced, heard,
                 redis, engine>>

rd_kafka_destroy ==
  /\ child = "draining"
  /\ outq = {} /\ reports = {}
  /\ rk' = rk \ {"producer"}
  /\ child' = "stopped" /\ mutex' = Free
  /\ UNCHANGED <<pc, critical, topic, verdict, elapsed, outq, reports, produced, heard,
                 redis, engine>>

-----------------------------------------------------------------------------
(* librdkafka and the broker: a message is delivered, or given up though   *)
(* it may have got through; one whose acknowledgement is lost is sent      *)
(* again.                                                                  *)

Arrive(m) == log' = IF m[1] = "analyse" THEN log \cup {m[2]} ELSE log

Settle(m, ok) ==
  /\ m \in outq
  /\ outq' = outq \ {m}
  /\ reports' = reports \cup {[msg |-> m, ok |-> ok]}
  /\ UNCHANGED <<pc, mutex, critical, topic, verdict, elapsed, child, rk, produced,
                 heard, redis, rated>>

Deliver(m) == Settle(m, TRUE) /\ Arrive(m)

GiveUp(m) == Settle(m, FALSE) /\ log' = log

AckLost(m) ==
  /\ m \in outq
  /\ Arrive(m)
  /\ UNCHANGED <<pc, mutex, critical, topic, verdict, elapsed, child, kafka, redis, rated>>

(* The engine rates a click that needs it and publishes on its channel,    *)
(* where only a subscriber of the moment hears it.                         *)
Rate(r) ==
  /\ r \in log /\ critical[r] /\ Len(rated[r]) < MAX_RATINGS
  /\ log' = log \ {r}
  /\ \E v \in Verdict :
       /\ rated' = [rated EXCEPT ![r] = Append(@, v)]
       /\ inbox' = IF context[r] = "subscribed"
                   THEN [inbox EXCEPT ![r] = Append(@, v)] ELSE inbox
  /\ UNCHANGED <<pc, mutex, critical, topic, verdict, elapsed, child, kafka, context>>

-----------------------------------------------------------------------------
Step(r) ==
  \/ ConnectFails(r)
  \/ Subscribe(r)
  \/ UncriticalClick(r)
  \/ kafka_topic_connect_producer(r)
  \/ rd_kafka_produce(r)
  \/ kafka_produce(r)
  \/ handle_mshield_result(r)
  \/ WaitFails(r)
  \/ Relock(r)
  \/ mod_mshield_filter_response_cookies_cb(r)

Next ==
  \/ \E r \in Request :
       \/ extract_click_to_kafka(r) \/ Step(r) \/ Rate(r)
       \/ LockFails(r) \/ RelockFails(r)
  \/ \E m \in Message : Deliver(m) \/ GiveUp(m) \/ AckLost(m)
  \/ kafka_cleanup \/ CleanupFails \/ Drain \/ rd_kafka_destroy

Spec == Init /\ [][Next]_vars

(* Requests and the cleanup run on.  Locks need not fail.  That librdkafka *)
(* settles a message in the end, by its message.timeout.ms, is assumed for *)
(* the cleanup only.                                                       *)
FairSpec ==
  /\ Spec
  /\ \A r \in Request : WF_vars(Step(r))
  /\ \A m \in Message : WF_vars(child = "draining" /\ (Deliver(m) \/ GiveUp(m)))
  /\ WF_vars(Drain) /\ WF_vars(rd_kafka_destroy)

-----------------------------------------------------------------------------
TypeOK ==
  /\ pc \in [Request -> PC]
  /\ mutex \in Request \cup {Free, Cleanup}
  /\ critical \in [Request -> BOOLEAN]
  /\ topic \in [Request -> Topic]
  /\ context \in [Request -> {"none", "subscribed", "broken", "freed"}]
  /\ inbox \in [Request -> Seq(Verdict)]
  /\ verdict \in [Request -> Verdict \cup RedisError \cup {"none"}]
  /\ elapsed \in [Request -> 0 .. DELIVERY_TIMEOUT]
  /\ child \in {"running", "draining", "stopped", "abandoned"}
  /\ rk \subseteq Topic \cup {"producer"}
  /\ outq \subseteq Message /\ produced \subseteq Message
  /\ reports \subseteq Report /\ heard \subseteq Report
  /\ log \subseteq Request
  /\ rated \in [Request -> Seq(Verdict)]

(* A critical click goes to the backend only by the first verdict that the *)
(* engine published for it, whatever was lost, repeated or late.           *)
RatedOrRefused ==
  \A r \in Request :
    critical[r] /\ (pc[r] \in {"backend", "done"} \/ topic[r] = "usermapping") =>
      /\ rated[r] # <<>>
      /\ \/ rated[r][1] = "OK"
         \/ rated[r][1] = "SUSPICIOUS" /\ AuthStrength[r] = 2

(* While a request waits on its channel it misses no verdict: the engine   *)
(* cannot have rated the click before the subscription.                    *)
NoVerdictMissed ==
  \A r \in Request :
    pc[r] = "waiting" /\ context[r] = "subscribed" => inbox[r] = rated[r]

(* A connection is left open by two exits only, both after the wait: that  *)
(* of an I/O error, and that of a mutex which cannot be taken again.       *)
ConnectionsFreed ==
  \A r \in Request : context[r] \in {"subscribed", "broken"} =>
    /\ pc[r] \in {"backend", "refused", "done"} => verdict[r] = "IO"
    /\ pc[r] = "failed" => verdict[r] # "none"

(* A child that has had the mutex for its cleanup goes when the fate of    *)
(* every message it has produced is known (one that could not lock it, in  *)
(* CleanupFails, goes at once).                                            *)
CleanupHearsAll ==
  child = "stopped" => \A m \in produced : \E rep \in heard : rep.msg = m

(* The mutex is given back, by a request at the latest after the delivery  *)
(* timeout, whatever becomes of the message.                               *)
MutexReleased ==
  \A h \in Request \cup {Cleanup} : mutex = h ~> mutex # h

(* Every click gets its page or an error page.                             *)
ClicksAnswered ==
  \A r \in Request : pc[r] = "click" ~> pc[r] \in {"refused", "failed", "done"}

(* "Do not continue until we god the kafka delivery report which says our  *)
(* message was delivered successful.."                                     *)
OwnReport ==
  [][\A r \in Request :
       pc[r] = "poll" /\ topic[r] = "analyse" /\ pc'[r] \in {"waiting", "backend"} =>
         [msg |-> <<"analyse", r>>, ok |-> TRUE] \in heard']_vars
=============================================================================
