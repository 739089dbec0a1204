-------------------------- MODULE ClickRatingProofs --------------------------
(* ClickRating for any number of requests, any risk levels and any sizes   *)
(* of the queue: the verdict decides, and nothing is lost on the way out.  *)
EXTENDS ClickRating, TLAPS

(* Before its click is produced nobody has heard of it.                    *)
Unknown(r) ==
  /\ pc[r] \in {"idle", "click"} \/ (pc[r] = "produce" /\ topic[r] = "analyse") =>
       /\ rated[r] = <<>> /\ r \notin log /\ <<"analyse", r>> \notin outq
  /\ pc[r] \in {"idle", "click"} => inbox[r] = <<>> /\ context[r] = "none"

Unheard == \A r \in Request : Unknown(r)

(* A subscriber has what was published, until it takes the first of it.    *)
Hears(r) ==
  /\ /\ pc[r] \in {"produce", "poll", "waiting"} /\ topic[r] = "analyse"
     /\ context[r] = "subscribed"
     => inbox[r] = rated[r]
  /\ verdict[r] \in Verdict => rated[r] # <<>> /\ verdict[r] = rated[r][1]

Listening == \A r \in Request : Hears(r)

(* A critical click goes on by its verdict, and then produces the user.    *)
GoesByVerdict(r) ==
  /\ topic[r] = "usermapping" => pc[r] \in {"produce", "poll", "done"}
  /\ critical[r] /\ (pc[r] \in {"backend", "done"} \/ topic[r] = "usermapping") => Passes(r)

Judged == \A r \in Request : GoesByVerdict(r)

(* Who has a connection, and who has not freed it.                         *)
Frees(r) ==
  /\ ~ critical[r] => context[r] = "none"
  /\ pc[r] \in {"waiting", "relock"} => critical[r]
  /\ (pc[r] \in {"backend", "refused", "done"} \/ topic[r] = "usermapping")
       /\ context[r] \in {"subscribed", "broken"} => verdict[r] = "IO"
  /\ pc[r] = "relock" \/ (pc[r] = "failed" /\ context[r] \in {"subscribed", "broken"}) =>
       verdict[r] # "none"

Freed == \A r \in Request : Frees(r)

(* Where the messages are.                                                 *)
Accounted ==
  /\ \A m \in produced : m \in outq \/ \E rep \in reports \cup heard : rep.msg = m
  /\ "producer" \notin rk \/ child = "stopped" => outq = {} /\ reports = {}
  /\ child # "running" => \A r \in Request : pc[r] \in Over

ClickInv == TypeOK /\ Unheard /\ Listening /\ Judged /\ Freed /\ Accounted

-----------------------------------------------------------------------------
(* The invariant holds at first.                                           *)
LEMMA ClickInit == Init => ClickInv
<1> SUFFICES ASSUME Init PROVE ClickInv
  OBVIOUS
<1> USE DEF Init
<1>1. TypeOK
  BY ClickAssumption DEF TypeOK, PC, Locked, Over, Topic, Verdict
<1>2. Unheard /\ Listening /\ Judged /\ Freed /\ Accounted
  BY DEF Unheard, Unknown, Listening, Hears, Judged, GoesByVerdict, Freed, Frees,
     Accounted, Verdict, Over
<1>3. QED BY <1>1, <1>2 DEF ClickInv

(* A click begins.                                                         *)
LEMMA BeginKeeps ==
  ASSUME ClickInv, NEW r \in Request, extract_click_to_kafka(r)
  PROVE  ClickInv'
<1> USE DEF ClickInv, extract_click_to_kafka, Acquire, Goto, kafka, redis, engine
<1>1. TypeOK'
  BY DEF TypeOK, PC, Locked, Over
<1>2. Unheard'
  BY DEF TypeOK, Unheard, Unknown
<1>3. Listening'
  BY DEF TypeOK, Unheard, Unknown, Listening, Hears, Verdict, RedisError
<1>4. Judged'
  BY DEF TypeOK, Judged, GoesByVerdict, Passes
<1>5. Freed'
  BY DEF TypeOK, Freed, Frees, Unheard, Unknown, Judged, GoesByVerdict
<1>6. Accounted'
  BY DEF TypeOK, Accounted, Over
<1>7. QED BY <1>1, <1>2, <1>3, <1>4, <1>5, <1>6

(* Redis cannot be reached.                                                *)
LEMMA ConnectFailsKeeps ==
  ASSUME ClickInv, NEW r \in Request, ConnectFails(r)
  PROVE  ClickInv'
<1> USE DEF ClickInv, ConnectFails, Refuse, Release, Goto, kafka, redis, engine
<1>1. TypeOK'
  BY DEF TypeOK, PC, Locked, Over
<1>2. Unheard'
  BY DEF TypeOK, Unheard, Unknown
<1>3. Listening'
  BY DEF TypeOK, Unheard, Unknown, Listening, Hears, Verdict, RedisError
<1>4. Judged'
  BY DEF TypeOK, Judged, GoesByVerdict, Passes
<1>5. Freed'
  BY DEF TypeOK, Freed, Frees, Unheard, Unknown, Judged, GoesByVerdict
<1>6. Accounted'
  BY DEF TypeOK, Accounted, Over
<1>7. QED BY <1>1, <1>2, <1>3, <1>4, <1>5, <1>6

(* The request subscribes.                                                 *)
LEMMA SubscribeKeeps ==
  ASSUME ClickInv, NEW r \in Request, Subscribe(r)
  PROVE  ClickInv'
<1> USE DEF ClickInv, Subscribe, Goto, kafka, redis, engine
<1>1. TypeOK'
  BY DEF TypeOK, PC, Locked, Over
<1>2. Unheard'
  BY DEF TypeOK, Unheard, Unknown
<1>3. Listening'
  <2>1. ASSUME NEW q \in Request, q = r
        PROVE  Hears(q)'
    BY <2>1 DEF TypeOK, Unheard, Unknown, Listening, Hears, Verdict, RedisError
  <2>2. ASSUME NEW q \in Request, q # r
        PROVE  Hears(q)'
    BY <2>2 DEF TypeOK, Unheard, Unknown, Listening, Hears, Verdict, RedisError
  <2>3. QED BY <2>1, <2>2 DEF Listening
<1>4. Judged'
  BY DEF TypeOK, Judged, GoesByVerdict, Passes
<1>5. Freed'
  <2>1. ASSUME NEW q \in Request, q = r
        PROVE  Frees(q)'
    BY <2>1 DEF TypeOK, Freed, Frees, Unheard, Unknown, Judged, GoesByVerdict
  <2>2. ASSUME NEW q \in Request, q # r
        PROVE  Frees(q)'
    BY <2>2 DEF TypeOK, Freed, Frees, Unheard, Unknown, Judged, GoesByVerdict
  <2>3. QED BY <2>1, <2>2 DEF Freed
<1>6. Accounted'
  BY DEF TypeOK, Accounted, Over
<1>7. QED BY <1>1, <1>2, <1>3, <1>4, <1>5, <1>6

(* It need not.                                                            *)
LEMMA UncriticalKeeps ==
  ASSUME ClickInv, NEW r \in Request, UncriticalClick(r)
  PROVE  ClickInv'
<1> USE DEF ClickInv, UncriticalClick, Goto, kafka, redis, engine
<1>1. TypeOK'
  BY DEF TypeOK, PC, Locked, Over
<1>2. Unheard'
  BY DEF TypeOK, Unheard, Unknown
<1>3. Listening'
  BY DEF TypeOK, Unheard, Unknown, Listening, Hears, Verdict, RedisError
<1>4. Judged'
  BY DEF TypeOK, Judged, GoesByVerdict, Passes
<1>5. Freed'
  BY DEF TypeOK, Freed, Frees, Unheard, Unknown, Judged, GoesByVerdict
<1>6. Accounted'
  BY DEF TypeOK, Accounted, Over
<1>7. QED BY <1>1, <1>2, <1>3, <1>4, <1>5, <1>6

(* The verdict is taken.                                                   *)
LEMMA ResultKeeps ==
  ASSUME ClickInv, NEW r \in Request, handle_mshield_result(r)
  PROVE  ClickInv'
<1> USE DEF ClickInv, handle_mshield_result, Goto, kafka, redis, engine
<1>1. TypeOK'
  BY DEF TypeOK, PC, Locked, Over
<1>2. Unheard'
  BY DEF TypeOK, Unheard, Unknown
<1>3. Listening'
  <2>1. /\ inbox[r] = rated[r] /\ inbox[r] \in Seq(Verdict) /\ inbox[r] # <<>>
        /\ verdict' = [verdict EXCEPT ![r] = Head(inbox[r])]
        /\ pc' = [pc EXCEPT ![r] = "relock"] /\ rated' = rated
    BY DEF TypeOK, Listening, Hears, Judged, GoesByVerdict, Topic
  <2>2. Head(inbox[r]) = rated[r][1]
    BY <2>1
  <2>3. Hears(r)'
    BY <2>1, <2>2 DEF TypeOK, Hears
  <2>4. ASSUME NEW q \in Request, q # r
        PROVE  Hears(q)'
    BY <2>4 DEF TypeOK, Listening, Hears
  <2>5. QED BY <2>3, <2>4 DEF Listening
<1>4. Judged'
  BY DEF TypeOK, Judged, GoesByVerdict, Passes
<1>5. Freed'
  <2>0. verdict'[r] # "none"
    <3>1. inbox[r] \in Seq(Verdict) /\ inbox[r] # <<>>
      BY DEF TypeOK
    <3>2. Head(inbox[r]) \in Verdict
      BY <3>1
    <3>3. QED BY <3>2 DEF TypeOK, Verdict
  <2>1. ASSUME NEW q \in Request, q = r
        PROVE  Frees(q)'
    BY <2>0, <2>1 DEF TypeOK, Freed, Frees, Unheard, Unknown, Judged, GoesByVerdict
  <2>2. ASSUME NEW q \in Request, q # r
        PROVE  Frees(q)'
    BY <2>2 DEF TypeOK, Freed, Frees, Unheard, Unknown, Judged, GoesByVerdict
  <2>3. QED BY <2>1, <2>2 DEF Freed
<1>6. Accounted'
  BY DEF TypeOK, Accounted, Over
<1>7. QED BY <1>1, <1>2, <1>3, <1>4, <1>5, <1>6

(* The wait fails.                                                         *)
LEMMA WaitFailsKeeps ==
  ASSUME ClickInv, NEW r \in Request, WaitFails(r)
  PROVE  ClickInv'
<1> USE DEF ClickInv, WaitFails, Goto, kafka, redis, engine
<1>1. TypeOK'
  BY DEF TypeOK, PC, Locked, Over
<1>2. Unheard'
  BY DEF TypeOK, Unheard, Unknown
<1>3. Listening'
  BY DEF TypeOK, Unheard, Unknown, Listening, Hears, Verdict, RedisError
<1>4. Judged'
  BY DEF TypeOK, Judged, GoesByVerdict, Passes
<1>5. Freed'
  <2>1. ASSUME NEW q \in Request, q = r
        PROVE  Frees(q)'
    BY <2>1 DEF TypeOK, Freed, Frees, Judged, GoesByVerdict, RedisError
  <2>2. ASSUME NEW q \in Request, q # r
        PROVE  Frees(q)'
    BY <2>2 DEF TypeOK, Freed, Frees
  <2>3. QED BY <2>1, <2>2 DEF Freed
<1>6. Accounted'
  BY DEF TypeOK, Accounted, Over
<1>7. QED BY <1>1, <1>2, <1>3, <1>4, <1>5, <1>6

(* The request goes on by the verdict.                                     *)
LEMMA RelockKeeps ==
  ASSUME ClickInv, NEW r \in Request, Relock(r)
  PROVE  ClickInv'
<1> USE DEF ClickInv, Relock, Goto, kafka, redis, engine
<1>1. TypeOK'
  BY DEF TypeOK, PC, Locked, Over
<1>2. Unheard'
  BY DEF TypeOK, Unheard, Unknown
<1>3. Listening'
  BY DEF TypeOK, Unheard, Unknown, Listening, Hears, Verdict, RedisError
<1>4. Judged'
  BY DEF TypeOK, Judged, GoesByVerdict, Passes
<1>5. Freed'
  <2>1. context'[r] \in {"subscribed", "broken"} => verdict'[r] = "IO"
    BY DEF TypeOK
  <2>2. ~ critical[r] => context'[r] \in {"none", "freed"}
    BY DEF TypeOK, Freed, Frees
  <2>3. ~ critical'[r] => context'[r] = "none"
    BY DEF TypeOK, Freed, Frees
  <2>4. Frees(r)'
    <3>1. pc'[r] \in {"backend", "refused"}
      BY DEF TypeOK
    <3>2. QED BY <2>1, <2>3, <3>1 DEF Frees
  <2>5. ASSUME NEW q \in Request, q # r
        PROVE  Frees(q)'
    BY <2>5 DEF TypeOK, Freed, Frees
  <2>6. QED BY <2>4, <2>5 DEF Freed
<1>6. Accounted'
  BY DEF TypeOK, Accounted, Over
<1>7. QED BY <1>1, <1>2, <1>3, <1>4, <1>5, <1>6

(* The mutex cannot be taken again.                                        *)
LEMMA RelockFailsKeeps ==
  ASSUME ClickInv, NEW r \in Request, RelockFails(r)
  PROVE  ClickInv'
<1> USE DEF ClickInv, RelockFails, Release, Goto, kafka, redis, engine
<1>1. TypeOK'
  BY DEF TypeOK, PC, Locked, Over
<1>2. Unheard'
  BY DEF TypeOK, Unheard, Unknown
<1>3. Listening'
  BY DEF TypeOK, Listening, Hears
<1>4. Judged'
  BY DEF TypeOK, Judged, GoesByVerdict, Passes
<1>5. Freed'
  <2>1. ASSUME NEW q \in Request, q = r
        PROVE  Frees(q)'
    BY <2>1 DEF TypeOK, Freed, Frees, Judged, GoesByVerdict
  <2>2. ASSUME NEW q \in Request, q # r
        PROVE  Frees(q)'
    BY <2>2 DEF TypeOK, Freed, Frees
  <2>3. QED BY <2>1, <2>2 DEF Freed
<1>6. Accounted'
  BY DEF TypeOK, Accounted, Over
<1>7. QED BY <1>1, <1>2, <1>3, <1>4, <1>5, <1>6

(* A hook cannot lock the mutex.                                           *)
LEMMA LockFailsKeeps ==
  ASSUME ClickInv, NEW r \in Request, LockFails(r)
  PROVE  ClickInv'
<1> USE DEF ClickInv, LockFails, Goto, kafka, redis, engine
<1>1. TypeOK'
  BY DEF TypeOK, PC, Locked, Over
<1>2. Unheard'
  BY DEF TypeOK, Unheard, Unknown
<1>3. Listening'
  BY DEF TypeOK, Listening, Hears
<1>4. Judged'
  BY DEF TypeOK, Judged, GoesByVerdict, Passes
<1>5. Freed'
  <2>1. ASSUME NEW q \in Request, q = r
        PROVE  Frees(q)'
    BY <2>1 DEF TypeOK, Unheard, Unknown, Freed, Frees, Judged, GoesByVerdict
  <2>2. ASSUME NEW q \in Request, q # r
        PROVE  Frees(q)'
    BY <2>2 DEF TypeOK, Freed, Frees
  <2>3. QED BY <2>1, <2>2 DEF Freed
<1>6. Accounted'
  BY DEF TypeOK, Accounted, Over
<1>7. QED BY <1>1, <1>2, <1>3, <1>4, <1>5, <1>6

(* The response may name the user.                                         *)
LEMMA CallbackKeeps ==
  ASSUME ClickInv, NEW r \in Request, mod_mshield_filter_response_cookies_cb(r)
  PROVE  ClickInv'
<1> USE DEF ClickInv, mod_mshield_filter_response_cookies_cb, Acquire, Goto, Topic, kafka, redis, engine
<1>1. TypeOK'
  BY DEF TypeOK, PC, Locked, Over
<1>2. Unheard'
  <2>1. ASSUME NEW q \in Request, q = r
        PROVE  Unknown(q)'
    BY <2>1 DEF TypeOK, Unheard, Unknown
  <2>2. ASSUME NEW q \in Request, q # r
        PROVE  Unknown(q)'
    BY <2>2 DEF TypeOK, Unheard, Unknown
  <2>3. QED BY <2>1, <2>2 DEF Unheard
<1>3. Listening'
  <2>1. ASSUME NEW q \in Request, q = r
        PROVE  Hears(q)'
    BY <2>1 DEF TypeOK, Unheard, Unknown, Listening, Hears, Verdict, RedisError
  <2>2. ASSUME NEW q \in Request, q # r
        PROVE  Hears(q)'
    BY <2>2 DEF TypeOK, Unheard, Unknown, Listening, Hears, Verdict, RedisError
  <2>3. QED BY <2>1, <2>2 DEF Listening
<1>4. Judged'
  BY DEF TypeOK, Judged, GoesByVerdict, Passes
<1>5. Freed'
  BY DEF TypeOK, Freed, Frees, Unheard, Unknown, Judged, GoesByVerdict
<1>6. Accounted'
  BY DEF TypeOK, Accounted, Over
<1>7. QED BY <1>1, <1>2, <1>3, <1>4, <1>5, <1>6

(* A handle cannot be had.                                                 *)
LEMMA ConnectKeeps ==
  ASSUME ClickInv, NEW r \in Request, kafka_topic_connect_producer(r)
  PROVE  ClickInv'
<1> USE DEF ClickInv, kafka_topic_connect_producer, Failed, Refuse, Release, Goto, Topic, kafka, redis, engine
<1>1. TypeOK'
  BY DEF TypeOK, PC, Locked, Over
<1>2. Unheard'
  <2>1. ASSUME NEW q \in Request, q = r
        PROVE  Unknown(q)'
    BY <2>1 DEF TypeOK, Unheard, Unknown
  <2>2. ASSUME NEW q \in Request, q # r
        PROVE  Unknown(q)'
    BY <2>2 DEF TypeOK, Unheard, Unknown
  <2>3. QED BY <2>1, <2>2 DEF Unheard
<1>3. Listening'
  <2>1. ASSUME NEW q \in Request, q = r
        PROVE  Hears(q)'
    BY <2>1 DEF TypeOK, Unheard, Unknown, Listening, Hears, Verdict, RedisError
  <2>2. ASSUME NEW q \in Request, q # r
        PROVE  Hears(q)'
    BY <2>2 DEF TypeOK, Unheard, Unknown, Listening, Hears, Verdict, RedisError
  <2>3. QED BY <2>1, <2>2 DEF Listening
<1>4. Judged'
  BY DEF TypeOK, Judged, GoesByVerdict, Passes
<1>5. Freed'
  <2>1. ASSUME NEW q \in Request, q = r
        PROVE  Frees(q)'
    BY <2>1 DEF TypeOK, Freed, Frees, Unheard, Unknown, Judged, GoesByVerdict
  <2>2. ASSUME NEW q \in Request, q # r
        PROVE  Frees(q)'
    BY <2>2 DEF TypeOK, Freed, Frees, Unheard, Unknown, Judged, GoesByVerdict
  <2>3. QED BY <2>1, <2>2 DEF Freed
<1>6. Accounted'
  BY DEF TypeOK, Accounted, Over
<1>7. QED BY <1>1, <1>2, <1>3, <1>4, <1>5, <1>6

(* A message is queued, or not.                                            *)
LEMMA QueueKeeps ==
  ASSUME ClickInv, NEW r \in Request, rd_kafka_produce(r)
  PROVE  ClickInv'
<1> USE DEF ClickInv, rd_kafka_produce, Needed, Goto, Topic, Message, kafka, redis, engine
<1> DEFINE accepted == IF HasRoom THEN {<<topic[r], r>>} ELSE {}
<1>1. TypeOK'
  <2>1. accepted \subseteq Message
    BY DEF TypeOK, Message
  <2>2. outq' = outq \cup accepted /\ produced' = produced \cup accepted
    OBVIOUS
  <2>3. outq' \subseteq Message /\ produced' \subseteq Message
    BY <2>1, <2>2 DEF TypeOK
  <2> HIDE DEF accepted
  <2>4. pc' \in [Request -> PC]
    BY DEF TypeOK, PC, Locked
  <2>5. rk' \subseteq Topic \cup {"producer"}
    BY DEF TypeOK
  <2>6. elapsed' \in [Request -> 0 .. DELIVERY_TIMEOUT]
    BY ClickAssumption DEF TypeOK
  <2>7. QED BY <2>3, <2>4, <2>5, <2>6 DEF TypeOK
<1>2. Unheard'
  BY DEF TypeOK, Unheard, Unknown
<1>3. Listening'
  BY DEF TypeOK, Unheard, Unknown, Listening, Hears, Verdict, RedisError
<1>4. Judged'
  BY DEF TypeOK, Judged, GoesByVerdict, Passes
<1>5. Freed'
  BY DEF TypeOK, Freed, Frees, Unheard, Unknown, Judged, GoesByVerdict
<1>6. Accounted'
  BY DEF TypeOK, Accounted, Over
<1>7. QED BY <1>1, <1>2, <1>3, <1>4, <1>5, <1>6

(* How a request may leave a poll.                                         *)
Polled(r, place, c) ==
  /\ pc' = [pc EXCEPT ![r] = place] /\ context' = [context EXCEPT ![r] = c]
  /\ \/ place = "refused" /\ topic[r] = "analyse"
        /\ c = IF context[r] = "none" THEN "none" ELSE "freed"
     \/ place = "done" /\ topic[r] = "usermapping" /\ c = context[r]
     \/ place = "waiting" /\ topic[r] = "analyse" /\ critical[r] /\ c = context[r]
     \/ place = "backend" /\ topic[r] = "analyse" /\ ~ critical[r] /\ c = context[r]
     \/ place = "poll" /\ c = context[r]

(* A poll ends the wait, or it does not.                                   *)
LEMMA PollOutcome ==
  ASSUME ClickInv, NEW r \in Request, kafka_produce(r)
  PROVE  /\ pc[r] = "poll" /\ heard' = heard \cup reports /\ reports' = {}
         /\ elapsed' \in [Request -> 0 .. DELIVERY_TIMEOUT]
         /\ mutex' \in {mutex, Free}
         /\ \E place \in PC, c \in {"none", "subscribed", "broken", "freed"} : Polled(r, place, c)
         /\ UNCHANGED <<critical, topic, inbox, verdict, child, rk, outq, produced, engine>>
<1>1. PICK now \in elapsed[r] + 1 .. DELIVERY_TIMEOUT + 1 :
        IF now > DELIVERY_TIMEOUT
        THEN elapsed' = [elapsed EXCEPT ![r] = 0] /\ Failed(r)
        ELSE IF reports # {}
        THEN elapsed' = [elapsed EXCEPT ![r] = 0] /\ context' = context /\ Succeeded(r)
        ELSE elapsed' = [elapsed EXCEPT ![r] = now] /\ UNCHANGED <<pc, mutex, context>>
  BY DEF kafka_produce
<1>2. elapsed' \in [Request -> 0 .. DELIVERY_TIMEOUT]
  <2>1. elapsed \in [Request -> 0 .. DELIVERY_TIMEOUT]
    BY DEF ClickInv, TypeOK
  <2>2. elapsed[r] \in 0 .. DELIVERY_TIMEOUT
    BY <2>1
  <2>3. PICK t \in 0 .. DELIVERY_TIMEOUT : elapsed' = [elapsed EXCEPT ![r] = t]
    BY <1>1, <2>2, ClickAssumption
  <2>4. QED BY <2>1, <2>3
<1>3. /\ topic[r] \in {"analyse", "usermapping"} /\ critical[r] \in BOOLEAN
      /\ context[r] \in {"none", "subscribed", "broken", "freed"}
      /\ pc[r] = "poll"
  BY DEF ClickInv, TypeOK, Topic, kafka_produce
<1>c. context = [context EXCEPT ![r] = context[r]] /\ pc = [pc EXCEPT ![r] = pc[r]]
  BY DEF ClickInv, TypeOK
<1>4. mutex' \in {mutex, Free}
  BY <1>1 DEF Failed, Refuse, Release, Succeeded
<1>5. \E place \in PC, c \in {"none", "subscribed", "broken", "freed"} : Polled(r, place, c)
  <2>1. CASE Failed(r)
    <3>1. CASE topic[r] = "analyse"
      <4> DEFINE c == IF context[r] = "none" THEN "none" ELSE "freed"
      <4>1. /\ pc' = [pc EXCEPT ![r] = "refused"]
            /\ context' = [context EXCEPT ![r] = c]
        BY <1>3, <2>1, <3>1 DEF Failed, Refuse, Release, Goto
      <4>2. c = (IF context[r] = "none" THEN "none" ELSE "freed")
        OBVIOUS
      <4>3. c \in {"none", "subscribed", "broken", "freed"}
        OBVIOUS
      <4> HIDE DEF c
      <4>4. Polled(r, "refused", c)
        BY <3>1, <4>1, <4>2 DEF Polled
      <4>5. QED BY <4>3, <4>4 DEF PC, Over
    <3>2. CASE topic[r] = "usermapping"
      <4>1. pc' = [pc EXCEPT ![r] = "done"] /\ context' = [context EXCEPT ![r] = context[r]]
        BY <1>c, <2>1, <3>2 DEF Failed, Release, Goto
      <4>2. Polled(r, "done", context[r])
        BY <3>2, <4>1 DEF Polled
      <4>3. QED BY <1>3, <4>2 DEF PC, Over
    <3>3. QED BY <1>3, <3>1, <3>2
  <2>2. CASE context' = context /\ Succeeded(r)
    <3> DEFINE place == IF topic[r] = "usermapping" THEN "done"
                        ELSE IF critical[r] THEN "waiting" ELSE "backend"
    <3>1. pc' = [pc EXCEPT ![r] = place] /\ context' = [context EXCEPT ![r] = context[r]]
      BY <1>c, <2>2 DEF Succeeded, Release, Goto
    <3>2. \/ place = "done" /\ topic[r] = "usermapping"
          \/ place = "waiting" /\ topic[r] = "analyse" /\ critical[r]
          \/ place = "backend" /\ topic[r] = "analyse" /\ ~ critical[r]
      BY <1>3
    <3>3. place \in PC
      BY <3>2 DEF PC, Over
    <3> HIDE DEF place
    <3>4. Polled(r, place, context[r])
      BY <3>1, <3>2 DEF Polled
    <3>5. QED BY <1>3, <3>3, <3>4
  <2>3. CASE UNCHANGED <<pc, mutex, context>>
    <3>1. pc' = [pc EXCEPT ![r] = "poll"] /\ context' = [context EXCEPT ![r] = context[r]]
      BY <1>3, <1>c, <2>3
    <3>2. Polled(r, "poll", context[r])
      BY <3>1 DEF Polled
    <3>3. QED BY <1>3, <3>2 DEF PC, Locked
  <2>4. QED BY <1>1, <2>1, <2>2, <2>3
<1>6. QED BY <1>2, <1>3, <1>4, <1>5 DEF kafka_produce, rd_kafka_poll

(* Either way the invariant is kept.                                       *)
LEMMA PollKeeps ==
  ASSUME ClickInv, NEW r \in Request, kafka_produce(r)
  PROVE  ClickInv'
<1>a. PICK place \in PC, c \in {"none", "subscribed", "broken", "freed"} : Polled(r, place, c)
  BY PollOutcome
<1>b. /\ pc'[r] = place /\ context'[r] = c /\ pc[r] = "poll"
      /\ pc' \in [Request -> PC]
      /\ context' \in [Request -> {"none", "subscribed", "broken", "freed"}]
      /\ \A q \in Request : q # r => pc'[q] = pc[q] /\ context'[q] = context[q]
      /\ \/ place = "refused" /\ topic[r] = "analyse"
            /\ c = IF context[r] = "none" THEN "none" ELSE "freed"
         \/ place = "done" /\ topic[r] = "usermapping" /\ c = context[r]
         \/ place = "waiting" /\ topic[r] = "analyse" /\ critical[r] /\ c = context[r]
         \/ place = "backend" /\ topic[r] = "analyse" /\ ~ critical[r] /\ c = context[r]
         \/ place = "poll" /\ c = context[r]
  BY <1>a, PollOutcome DEF Polled, ClickInv, TypeOK
<1>c. UNCHANGED <<critical, topic, inbox, verdict, child, rk, outq, produced, log, rated>>
  BY PollOutcome DEF engine
<1> USE DEF ClickInv
<1>1. TypeOK'
  BY <1>b, <1>c, PollOutcome DEF TypeOK, PC, Locked, Over
<1>2. Unheard'
  <2>1. ASSUME NEW q \in Request, q = r
        PROVE  Unknown(q)'
    BY <1>b, <1>c, <2>1 DEF TypeOK, Unheard, Unknown
  <2>2. ASSUME NEW q \in Request, q # r
        PROVE  Unknown(q)'
    BY <1>b, <1>c, <2>2 DEF TypeOK, Unheard, Unknown
  <2>3. QED BY <2>1, <2>2 DEF Unheard
<1>3. Listening'
  <2>1. ASSUME NEW q \in Request, q = r
        PROVE  Hears(q)'
    BY <1>b, <1>c, <2>1 DEF TypeOK, Unheard, Unknown, Listening, Hears, Verdict, RedisError
  <2>2. ASSUME NEW q \in Request, q # r
        PROVE  Hears(q)'
    BY <1>b, <1>c, <2>2 DEF TypeOK, Unheard, Unknown, Listening, Hears, Verdict, RedisError
  <2>3. QED BY <2>1, <2>2 DEF Listening
<1>4. Judged'
  <2>1. ASSUME NEW q \in Request, q = r
        PROVE  GoesByVerdict(q)'
    BY <1>b, <1>c, <2>1 DEF TypeOK, Judged, GoesByVerdict, Passes
  <2>2. ASSUME NEW q \in Request, q # r
        PROVE  GoesByVerdict(q)'
    BY <1>b, <1>c, <2>2 DEF TypeOK, Judged, GoesByVerdict, Passes
  <2>3. QED BY <2>1, <2>2 DEF Judged
<1>5. Freed'
  <2>1. ASSUME NEW q \in Request, q = r
        PROVE  Frees(q)'
    BY <1>b, <1>c, <2>1 DEF TypeOK, Freed, Frees, Unheard, Unknown, Judged, GoesByVerdict
  <2>2. ASSUME NEW q \in Request, q # r
        PROVE  Frees(q)'
    BY <1>b, <1>c, <2>2 DEF TypeOK, Freed, Frees, Unheard, Unknown, Judged, GoesByVerdict
  <2>3. QED BY <2>1, <2>2 DEF Freed
<1>6. Accounted'
  BY <1>b, <1>c, PollOutcome DEF TypeOK, Accounted, Over
<1>7. QED BY <1>1, <1>2, <1>3, <1>4, <1>5, <1>6

(* The engine rates a click.                                               *)
LEMMA RateKeeps ==
  ASSUME ClickInv, NEW r \in Request, Rate(r)
  PROVE  ClickInv'
<1> USE DEF ClickInv, Rate, kafka, redis, engine
<1>1. TypeOK'
  BY DEF TypeOK, PC, Locked, Over
<1>2. Unheard'
  BY DEF TypeOK, Unheard, Unknown
<1>3. Listening'
  <2>1. Hears(r)'
    <3>1. PICK v \in Verdict :
            /\ rated' = [rated EXCEPT ![r] = Append(@, v)]
            /\ inbox' = IF context[r] = "subscribed"
                        THEN [inbox EXCEPT ![r] = Append(@, v)] ELSE inbox
      OBVIOUS
    <3>2. /\ rated'[r] = Append(rated[r], v) /\ rated[r] \in Seq(Verdict)
          /\ context[r] = "subscribed" => inbox'[r] = Append(inbox[r], v)
          /\ UNCHANGED <<pc, topic, context, verdict>>
      BY <3>1 DEF TypeOK
    <3>3. rated[r] # <<>> => rated'[r] # <<>> /\ rated'[r][1] = rated[r][1]
      BY <3>2
    <3>4. Hears(r)
      BY DEF Listening
    <3>5. QED BY <3>2, <3>3, <3>4 DEF Hears
  <2>2. ASSUME NEW q \in Request, q # r
        PROVE  Hears(q)'
    BY <2>2 DEF TypeOK, Unheard, Unknown, Listening, Hears, Verdict
  <2>3. QED BY <2>1, <2>2 DEF Listening
<1>4. Judged'
  BY DEF TypeOK, Judged, GoesByVerdict, Passes
<1>5. Freed'
  BY DEF TypeOK, Freed, Frees, Unheard, Unknown, Judged, GoesByVerdict
<1>6. Accounted'
  BY DEF TypeOK, Accounted, Over
<1>7. QED BY <1>1, <1>2, <1>3, <1>4, <1>5, <1>6

(* A message meets its fate, whether it has reached the broker or not.     *)
LEMMA ArriveFresh ==
  ASSUME ClickInv, NEW m \in outq, Arrive(m) \/ log' = log
  PROVE  /\ log' \subseteq Request
         /\ \A r \in Request : <<"analyse", r>> \notin outq /\ r \notin log => r \notin log'
<1>1. m \in Message /\ log \subseteq Request
  BY DEF ClickInv, TypeOK
<1>2. PICK t \in Topic, q \in Request : m = <<t, q>>
  BY <1>1 DEF Message
<1>3. m[1] = t /\ m[2] = q
  BY <1>2
<1>4. log' = log \/ (m = <<"analyse", q>> /\ log' = log \cup {q})
  BY <1>2, <1>3 DEF Arrive
<1>5. QED BY <1>1, <1>2, <1>4

(* A message that is settled, arrived or not, becomes a report and no      *)
(* more.                                                                   *)
LEMMA SettleKeeps ==
  ASSUME ClickInv, NEW m \in Message, NEW ok \in BOOLEAN, Settle(m, ok),
         Arrive(m) \/ log' = log
  PROVE  ClickInv'
<1> DEFINE rep == [msg |-> m, ok |-> ok]
<1> USE DEF ClickInv, Settle, redis
<1>a. m \in outq
  OBVIOUS
<1>b. /\ log' \subseteq Request
      /\ \A r \in Request : <<"analyse", r>> \notin outq /\ r \notin log => r \notin log'
  BY <1>a, ArriveFresh
<1>c. rep \in Report /\ rep.msg = m
  BY DEF Report
<1>d. outq' = outq \ {m} /\ reports' = reports \cup {rep}
  OBVIOUS
<1> HIDE DEF rep
<1>1. TypeOK'
  BY <1>b, <1>c, <1>d DEF TypeOK
<1>2. Unheard'
  BY <1>b DEF TypeOK, Unheard, Unknown
<1>3. Listening'
  BY DEF Listening, Hears
<1>4. Judged'
  BY DEF Judged, GoesByVerdict, Passes
<1>5. Freed'
  BY DEF Freed, Frees
<1>6. Accounted'
  <2>1. ASSUME NEW n \in produced
        PROVE  n \in outq' \/ \E x \in reports' \cup heard : x.msg = n
    <3>1. CASE n = m
      BY <1>c, <1>d, <3>1
    <3>2. CASE n # m /\ n \in outq
      BY <1>d, <3>2
    <3>3. CASE n \notin outq
      <4>1. PICK x \in reports \cup heard : x.msg = n
        BY <3>3, <2>1 DEF Accounted
      <4>2. x \in reports' \cup heard
        BY <1>d, <4>1
      <4>3. QED BY <4>1, <4>2
    <3>4. QED BY <3>1, <3>2, <3>3
  <2>2. "producer" \in rk /\ child # "stopped"
    BY <1>a DEF Accounted
  <2>3. QED BY <2>1, <2>2 DEF Accounted
<1>7. QED BY <1>1, <1>2, <1>3, <1>4, <1>5, <1>6

(* A lost acknowledgement.                                                 *)
LEMMA AckLostKeeps ==
  ASSUME ClickInv, NEW m \in Message, AckLost(m)
  PROVE  ClickInv'
<1> USE DEF ClickInv, AckLost, kafka, redis
<1>b. /\ log' \subseteq Request
      /\ \A r \in Request : <<"analyse", r>> \notin outq /\ r \notin log => r \notin log'
  BY ArriveFresh
<1>1. TypeOK'
  BY <1>b DEF TypeOK
<1>2. Unheard'
  BY <1>b DEF TypeOK, Unheard, Unknown
<1>3. Listening'
  BY DEF Listening, Hears
<1>4. Judged'
  BY DEF Judged, GoesByVerdict, Passes
<1>5. Freed'
  BY DEF Freed, Frees
<1>6. Accounted'
  BY DEF Accounted
<1>7. QED BY <1>1, <1>2, <1>3, <1>4, <1>5, <1>6

(* The child begins to end, and has produced nothing if it has no producer. *)
LEMMA CleanupKeeps ==
  ASSUME ClickInv, kafka_cleanup
  PROVE  ClickInv'
<1> USE DEF ClickInv, kafka_cleanup, rd_kafka_poll, redis, engine
<1>1. TypeOK'
  BY DEF TypeOK
<1>2. Unheard'
  BY DEF Unheard, Unknown
<1>3. Listening'
  BY DEF Listening, Hears
<1>4. Judged'
  BY DEF Judged, GoesByVerdict, Passes
<1>5. Freed'
  BY DEF Freed, Frees
<1>6. Accounted'
  BY DEF TypeOK, Accounted
<1>7. QED BY <1>1, <1>2, <1>3, <1>4, <1>5, <1>6

(* The child goes without a cleanup.                                       *)
LEMMA CleanupFailsKeeps ==
  ASSUME ClickInv, CleanupFails
  PROVE  ClickInv'
<1> USE DEF ClickInv, CleanupFails, kafka, redis, engine
<1>1. TypeOK'
  BY DEF TypeOK
<1>2. Unheard'
  BY DEF Unheard, Unknown
<1>3. Listening'
  BY DEF Listening, Hears
<1>4. Judged'
  BY DEF Judged, GoesByVerdict, Passes
<1>5. Freed'
  BY DEF Freed, Frees
<1>6. Accounted'
  BY DEF TypeOK, Accounted
<1>7. QED BY <1>1, <1>2, <1>3, <1>4, <1>5, <1>6

(* It polls until nothing is left.                                         *)
LEMMA DrainKeeps ==
  ASSUME ClickInv, Drain
  PROVE  ClickInv'
<1> USE DEF ClickInv, Drain, rd_kafka_poll, redis, engine
<1>1. TypeOK'
  BY DEF TypeOK
<1>2. Unheard'
  BY DEF Unheard, Unknown
<1>3. Listening'
  BY DEF Listening, Hears
<1>4. Judged'
  BY DEF Judged, GoesByVerdict, Passes
<1>5. Freed'
  BY DEF Freed, Frees
<1>6. Accounted'
  BY DEF TypeOK, Accounted
<1>7. QED BY <1>1, <1>2, <1>3, <1>4, <1>5, <1>6

(* Then it ends.                                                           *)
LEMMA DestroyKeeps ==
  ASSUME ClickInv, rd_kafka_destroy
  PROVE  ClickInv'
<1> USE DEF ClickInv, rd_kafka_destroy, redis, engine
<1>1. TypeOK'
  BY DEF TypeOK
<1>2. Unheard'
  BY DEF Unheard, Unknown
<1>3. Listening'
  BY DEF Listening, Hears
<1>4. Judged'
  BY DEF Judged, GoesByVerdict, Passes
<1>5. Freed'
  BY DEF Freed, Frees
<1>6. Accounted'
  BY DEF TypeOK, Accounted
<1>7. QED BY <1>1, <1>2, <1>3, <1>4, <1>5, <1>6

-----------------------------------------------------------------------------
(* Every step keeps the invariant.                                         *)
LEMMA ClickStep == ClickInv /\ [Next]_vars => ClickInv'
<1> SUFFICES ASSUME ClickInv, [Next]_vars PROVE ClickInv'
  OBVIOUS
<1>1. ASSUME NEW r \in Request,
             \/ extract_click_to_kafka(r) \/ Step(r) \/ Rate(r)
             \/ LockFails(r) \/ RelockFails(r)
      PROVE  ClickInv'
  BY <1>1, BeginKeeps, ConnectFailsKeeps, SubscribeKeeps, UncriticalKeeps, ConnectKeeps,
     QueueKeeps, PollKeeps, ResultKeeps, WaitFailsKeeps, RelockKeeps, CallbackKeeps,
     RateKeeps, LockFailsKeeps, RelockFailsKeeps DEF Step
<1>2. ASSUME NEW m \in Message, Deliver(m) \/ GiveUp(m) \/ AckLost(m)
      PROVE  ClickInv'
  BY <1>2, SettleKeeps, AckLostKeeps DEF Deliver, GiveUp
<1>3. CASE kafka_cleanup \/ CleanupFails \/ Drain \/ rd_kafka_destroy
  BY <1>3, CleanupKeeps, CleanupFailsKeeps, DrainKeeps, DestroyKeeps
<1>4. CASE UNCHANGED vars
  <2> USE <1>4 DEF vars, kafka, redis, engine
  <2>1. TypeOK' /\ Unheard' /\ Listening'
    BY DEF ClickInv, TypeOK, Unheard, Unknown, Listening, Hears
  <2>2. Judged' /\ Freed' /\ Accounted'
    BY DEF ClickInv, Judged, GoesByVerdict, Passes, Freed, Frees, Accounted
  <2>3. QED BY <2>1, <2>2 DEF ClickInv
<1>5. QED BY <1>1, <1>2, <1>3, <1>4 DEF Next

(* The invariant holds in every behaviour.                                 *)
LEMMA ClickAlways == Spec => []ClickInv
<1>1. QED BY ClickInit, ClickStep, PTL DEF Spec

(* What it is for.                                                         *)
LEMMA InvRated == ClickInv => RatedOrRefused
<1> SUFFICES ASSUME ClickInv, NEW r \in Request, critical[r],
                    pc[r] \in {"backend", "done"} \/ topic[r] = "usermapping"
             PROVE  /\ rated[r] # <<>>
                    /\ \/ rated[r][1] = "OK"
                       \/ rated[r][1] = "SUSPICIOUS" /\ AuthStrength[r] = 2
  BY DEF RatedOrRefused
<1>1. Passes(r)
  BY DEF ClickInv, Judged, GoesByVerdict
<1>2. verdict[r] \in Verdict
  BY <1>1 DEF Passes, Verdict
<1>3. rated[r] # <<>> /\ verdict[r] = rated[r][1]
  BY <1>2 DEF ClickInv, Listening, Hears
<1>4. QED BY <1>1, <1>3 DEF Passes

(* It says what the three properties say.                                  *)
LEMMA InvHears == ClickInv => NoVerdictMissed
  BY DEF ClickInv, TypeOK, Topic, Listening, Hears, Judged, GoesByVerdict, NoVerdictMissed

(* So it does of the connections.                                          *)
LEMMA InvFreed == ClickInv => ConnectionsFreed
  BY DEF ClickInv, Freed, Frees, ConnectionsFreed

(* So it does of the messages and the cleanup.                             *)
LEMMA InvCleanup == ClickInv => CleanupHearsAll
  BY DEF ClickInv, Accounted, CleanupHearsAll

(* The types of ClickRating are kept, whatever the queue, the broker and   *)
(* the engine do.                                                          *)
THEOREM ClickTypesCorrect == Spec => []TypeOK
<1>1. ClickInv => TypeOK
  BY DEF ClickInv
<1>2. QED BY <1>1, ClickAlways, PTL

(* mod_mshield.c and mod_mshield_kafka.c let a critical click on only by   *)
(* the first verdict on it, when messages are lost, repeated or late.      *)
THEOREM RatingCorrect == Spec => []RatedOrRefused
<1>1. QED BY ClickAlways, InvRated, PTL

(* extract_click_to_kafka subscribes before it produces, so that a waiting *)
(* subscriber has heard every verdict.                                     *)
THEOREM SubscriptionCorrect == Spec => []NoVerdictMissed
<1>1. QED BY ClickAlways, InvHears, PTL

(* The Redis connection is freed on every path of extract_click_to_kafka   *)
(* but two, an I/O error of the wait and a lock that fails after it.       *)
THEOREM ConnectionsCorrect == Spec => []ConnectionsFreed
<1>1. QED BY ClickAlways, InvFreed, PTL

(* Once it has the mutex kafka_cleanup ends when each message produced has *)
(* had its report.                                                         *)
THEOREM CleanupCorrect == Spec => []CleanupHearsAll
<1>1. QED BY ClickAlways, InvCleanup, PTL

=============================================================================
