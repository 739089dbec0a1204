# mod_mshield in TLA+

mod_mshield is an Apache module for a reverse proxy. It keeps the sessions of
browsers and the cookies of the backends in shared memory, lets a request
through to a backend only with a session that may go there, and, with fraud
detection, reports each click to Kafka and waits for the verdict of an engine,
which comes back over Redis, before it lets a critical click through.

This directory models that system in TLA+, checks the models with TLC and
proves theorems about them with TLAPS. `PROJECT.json` lists the runs, the lines
of code behind each definition, the findings, the hazards and the theorems.

## The system

| component | state | operations | what makes it correct |
|---|---|---|---|
| shared memory, `mod_mshield_shm.c` | 100 session slots, 200 cookie slots, each cookie with `next`/`prev` | create, free, time out a session; find, add, update, delete, free cookies | the cookie slots are disjoint lists, one per session; nothing leaks; walks end |
| session API, `mod_mshield_session.c` | `session_t`: a handle and a pointer to the slot | create, find, open, validate, unlink, set_cookie, renew | a handle names the session it was made for; ids are unique; a renewal keeps the hard timeout, and the content but for two named losses |
| hooks, `mod_mshield.c` | giant mutex; `r->notes` of a request | access checker (in), output filter (out) | the store is written under the mutex only; every path unlocks; a request uses its own session |
| response filter, `mod_mshield_response_filter.c` | fields of the session | store cookies, `LOGON=ok`, user name, step-up results | only an authorized logon URL logs a session on, and its id changes then |
| clicks, `mod_mshield_kafka.c`, `mod_mshield_redis.c` | one subscription per critical click | produce, wait, carry out the verdict | no critical click passes without a verdict; a fraud ends its session |
| Kafka producer, `mod_mshield_kafka.c` | producer and topics of a child process | connect, produce, poll | a click counts as sent only when it was |
| access control, `mod_mshield_access_control.c` | none | compares session and location | a protected page is served only with the rights it needs |
| redirections and cookie test, `mod_mshield_redirect.c` | a counter in the URL | next try, error page | the test ends, and takes few slots |
| directives, `mod_mshield_config.c` | server and directory configuration | one per directive | nothing a hook needs is missing; a setting is what the file says |

Apache's workers (processes, or threads of them) run the hooks concurrently.
They meet in the shared memory, under one global mutex, and in three gaps where
no mutex is held: between the two hooks of a request, while the backend works;
while a critical click waits for its verdict; and in the carrying out of a
FRAUD verdict, which frees a slot without the mutex. Time passes in all of them:
slots are reused as soon as their session has timed out. Nothing is persisted,
so there is no recovery from a crash to model.

## The modules

`ShmStore` has no variables. It declares the constants, the two kinds of slot
and the functions of `mod_mshield_shm.c` as operators on the two arrays, with
the names they have in the code. A loop along `next` visits the set
`Chain(ck, anchor)`, the least set with the anchor that is closed under `next`;
written so, it can be reasoned about without recursion. A slot cleared by
`memset` has `cookiestore_index` 0, not -1, as in the code, and this matters.
`Chain` is written as the slots that no closed set of the others can do without, so
that TLC finds it without searching all sets for the least one. `Cut[name]` is what
the `name` field of a cookie keeps of a name (mod_mshield_shm.c:322); the look-up
(:250) compares all of the name it is given. So a cookie whose name was cut is never
found again: it is stored anew each time it is set, and no deletion finds it. `Exact`
are the stored names that a look-up can find.
`SharedMemory` adds the variables: the two arrays and the clock, which
`SessionStore` and `MShield` both extend, each with its own processes.

`SessionStore` is the session API under the mutex, one atomic action per
operation, and one per branch where an operation has several. `ret` is the
status and handle of the last operation. `now` is the clock in seconds; it moves
between operations, so a session may have timed out when it is renewed.
`logon_state` stands for all fields that only a renewal copies as they are;
`username` is kept apart because a renewal does not copy it.

`SessionMap` says what the store promises, without slots: a map from UUIDs to
sessions, each with a jar of cookies, with room for so many of each, and what may
happen to it when an operation returns a status (`Returning`). `StoreMap` is the
refinement mapping: a used slot is a session under its UUID, and the cookies in its
chain are its jar, a function from places to values, with `NoCookie` where there is
none. The `Place` of a cookie is its name and location; one whose name was cut has a
place of its own, as nothing finds it by its name. `SessionStoreRefinement` states with it that `SessionStore`
implements `SessionMap` (`ImplementsMap`: each step is an operation that returns the
status the code does), and `MShieldRefinement` that the concurrent hooks do
(`HooksImplementMap`: each step that writes the store is one operation).

The map's `Renew` is what the comment of the code promises (mod_mshield_session.c:208-212):
the session goes on under a new id with all it had. The code keeps that promise but
for two cases, which `StoreMap` names and the refinement allows, of a renewal and of
nothing else (`RenewFallsShort`): the user name is not copied (`RenewForgetsName`), and
a session that has timed out since it was opened may find its own slot to reuse,
which the renewal then clears as the old one, with STATUS_OK (`RenewLosesSession`).
The run `RenewalForgets` checks the promise itself, and it is violated. Which user
a session has is in `SessionStore` alone; in `MShield` a name is never set.

| `SessionMap` | `SessionStore` | `MShield` |
|---|---|---|
| `Create` | `CreateIn` | `CreateSession` |
| `Full` | `CreateFull`, `RenewFull` | none: a hook that finds no slot leaves the store alone |
| `Unlink` | `mshield_session_unlink` | `DestroySession` |
| `Validate`, `Drop` | `ValidateOk`, `ValidateExpired` | `mshield_session_validate` |
| `SetCookie`, `NoRoom` | `mshield_session_set_cookie` | `FilterCookie` |
| `Renew`, or `RenewFallsShort` | `RenewInto` | `mshield_session_renew` |
| `Logon` | `LogonOk`, `SetUsername` | `FilterLogon` |
| `Tick` | `Tick` | `Tick` |

`MShield` puts `ShmStore` under the two hooks of several workers. Each worker
has a place `pc` (`Locked` are the places where it holds the mutex) and a
request `req` (the slot number of its `session_t` and of `r->notes`, what the
filter has seen, the verdict). One action is one call of the session API, or one
verdict, cookie header or way out of a hook:

| place | code | next |
|---|---|---|
| idle | `AccessChecker`: lock, mod_mshield.c:235 | lookup |
| lookup | `CreateSession`, `FreeUrl`, `mshield_session_find` | idle, validate |
| validate | `mshield_session_validate` | idle, click |
| click | `UncriticalClick`, `ClickFails`, `CriticalClick` (unlocks) | authorize, idle, waiting |
| waiting | `handle_mshield_result`, `WaitFails` | relock |
| relock | `Relock`, `RelockFails` | authorize, idle |
| authorize | `DestroySession`, `Redirect`, `Proceed` (unlocks) | idle, backend |
| backend | `OutputFilter`: lock, open | filter, idle |
| filter | `FilterCookie`, `FilterLogon`, `FilterDone`, `mshield_session_renew` | filter, idle |
| looping | a loop along a ring of cookies (`LoopForever`) | none |

The next three modules look at the system from other sides.

`LogonFlow` is about URLs and rights: a browser with several tabs that share a
cookie, the access checker's redirections, the logon servers, and what the output
filter does with `LOGON=ok` and the command cookies after it. A hook is one step,
as the mutex makes it. A tab is at a page, has `sent` a request, or waits for the
`backend`; `req` is its request, with the session cookie the browser had when it
sent it. `mshield_access_checker` is a disjunction of the returns of the function in
their order (`RenewRequest` to `Proceed`), and `mshield_output_filter` of those of
the filter. Three history fields in a session say what a logon server has vouched
for (`proved`), that `LOGON=ok` was taken under the present id (`raised`), and that
the filter ended that response with an error before the renewal (`stuck`): a later
header was in error or the renewal was (`FilterFails`, a 500), or the store had no room
(`FilterStoreFull`). An error after the renewal leaves the browser with an id that is
gone (`RenewalUntold`), and any hook may end with a 500 that changes nothing
(`HookFails`). A negative counter of the cookie test is a 500 that carries the cookie
of the session set up just before (`CookieTestError`). What is abstracted:

- A session is named by its id. (That its slot may be another session's by the time
  the filter opens it is the subject of `MShield`.) A timeout takes the session away.
- Other clients are there only in that the store may be full at any time; a
  session the browser cannot name any more is one of theirs.
- A regular expression is the set of URLs it matches. `config.required` is the
  strength of a location, -1 where no logon is required or the access control
  exempts the URL. `LogonServer[0]` stands for a location's own logon server too.
- `Honest` is the assumption on the servers outside: a logon server says `LOGON=ok`
  only to a user who has shown it credentials, and claims no strength but that of
  these, 0, or one out of range. Any other backend may send anything.
- A cookie reaches the browser with its response. The answer of a backend is a page,
  also where it is a redirection of its own; so is a 500. Errors of the configuration,
  of memory and of regular expressions are the free choices above; a lack of memory
  between two writes of one hook is left out.

`ClickRating` is the way of a click to the engine and of its verdict back: the
child process with its producer, librdkafka's queue (`outq`) and the delivery
reports nobody has polled yet (`reports`), the broker (`log`), the engine, and a
Redis connection with its channel per critical click.

| place | code | next |
|---|---|---|
| idle | `extract_click_to_kafka`: risk level; `LockFails` | click, failed |
| click | `ConnectFails`, `Subscribe`, `UncriticalClick` | refused, produce |
| produce | `kafka_topic_connect_producer` (fails), `rd_kafka_produce` | refused, poll |
| poll | `kafka_produce`: the loop | refused, waiting, backend, done |
| waiting (no mutex) | `handle_mshield_result`, `WaitFails` | relock |
| relock | `Relock`; `RelockFails` | backend, refused; failed |
| backend | the output filter, which may produce the user name; `LockFails` | produce, done; failed |

`kafka_cleanup`, `Drain` and `rd_kafka_destroy` are the end of the child, or
`CleanupFails`, where it cannot lock the mutex and goes at once. At `failed` a request
has been answered with a 500 for want of the mutex. Messages
may be delivered, given up though they arrived, or sent twice; the engine may rate
a click again. A request is told apart by its click alone: the session is valid,
and its `auth_strength` given. `redisConnectWithTimeout` returning NULL is left out,
and `extract_url_to_kafka`, which nothing calls any more. A payload that is none of
the three verdicts (mod_mshield_redis.c:100) makes the loop wait anew with a fresh
timeout and is no step; an endless stream of them would keep a request waiting.

`Directives` is the reading of httpd.conf: `conf[s]` are the settings of server `s`,
each "null" (zeroed memory), "default" or what the file says, and `file` is the
history of the directives. Handlers that only store their argument are one action
with the field as a parameter. Texts are abstract; a threshold is a text too, as
one out of range is logged and set all the same. `Conf(s)` is what a hook gets:
there is no merge function, so a virtual host with a directive of its own has
nothing of the main server's. `InForce` says what `SETTINGS.md` and the help texts of
the directives do: a setting is what the last directive that sets it says
(`LastWord`), where `MOD_MSHIELD_ENABLED On` and
`MOD_MSHIELD_FRAUD_DETECTION_ENABLED On` set defaults, a fraud setting counts where
detection is on, and On and Off switch fraud detection, learning mode and the service
list on and off (`FraudOnAt`, `LastSaysOn`). Three handlers ignore an Off, against
`SETTINGS.md`:33, 44 and 45 and mod_mshield_config.c:525-526 ("Enable or disable"). That
is the one named exception (`SwitchedOff`): a switch that the file turns off after it
was on, and what hangs on it, are not as documented. Everything else is.

The MC modules give TLC the symmetry sets and the values of the constants. The
modules with `Proofs` in their names hold the proofs: `ShmStoreProofs` the lemmas on
the operators of the store, `StoreMapProofs` those on the map of the sessions,
`SessionStoreProofs` what they make of the session API, `MShieldProofs` the mutex and
`MShieldStoreProofs` the store and its map under the hooks; `LogonFlowProofs`, `ClickRatingProofs`
and `DirectivesProofs` go with their modules.

## The runs

Passing runs:

| run | asks | instance |
|---|---|---|
| `Store` | do the chains survive every order of operations, and is the store a map of sessions with jars? | 2 sessions, 3 cookie slots, a name that fits and one that is cut, 1 user, timeouts 1 and 0, clock to 1 |
| `Hooks` | is the store safe, and a map still, do the walks along it end, and is the mutex given back, without fraud detection? | 2 workers, 2 sessions, 1 cookie slot, a name that fits and one that is cut, 1 header a response |
| `FraudGate` | does a critical click need its verdict? | 2 workers, 1 session, 2 cookies |
| `LogonFlow` | do rights come from logon servers alone, and requests to an end? | 1 tab, 4 ids, 8 URLs, 2 configurations, 1 timeout |
| `ClickRating` | does a click get through only by its own verdict, and does everyone let go of what they hold? | 2 requests, queue of 1, timeout of 1, 2 ratings |
| `Directives` | what does a configuration file come to? | 2 servers, 4 directives |

The bounds are where the cases are. Two sessions are the fewest that can share
a chain or evict each other, and let a renewal go to another slot or to its
own. Three cookie slots give a chain with a head, a middle and an end, a full
store, and the reuse of a deleted slot as a new head. `MAX_TIME` lets every
session time out by inactivity; the hard timeout is one more disjunct of
`mshield_shm_timeout`, and a theorem has the timeouts for every value.
`MAX_SETCOOKIES` bounds the headers of one response. Ids and UUIDs are drawn fresh; the few values of the instances
are enough because a value is fresh again when nothing remembers it.

`Hooks` has one cookie slot, so that the store of cookies runs full at once; longer
chains are the subject of `Store`, and each hook changes a chain only
through operations that are checked there. It uses no symmetry, as it checks liveness.

`LogonFlow` has one tab: a second one only adds timeouts and logouts at other times,
which `TimeOut` does too, and it can disturb the first without end, which no
server could prevent. (The theorems are for any number of tabs.) Its site has a
public page, one behind a logon, one behind a stronger logon, the logon pages and
the special URLs, with the renew URL as the page after a timeout, so that two
special URLs come in a row. The two configurations are a step-up with a fixed page
after the logon, and the return to the original URL without a step-up; that they
do not go together is what `StepUpLoops` shows. The history counter `made` counts the
sessions set up for a request in a row; it starts again when the request names a session,
for then the cookie test is over. `MAX_MADE` only stops it above what
`CookieTestBounded` allows. Four ids are
one for the browser's cookie, one each for a request on its way and the session
it is renewed to, and a fresh one.

`ClickRating` has a request that is critical by one of two entries and one that is
not, which may be in `kafka_produce` one after the other, so that reports get mixed
up; the queue has room for one message or report, so that it is full when an
earlier one is still there; a poll may take any time up to more than the timeout.
`Directives` has enough room for a setting before, between and after
the two directives that reset it.

`FraudGate` does not check deadlock: as `FraudLoops` shows, the system really
can stop. The runs that show a finding do not either when fraud detection is on.
`ClickRating` ends when the child has, and `Directives` with the file.

Runs that TLC finds violated, each for one statement of a comment or a doc:

| run | finding |
|---|---|
| `RenewalForgets` | a renewal "copies over session content", but not the user name |
| `FraudRenewed` | a session renewed during the wait outlives its FRAUD verdict |
| `FraudLoops` | a FRAUD verdict under a response being filtered makes a ring; the next lookup loops with the mutex held |
| `StaleNotes` | the output filter uses the session that has the slot by then |
| `StepUpLoops` | with the return to the original URL, a step-up redirects the logon page back to the page that needs it |
| `KafkaForeignReport` | `kafka_produce` takes any delivery report for that of its message, a failed one too |

In `FraudLoops` the FRAUD verdict writes the store while its worker does not hold
the mutex. In `MShield` locking may fail in `FraudGate` alone (`LOCK_MAY_FAIL`), where a
critical request must not slip through even if the mutex cannot be taken again; in
`ClickRating` it may fail always: the request is answered with a 500 and keeps its
Redis connection (`RelockFails`), and the child goes without its cleanup
(`CleanupFails`), so that `ConnectionsFreed` and `CleanupHearsAll` say what the code
does but for these. That the mutex
excludes across the wait for a verdict, no run checks but a theorem says
(`ExclusionCorrect`).

More that the models show has no run of its own. A name that is cut fills the cookie
store, a slot each time it is set (`OneCookiePerKey` is of the names that fit). A renewal
of a session that timed out between the hooks may lose it, with STATUS_OK
(`RenewLosesSession`). Three directives cannot be switched off (`SwitchedOff`). And with
fraud detection `ServesOwnSession` fails: after the wait a request goes on with
whatever session its slot holds by then.

### Fairness

`FairSpec` says that a worker that can take a step of its own (`Step`) takes one
in the end. A hook does not block except for the mutex and, up to its timeout,
for Redis, so the operating system's scheduling is enough for that. Nothing is
assumed of new requests, the clock, the backend, or of who gets the mutex next. That
locking fails, or a hook ends with an error, is never assumed either.
`MutexReleased` needs no more.

`LogonFlow` assumes in the same way that the hooks run and that a backend answers
(else Apache's own timeout answers for it), and that a browser follows a redirection,
which is a request like any other. Nothing is assumed of the user or of timeouts.
In `ClickRating` the requests and the steps of the cleanup run. That librdkafka
settles a message in the end, by its `message.timeout.ms`, is assumed only while the
child drains its queue; `ClicksAnswered`, and `MutexReleased` for a request, hold
without, by the two timeouts of the code. The engine need not answer.

## The proofs

### The store, for every number of slots and all data

From the named assumptions of `ShmStore` and `SessionStore` on their constants:

- `TypeCorrect`, `ChainsCorrect`, `OwnershipCorrect`, `WalksEnd`, `OneCookieCorrect`:
  `SessionStore` always satisfies `TypeOK`, `ChainInv`, `CookieOwnership`,
  `ChainsEnd` and, for names that fit, `OneCookiePerKey`.
- `DistinctCorrect`, `HardTimeoutCorrect`: `SessionsDistinct` and
  `HardTimeoutKept`.
- `ImplementsMapCorrect`: `SessionStore` implements `SessionMap` (`ImplementsMap`),
  with the status that each operation returns, but for the two renewals that fall
  short of the map's, which only `mshield_session_renew` makes.

The inductive invariant of the first four is `StoreInv`: types, `WellLinked` and
`SessionsNamed`. `CookieOwnership` alone is not inductive: it says which slots
are in a chain, while a deletion follows `prev` and an addition relies on a free
slot's `prev` being -1. `WellLinked` has the four facts the code relies on: `next`
and `prev` are inverse to each other; free slots are clear; the heads are
exactly the anchors of used sessions, one each; and no set of used slots is
closed under either link (`NoRing`), which excludes a ring without counting
along it. `ShmStoreProofs` has a lemma per operator that keeps `WellLinked`
(`FreeKeepsStore`, `DeleteKeepsStore`, `AddKeepsStore`, `RenewKeepsStore`, ...),
then derives that chains partition the used slots (`JarsPartition`) and end
(`WalkEnds`). `SessionStoreProofs` has one step per action on top of them.
`SessionsDistinct` and `HardTimeoutKept` come from one lemma, `StepEffect`: a
step keeps all sessions it leaves, sets one up, or moves one.

`OneCookiePerKey` needs to know what is in a chain after a step, and a chain is a
least set. The jar lemmas of `ShmStoreProofs` say it operator by operator: an
addition puts the new slot into one jar, a deletion takes one out, and all other
jars are the sets they were. `KeysInv` (no two cookies of a jar have the same key,
if a look-up can find it) then survives because the code looks for a cookie in the whole chain before it
adds one.

The refinement is proved in `StoreMapProofs`, for whoever writes the store: from
`MapOK` (well linked, with keys and UUIDs kept apart) each way to write slots and
links is an operation of the map (`CreateMaps`, `AddedMaps`, `RenewMaps`, ...).
`LiveAt` and `LiveIs` say when the map of a store is a given map, and lemmas on jars
what the operators make of `JarMap`. Two kinds of steps take more: the store is full
exactly when the map is (the used slots and the map's domain have one cardinality,
by the bijection between them, and so have the used cookie slots and the places with a
cookie: that a cut name has a place per slot is needed here), and a slot is evicted only if its session has expired in the map, which has
the same clock. `SessionStoreProofs` has then to say of each action which of these it
is, and that it returns the status of that operation.

### The hooks, for any number of workers

- `FlowTypesCorrect` (`TypeOK`) and `GateCorrect` (`CriticalNeedsVerdict`): with and
  without fraud detection, and also if locking fails. `RequestOK` says what a worker
  may know of its request at each place; that a request is critical only once it
  waits, and at `authorize` only with a verdict that lets it pass, is inductive.
- `ExclusionCorrect`: if `~ LOCK_MAY_FAIL`, `MutualExclusion`, with and without
  fraud detection. The assumption is needed: the error path after the wait
  unlocks a mutex its worker does not hold.
- If moreover `~ FRAUD_DETECTION`: `DisciplineCorrect` (`MutexDiscipline`),
  `StoreIntactCorrect` (`StoreIntact`), `ServesOwnCorrect` (`ServesOwnSession`) and
  `HookWalksEndCorrect` (`HookWalksEnd`). They need both assumptions: a FRAUD verdict
  frees a slot without the mutex (`FraudLoops` has the ring that comes of it), after
  the wait for any verdict the slot may be another session's, and after a failed
  lock the error path unlocks the mutex of another worker. Fraud detection is off by
  default (`SETTINGS.md`).
- From the same two assumptions, `HooksImplementMapCorrect` (`HooksImplementMap`): the
  hooks of any number of workers, interleaved as they may be, implement `SessionMap`, with the same two exceptions for a renewal.

`MutualExclusion` is not inductive: a worker that unlocks must be the one that
holds the mutex. `LockInv` says that a worker is at a locked place exactly when it
is the holder, and `NoWaitInv` that without fraud detection none gets to the wait.
`StepMoves` brings every action down to five kinds of moves, which keep both.

The store under the hooks is kept by `ServeInv`: `FlowInv`, `LockInv`, `NoWaitInv`,
`Intact` (well linked, free slots clear, sessions named) and, of every worker, `Holds`:
between the look-up and the unlock its slot is in use and still has the session it
found. `StepStore` brings what an action writes down to six writes (`Writes`), all of
them those of `ShmStore`; `WritesKeepIntact` says that a write through a slot in use keeps
`Intact`; and `StepHolds` that the step of one worker takes nothing from
another, since only the holder of the mutex writes and no other is then at such a
place. `HookWalksEnd` follows, as a chain that is well linked has a last cookie.

For the map, `MapInv` adds to `ServeInv` that keys and UUIDs are kept apart.
`StepInUse` sharpens `Writes`: a step leaves the store alone, sets a session up, or does
one operation through a slot that is in use (`Operates`), which `ServeInv` gives, as the
slot a worker writes through still has the session it found. `OperatesMaps` cites the lemma
of `StoreMapProofs` for each of them. That a request whose slot was freed or taken by
another session between the two hooks does an operation of that session, or none, is
allowed by the map; which session it should have been is the subject of `StaleNotes`.

### Logon, clicks and directives

In `LogonFlow`, for every site, configuration and number of tabs:
`LogonTypesCorrect` (`TypeOK`), `RightsCorrect` (`RightsProved`), `RenewalCorrect`
(`RightsRenewed`: an id is kept over a logon only where the filter failed before the
renewal) and `ProtectionCorrect` (`ProtectedPagesProved`). The first three are
inductive together; the lemmas say of `With`, `Without` and `Keep`, through
which all actions write the sessions, that they keep what holds of each session.
`ProtectionCorrect` is a step from `RightsProved`: what the access control compares is
then what was proved. `CookieTestCorrect` is `CookieTestBounded` in a configuration with
free error pages (`ErrorPagesFree`, which `SETTINGS.md` asks for and without which the
redirections go round). Its invariant is one for each kind of client. Of one that
refuses cookies a request is `Tested`: it has set up one session more than its counter
says at most, has set up none where it asks for a renewal, or has come to a free
page; and it has no session to open. Of one that takes them it is `Named`: it has set up
one at most, and names a session ever after, so that it never gets to the test again
before the counting has started anew.

In `ClickRating`, for any number of requests, entries, ratings and timeouts:
`ClickTypesCorrect` (`TypeOK`), `RatingCorrect` (`RatedOrRefused`),
`SubscriptionCorrect` (`NoVerdictMissed`), `ConnectionsCorrect` (`ConnectionsFreed`)
and `CleanupCorrect` (`CleanupHearsAll`). `ClickInv` strengthens them by what is
between: `Unheard` (before its message is produced nobody has rated a click),
`Listening` (a subscriber has heard all verdicts of its click, and the one it takes
is the first), `Judged` (a critical click goes on by its verdict, and only then
produces the user name), `Freed` (which connections may be open at which place: at the end after an I/O error
or a failed lock alone) and
`Accounted` (a message produced is in the queue, or its report is waiting or heard).

In `Directives`, for any servers, texts and length of the file: `ConfTypesCorrect`
(`TypeOK`), `CompleteCorrect` (`Complete`) and `InForceCorrect` (`InForce`). `Complete`
speaks of what a virtual host sees; inductive is `Settled` of each server by itself
(with the module on it has its general settings, with fraud detection on its fraud
settings), and what a virtual host sees are the settings of one server. `InForce`
relates the settings to what the documentation says of the history of the file, but
for what was switched off. Inductive is `ForceInv`, which speaks of the directives
that the handlers take (`Takes`, an Off not among them where the code ignores it):
each setting is that of the last directive taken (`AsRead`). Where nothing was
switched off the directives taken are those that the documentation lets count, from
which `InForce` follows. The one
assumption beyond the types is that a pattern is not the name of a field, which only
keeps two kinds of names apart in the model.

### What is only model-checked

- Liveness (`MutexReleased`, `RedirectsEnd`, `ClicksAnswered`), which with fairness is
  out of the prover's reach. `HookWalksEnd`, `ChainsEnd` and `CookieTestBounded` are
  the safety parts of it.
- The six properties that TLC finds violated.

No module uses recursion.

## What is not modelled

- The contents of URLs, names and values, and regular expressions: a cookie's
  key, a session id and the outcome of a match are chosen freely.
- A verdict carried out without the mutex interleaves with whole actions of the
  other workers; in the code it interleaves with parts of them.
- Reads of the output filter on a request without a session (free URLs).
- `session_name`: the servers of one configuration share it.
- Fraud detection in `LogonFlow`: what a verdict does to a session is in `MShield`,
  where the redirections are one action that leaves the store alone.
- The cleanup of a virtual host's producer: `kafka_child_init` registers that of the
  main server alone, and `ClickRating` has one producer.
- `extract_url_to_kafka`, which nothing calls.
- Request filter, attributes of the session cookie and regexps (stateless text),
  cJSON (vendored), the build and the example site.

## Plan

1. done: `ShmStore`, `SessionStore`, `SessionMap` and the refinement; `MShield`;
   `LogonFlow`, `ClickRating` and `Directives`.
2. done: the proofs of every safety property of the passing runs.
3. done: the proofs that the session API and, without fraud detection, the concurrent
   hooks implement `SessionMap`.
4. open: a map for `MShield` with fraud detection. A verdict that frees a slot under a hook
   takes cookies out of a session they do not belong to (`FraudLoops`), so that such a map
   would have to say what is lost, and the code promises nothing of it.
