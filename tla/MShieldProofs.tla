---------------------------- MODULE MShieldProofs ----------------------------
(***************************************************************************)
(* The giant mutex in MShield: it excludes, across the unlocked wait too,  *)
(* and without fraud detection the store is written under it only.         *)
(***************************************************************************)
EXTENDS MShield, TLAPS

(* A worker holds the mutex exactly at its locked places.                  *)
LockInv ==
  /\ pc \in [Worker -> PC]
  /\ req = [w \in Worker |-> req[w]]
  /\ \A w \in Worker : pc[w] \in Locked <=> mutex = w

(* Where a request for a critical URL waits without the mutex.             *)
Outside == {"waiting", "relock"}

(* Without fraud detection no worker gets to the wait.                     *)
NoWaitInv ==
  ~ FRAUD_DETECTION => \A w \in Worker : pc[w] \notin Outside

-----------------------------------------------------------------------------
(* Nobody holds the mutex at first.                                        *)
LEMMA LockInit == Init => LockInv /\ NoWaitInv
BY FlowAssumption DEF Init, LockInv, NoWaitInv, PC, Locked, Outside

(* What a step of one worker does to places, requests and the mutex: only  *)
(* its own change, and it takes, keeps or gives back the mutex as its      *)
(* place says; only fraud detection sends it to the wait.                  *)
Moves(w) ==
  \/ \E p \in Locked : mutex = Free /\ mutex' = w /\ Goto(w, p)
  \/ \E p \in PC \ Locked :
       /\ pc[w] \in Locked /\ mutex' = Free /\ Goto(w, p)
       /\ p \in Outside => FRAUD_DETECTION
  \/ \E p \in PC :
       /\ p \in Locked <=> pc[w] \in Locked
       /\ mutex' = mutex /\ Goto(w, p)
       /\ p \in Outside => pc[w] \in Outside
  \/ pc[w] \in {"relock", "backend"} /\ mutex = Free /\ mutex' = Free /\ Goto(w, "idle")
  \/ mutex' = mutex /\ pc' = pc

(* A move keeps both invariants.                                           *)
LEMMA MovesKeepLock ==
  ASSUME LockInv, NoWaitInv, NEW w \in Worker, Moves(w),
         req' = [v \in Worker |-> req'[v]]
  PROVE  LockInv' /\ NoWaitInv'
<1> USE FlowAssumption DEF LockInv, NoWaitInv, Goto
<1>1. CASE \E p \in Locked : mutex = Free /\ mutex' = w /\ Goto(w, p)
  BY <1>1 DEF PC, Locked, Outside
<1>2. CASE \E p \in PC \ Locked : /\ pc[w] \in Locked /\ mutex' = Free /\ Goto(w, p)
                                  /\ p \in Outside => FRAUD_DETECTION
  BY <1>2
<1>3. CASE \E p \in PC : /\ p \in Locked <=> pc[w] \in Locked
                         /\ mutex' = mutex /\ Goto(w, p)
                         /\ p \in Outside => pc[w] \in Outside
  BY <1>3
<1>4. CASE pc[w] \in {"relock", "backend"} /\ mutex = Free /\ mutex' = Free /\ Goto(w, "idle")
  BY <1>4 DEF PC, Locked, Outside
<1>5. CASE mutex' = mutex /\ pc' = pc
  BY <1>5
<1>6. QED BY <1>1, <1>2, <1>3, <1>4, <1>5 DEF Moves

(* Every step of a worker is a move of it, when locking does not fail.     *)
LEMMA StepMoves ==
  ASSUME ~ LOCK_MAY_FAIL, LockInv, NEW w \in Worker,
         Step(w) \/ AccessChecker(w) \/ Relock(w) \/ OutputFilter(w)
  PROVE  Moves(w) /\ \E x : req' = [req EXCEPT ![w] = x]
<1> DEFINE Local == \E x : req' = [req EXCEPT ![w] = x]
<1> USE DEF Acquire, Release, PC, Locked, Outside
<1>a. req' = req => Local
  <2>1. req = [req EXCEPT ![w] = req[w]]
    BY DEF LockInv
  <2>2. QED BY <2>1
<1>b. pc[w] \in Locked /\ Return(w) => Moves(w) /\ Local
  <2>1. pc[w] \in Locked /\ Return(w) => Local
    BY DEF Return
  <2>2. "idle" \in PC \ Locked /\ "idle" \notin Outside
    OBVIOUS
  <2>3. pc[w] \in Locked /\ Return(w) => Moves(w)
    BY <2>2, Zenon DEF Return, Moves
  <2>4. QED BY <2>1, <2>3
<1>c. ASSUME NEW p \in Locked, pc[w] \in Locked, Goto(w, p), mutex' = mutex
      PROVE  Moves(w)
  BY <1>c DEF Moves
<1>1. CASE \/ CreateSession(w) \/ FreeUrl(w) \/ ClickFails(w) \/ DestroySession(w)
           \/ Redirect(w) \/ FilterDone(w) \/ mshield_session_renew(w)
  <2>1. pc[w] \in Locked /\ Return(w)
    BY <1>1 DEF CreateSession, FreeUrl, ClickFails, DestroySession, Redirect,
                FilterDone, mshield_session_renew
  <2>2. QED BY <2>1, <1>b
<1>2. CASE mshield_session_find(w)
  <2>1. /\ pc[w] \in Locked
        /\ \/ Return(w)
           \/ Goto(w, "validate") /\ mutex' = mutex /\ Local
    BY <1>2, Zenon DEF mshield_session_find
  <2>2. QED BY <2>1, <1>b, <1>c
<1>3. CASE mshield_session_validate(w)
  <2>1. /\ pc[w] \in Locked
        /\ \/ Return(w)
           \/ Goto(w, "click") /\ mutex' = mutex /\ req' = req
    BY <1>3 DEF mshield_session_validate
  <2>2. QED BY <2>1, <1>a, <1>b, <1>c
<1>4. CASE UncriticalClick(w) \/ LoopForever(w)
  <2>1. /\ pc[w] \in Locked
        /\ Goto(w, "authorize") \/ Goto(w, "looping")
        /\ mutex' = mutex /\ req' = req
    BY <1>4 DEF UncriticalClick, LoopForever
  <2>2. QED BY <2>1, <1>a, <1>c
<1>5. CASE CriticalClick(w)
  BY <1>5 DEF CriticalClick, Moves
<1>6. CASE handle_mshield_result(w) \/ WaitFails(w)
  <2>1. pc[w] = "waiting" /\ Goto(w, "relock") /\ mutex' = mutex /\ Local
    BY <1>6 DEF handle_mshield_result, WaitFails
  <2>2. QED BY <2>1 DEF Moves
<1>7. CASE RelockFails(w)
  BY <1>7 DEF RelockFails
<1>8. CASE Proceed(w)
  <2>1. pc[w] \in Locked /\ mutex' = Free /\ Goto(w, "backend") /\ req' = req
    BY <1>8 DEF Proceed
  <2>2. QED BY <2>1, <1>a DEF Moves
<1>9. CASE FilterCookie(w)
  <2>1. pc[w] \in Locked /\ (Return(w) \/ CountHeader(w))
    BY <1>9 DEF FilterCookie, AddsCookie, FindsStoreFull, UpdatesCookie,
                DeletesCookie
  <2>2. CountHeader(w) => Moves(w) /\ Local
    BY DEF CountHeader, Moves
  <2>3. QED BY <2>1, <2>2, <1>b
<1>10. CASE FilterLogon(w)
  BY <1>10 DEF FilterLogon, Moves
<1>11. CASE AccessChecker(w)
  <2>1. Acquire(w, "lookup") /\ Local
    BY <1>11, Zenon DEF AccessChecker
  <2>2. QED BY <2>1 DEF Moves
<1>12. CASE Relock(w)
  <2>1. /\ pc[w] = "relock" /\ mutex = Free
        /\ \/ Acquire(w, "authorize") /\ req' = req
           \/ Return(w)
    BY <1>12 DEF Relock
  <2>2. QED BY <2>1, <1>a DEF Moves, Return
<1>13. CASE OutputFilter(w)
  <2>1. /\ pc[w] = "backend" /\ mutex = Free
        /\ \/ Acquire(w, "filter") /\ req' = req
           \/ Return(w)
    BY <1>13 DEF OutputFilter
  <2>2. QED BY <2>1, <1>a DEF Moves, Return
<1>14. QED
  BY <1>1, <1>2, <1>3, <1>4, <1>5, <1>6, <1>7, <1>8, <1>9, <1>10, <1>11, <1>12,
     <1>13, Zenon DEF Step

-----------------------------------------------------------------------------
(* A step of a worker leaves the places and requests of the others alone.  *)
LEMMA StepIsLocal ==
  ASSUME ~ LOCK_MAY_FAIL, LockInv, NEW w \in Worker,
         Step(w) \/ AccessChecker(w) \/ Relock(w) \/ OutputFilter(w)
  PROVE  /\ req' = [v \in Worker |-> req'[v]]
         /\ \A v \in Worker \ {w} : pc'[v] = pc[v] /\ req'[v] = req[v]
<1>1. /\ Moves(w)
      /\ \E x : req' = [req EXCEPT ![w] = x]
  BY StepMoves
<1>2. PICK x : req' = [req EXCEPT ![w] = x]
  BY <1>1
<1>3. req' = [v \in Worker |-> IF v = w THEN x ELSE req[v]]
  BY <1>2 DEF LockInv
<1>4. \A v \in Worker \ {w} : pc'[v] = pc[v]
  BY <1>1 DEF LockInv, Moves, Goto
<1>5. QED BY <1>3, <1>4

(* Both invariants are inductive when locking does not fail.               *)
LEMMA LockNext ==
  ASSUME ~ LOCK_MAY_FAIL, LockInv, NoWaitInv, [Next]_vars
  PROVE  LockInv' /\ NoWaitInv'
<1>1. CASE \E w \in Worker :
             Step(w) \/ AccessChecker(w) \/ Relock(w) \/ OutputFilter(w)
  <2>1. PICK w \in Worker :
               Step(w) \/ AccessChecker(w) \/ Relock(w) \/ OutputFilter(w)
    BY <1>1
  <2>2. Moves(w)
    BY <2>1, StepMoves
  <2>3. req' = [v \in Worker |-> req'[v]]
    BY <2>1, StepIsLocal
  <2>4. QED BY <2>2, <2>3, MovesKeepLock
<1>2. CASE Tick \/ UNCHANGED vars
  BY <1>2 DEF Tick, vars, LockInv, NoWaitInv
<1>3. QED BY <1>1, <1>2 DEF Next

(* Only a locked place writes the store, but for the verdict of the wait.  *)
LEMMA StepWrites ==
  ASSUME NEW w \in Worker, store' # store,
         Step(w) \/ AccessChecker(w) \/ Relock(w) \/ OutputFilter(w)
  PROVE  pc[w] \in Locked \cup Outside
<1> USE DEF Locked, Outside, store
<1>1. CASE \/ CreateSession(w) \/ mshield_session_validate(w)
           \/ handle_mshield_result(w) \/ DestroySession(w)
           \/ FilterCookie(w) \/ FilterLogon(w) \/ mshield_session_renew(w)
  BY <1>1 DEF CreateSession, mshield_session_validate, handle_mshield_result,
              DestroySession, FilterCookie, FilterLogon, mshield_session_renew
<1>2. CASE \/ FreeUrl(w) \/ mshield_session_find(w) \/ UncriticalClick(w)
           \/ ClickFails(w) \/ CriticalClick(w) \/ WaitFails(w)
           \/ RelockFails(w) \/ Redirect(w) \/ Proceed(w) \/ FilterDone(w)
           \/ LoopForever(w) \/ AccessChecker(w) \/ Relock(w) \/ OutputFilter(w)
  BY <1>2 DEF FreeUrl, mshield_session_find, UncriticalClick, ClickFails,
              CriticalClick, WaitFails, RelockFails, Redirect, Proceed, FilterDone,
              LoopForever, AccessChecker, Relock, OutputFilter
<1>3. QED BY <1>1, <1>2 DEF Step

-----------------------------------------------------------------------------
(* The giant mutex excludes, the release for the wait and the second lock  *)
(* included, if apr_global_mutex_lock returns no error.                    *)
THEOREM ExclusionCorrect ==
  ASSUME ~ LOCK_MAY_FAIL
  PROVE  Spec => []MutualExclusion
<1>1. Init => LockInv /\ NoWaitInv
  BY LockInit
<1>2. LockInv /\ NoWaitInv /\ [Next]_vars => LockInv' /\ NoWaitInv'
  BY LockNext
<1>3. LockInv => MutualExclusion
  BY DEF LockInv, MutualExclusion
<1>4. QED BY <1>1, <1>2, <1>3, PTL DEF Spec

(* Without fraud detection a worker whose step writes the store holds the  *)
(* mutex: no other path of the two hooks gets to the store without it.     *)
THEOREM DisciplineCorrect ==
  ASSUME ~ LOCK_MAY_FAIL, ~ FRAUD_DETECTION
  PROVE  Spec => MutexDiscipline
<1>1. Init => LockInv /\ NoWaitInv
  BY LockInit
<1>2. LockInv /\ NoWaitInv /\ [Next]_vars => LockInv' /\ NoWaitInv'
  BY LockNext
<1>3. ASSUME LockInv, NoWaitInv, [Next]_vars,
             NEW w \in Worker, store' # store, <<pc[w], req[w]>>' # <<pc[w], req[w]>>
      PROVE  mutex = w
  <2>1. CASE \E v \in Worker :
               Step(v) \/ AccessChecker(v) \/ Relock(v) \/ OutputFilter(v)
    <3>1. PICK v \in Worker :
                 Step(v) \/ AccessChecker(v) \/ Relock(v) \/ OutputFilter(v)
      BY <2>1
    <3>2. v = w
      BY <1>3, <3>1, StepIsLocal
    <3>3. pc[w] \in Locked
      BY <1>3, <3>1, <3>2, StepWrites DEF NoWaitInv
    <3>4. QED BY <1>3, <3>3 DEF LockInv
  <2>2. CASE Tick \/ UNCHANGED vars
    BY <1>3, <2>2 DEF Tick, vars, store
  <2>3. QED BY <1>3, <2>1, <2>2 DEF Next
<1>4. LockInv /\ NoWaitInv /\ [Next]_vars
        => [\A w \in Worker :
              store' # store /\ <<pc[w], req[w]>>' # <<pc[w], req[w]>> => mutex = w]_vars
  BY <1>3
<1>5. QED BY <1>1, <1>2, <1>4, PTL DEF Spec, MutexDiscipline
=============================================================================
