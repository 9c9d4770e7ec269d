------------------------- MODULE ToolWorkerTheorems -------------------------
(***************************************************************************)
(* What holds of every run of ToolWorker, for every number of calls,       *)
(* slots, keys and tokens, and every set of exchanges.                     *)
(*                                                                         *)
(* The inductive invariant is built in three layers: Typed and Keyed (which *)
(* key names which claim), Staged (which goroutine owns which call), and    *)
(* Counted (the two counters, sem and wg, against the sets they count).     *)
(***************************************************************************)
EXTENDS ToolWorkerProperties, FiniteSetTheorems, TLAPS

(***************************************************************************)
(* TypeOK without the ranges of the two counters, which need the other     *)
(* layers, and with a token once the worker has registered.                *)
(***************************************************************************)
Typed ==
  /\ pc \in {"idle", "registering", "loop", "acquired", "claiming", "sleep",
             "deliver", "stopping", "returned"}
  /\ ctxDone \in BOOLEAN
  /\ runErr \in {"none", "nil", "error"}
  /\ sem \in Int
  /\ wg \in Int
  /\ token \in 0 .. MaxToken
  /\ pc \notin {"idle", "registering", "returned"} => token # 0
  /\ \A c \in Claims : call[c] # "none" => token # 0
  /\ attempt \in 0 .. MaxAttempts
  /\ claimKey \in Key \cup {NoKey}
  /\ hb \in {"off", "wait", "register", "heartbeat", "stopped"}
  /\ call \in [Claims -> {"none"} \cup Open \cup Closed]
  /\ handler \in [Claims -> {"none", "running", "sent", "exited"}]
  /\ deadline \in [Claims -> {"none", "early", "late", "expired", "unset"}]
  /\ octx \in [Claims -> {"none", "deadline", "background", "backgroundOver",
                          "run", "runOver"}]
  /\ tried \in [Claims -> BOOLEAN]
  /\ grant \in [Claims -> Key \cup {NoKey}]

(***************************************************************************)
(* A claim the worker has taken was granted under a key that is not the    *)
(* current one, and keys do not come back: their attempts only grow.       *)
(***************************************************************************)
Keyed ==
  /\ pc = "claiming" => claimKey # NoKey
  /\ claimKey # NoKey => claimKey.attempt = attempt
  /\ \A c \in Claims : grant[c].attempt <= attempt
  /\ \A c \in Claims : call[c] # "none" => grant[c] # NoKey /\ grant[c] # claimKey

-----------------------------------------------------------------------------
LEMMA TypedInit == Init => Typed
<1>. SUFFICES ASSUME Init PROVE Typed
  OBVIOUS
<1>1. 0 \in 0 .. MaxToken /\ 0 \in 0 .. MaxAttempts
  BY BoundsAssumption
<1>2. /\ call \in [Claims -> {"none"} \cup Open \cup Closed]
      /\ \A c \in Claims : call[c] = "none"
  BY DEF Init
<1>3. handler \in [Claims -> {"none", "running", "sent", "exited"}]
  BY DEF Init
<1>4. deadline \in [Claims -> {"none", "early", "late", "expired", "unset"}]
  BY DEF Init
<1>5. octx \in [Claims -> {"none", "deadline", "background", "backgroundOver", "run", "runOver"}]
  BY DEF Init
<1>6. tried \in [Claims -> BOOLEAN]
  BY DEF Init
<1>7. grant \in [Claims -> Key \cup {NoKey}]
  BY DEF Init
<1>8. ctxDone \in BOOLEAN /\ claimKey \in Key \cup {NoKey}
  BY DEF Init
<1>9. /\ pc = "idle" /\ runErr = "none" /\ sem = 0 /\ wg = 0
      /\ token = 0 /\ attempt = 0 /\ hb = "off"
  BY DEF Init
<1>10. \A c \in Claims : call[c] # "none" => token # 0
  BY <1>2
<1>11. /\ pc \in {"idle", "registering", "loop", "acquired", "claiming", "sleep",
                     "deliver", "stopping", "returned"}
       /\ runErr \in {"none", "nil", "error"}
       /\ sem \in Int /\ wg \in Int
       /\ token \in 0 .. MaxToken /\ attempt \in 0 .. MaxAttempts
       /\ pc \notin {"idle", "registering", "returned"} => token # 0
       /\ hb \in {"off", "wait", "register", "heartbeat", "stopped"}
  BY <1>1, <1>9
<1> QED
  BY <1>2, <1>3, <1>4, <1>5, <1>6, <1>7, <1>8, <1>10, <1>11 DEF Typed

\* Ending a call changes call, and a counter.
LEMMA FinishTyped ==
  ASSUME Typed, NEW c \in Claims, NEW end \in Closed, Finish(c, end), call[c] \in Open
  PROVE  Typed'
<1>1. token # 0
  BY DEF Typed, Open
<1>2. sem' \in Int /\ wg' \in Int /\ pc' \in {pc, "loop"}
  BY DEF Typed, Finish, GiveSlotBack
<1>3. call' \in [Claims -> {"none"} \cup Open \cup Closed]
  BY DEF Typed, Finish
<1> QED
  BY <1>1, <1>2, <1>3 DEF Typed, Finish, callRest

LEMMA TypedStep == Typed /\ [Next]_vars => Typed'
<1>. SUFFICES ASSUME Typed, [Next]_vars PROVE Typed'
  OBVIOUS
<1>. USE BoundsAssumption
<1>1. CASE CancelCtx
  BY <1>1 DEF CancelCtx, Typed, callVars
<1>2. CASE StartRun
  BY <1>2 DEF StartRun, Typed, callVars
<1>3. CASE Registered
  BY <1>3 DEF Registered, Typed, callVars
<1>4. CASE RegisterFails
  BY <1>4 DEF RegisterFails, Typed, callVars
<1>5. CASE Acquire
  BY <1>5 DEF Acquire, Typed, callVars
<1>6. CASE LeaveLoop
  BY <1>6 DEF LeaveLoop, Typed, callVars
<1>7. CASE PrepareClaim
  BY <1>7 DEF PrepareClaim, Typed, callVars, Key
<1>8. CASE ClaimFails
  BY <1>8 DEF ClaimFails, LostGrant, GiveSlotBack, Typed, callVars
<1>9. CASE ClaimNone
  BY <1>9 DEF ClaimNone, GiveSlotBack, ForgetKey, Typed, callVars
<1>10. ASSUME NEW c \in Claims, NEW d \in {"early", "late"}, ClaimTake(c, d) PROVE Typed'
  BY <1>10 DEF ClaimTake, Grants, ForgetKey, Typed, Open
<1>11. ASSUME NEW c \in Claims, NEW d \in {"unset", "expired"}, ClaimRefuse(c, d) PROVE Typed'
  BY <1>11 DEF ClaimRefuse, Grants, ForgetKey, Typed, Open
<1>12. CASE SleepEnds
  BY <1>12 DEF SleepEnds, Typed, callVars
<1>13. CASE Return
  BY <1>13 DEF Return, Typed, callVars
<1>14. ASSUME NEW c \in Claims, HandlerReturns(c) \/ ReleaseSlot(c) PROVE Typed'
  BY <1>14 DEF HandlerReturns, ReleaseSlot, Typed, workerVars
<1>15. ASSUME NEW c \in Claims, CallStep(c) PROVE Typed'
  <2>1. CASE TakeResult(c)
    BY <2>1 DEF TakeResult, OutcomeContext, Typed, Open, workerVars
  <2>2. CASE AwaitLapses(c)
    <3>1. CASE deadline[c] = "expired"
      BY <2>2, <3>1, FinishTyped DEF AwaitLapses, Closed, Open
    <3>2. CASE deadline[c] # "expired"
      BY <2>2, <3>2 DEF AwaitLapses, Typed, Open, workerVars, callRest
    <3> QED
      BY <3>1, <3>2
  <2>3. CASE DrainTimer(c) \/ SendExpired(c) \/ OutcomeAccepted(c) \/ OutcomeAbandoned(c)
             \/ BackoffCancelled(c)
    BY <2>3, FinishTyped
    DEF DrainTimer, SendExpired, OutcomeAccepted, OutcomeAbandoned, BackoffCancelled, Closed, Open
  <2>4. CASE SendOutcome(c)
    BY <2>4 DEF SendOutcome, Typed, Open, workerVars
  <2>5. CASE OutcomeBacksOff(c) \/ BackoffWakes(c)
    BY <2>5 DEF OutcomeBacksOff, BackoffWakes, Typed, Open, workerVars, callRest
  <2> QED
    BY <1>15, <2>1, <2>2, <2>3, <2>4, <2>5 DEF CallStep
<1>16. ASSUME NEW c \in Claims, Tick(c) \/ TimeoutPasses(c) PROVE Typed'
  BY <1>16 DEF Tick, TimeoutPasses, Typed, workerVars
<1>17. CASE HbFires \/ HbReplies \/ HbStops
  BY <1>17 DEF HbFires, HbReplies, HbStops, Typed, callVars
<1>18. CASE UNCHANGED vars
  BY <1>18 DEF vars, workerVars, callVars, Typed
<1> QED
  BY <1>1, <1>2, <1>3, <1>4, <1>5, <1>6, <1>7, <1>8, <1>9, <1>10, <1>11, <1>12, <1>13,
     <1>14, <1>15, <1>16, <1>17, <1>18 DEF Next, RunStep

-----------------------------------------------------------------------------
LEMMA KeyedInit == Init => Keyed
  BY DEF Init, Keyed, NoKey

(***************************************************************************)
(* What a step of a call, a handler or the clock leaves alone.             *)
(***************************************************************************)
LEMMA CallStepFrame ==
  ASSUME NEW c \in Claims,
         CallStep(c) \/ HandlerReturns(c) \/ ReleaseSlot(c) \/ Tick(c) \/ TimeoutPasses(c)
  PROVE  /\ UNCHANGED <<ctxDone, runErr, token, attempt, claimKey, hb, grant>>
         /\ pc' \in {pc, "loop"}
         /\ \/ UNCHANGED call
            \/ /\ call[c] \in Open
               /\ \E v \in Closed \cup (Open \ {"await"}) : call' = [call EXCEPT ![c] = v]
<1>1. CASE TakeResult(c) \/ SendOutcome(c) \/ OutcomeBacksOff(c) \/ BackoffWakes(c)
  BY <1>1 DEF TakeResult, SendOutcome, OutcomeBacksOff, BackoffWakes, workerVars, callRest, Open
<1>2. CASE AwaitLapses(c) \/ DrainTimer(c)
  BY <1>2 DEF AwaitLapses, DrainTimer, Finish, workerVars, callRest, Open, Closed
<1>3. CASE SendExpired(c) \/ OutcomeAccepted(c) \/ OutcomeAbandoned(c) \/ BackoffCancelled(c)
  BY <1>3 DEF SendExpired, OutcomeAccepted, OutcomeAbandoned, BackoffCancelled, Finish,
              callRest, Open, Closed
<1>4. CASE HandlerReturns(c) \/ ReleaseSlot(c) \/ Tick(c) \/ TimeoutPasses(c)
  BY <1>4 DEF HandlerReturns, ReleaseSlot, Tick, TimeoutPasses, workerVars, callRest
<1> QED
  BY <1>1, <1>2, <1>3, <1>4 DEF CallStep

LEMMA KeyedStep == Typed /\ Keyed /\ [Next]_vars => Keyed'
<1>. SUFFICES ASSUME Typed, Keyed, [Next]_vars PROVE Keyed'
  OBVIOUS
<1>. USE BoundsAssumption
<1>1. CASE CancelCtx \/ StartRun \/ Registered \/ RegisterFails \/ Acquire \/ LeaveLoop
           \/ SleepEnds \/ Return
  BY <1>1 DEF CancelCtx, StartRun, Registered, RegisterFails, Acquire, LeaveLoop,
              SleepEnds, Return, Keyed, callVars
<1>2. CASE PrepareClaim
  <2>1. CASE KeyReusable
    BY <1>2, <2>1 DEF PrepareClaim, KeyReusable, Keyed, callVars
  <2>2. CASE ~KeyReusable
    <3>1. /\ attempt' = attempt + 1
          /\ claimKey' = [token |-> token, attempt |-> attempt + 1]
          /\ UNCHANGED <<call, grant>>
      BY <1>2, <2>2 DEF PrepareClaim, callVars
    <3>2. attempt \in Nat /\ token # 0
      BY <1>2 DEF PrepareClaim, Typed
    <3>3. claimKey' # NoKey /\ claimKey'.attempt = attempt'
      BY <3>1, <3>2 DEF NoKey
    <3>4. \A c \in Claims : grant[c].attempt \in Int /\ grant[c].attempt <= attempt
      BY DEF Typed, Keyed, Key, NoKey
    <3>5. \A c \in Claims : grant'[c].attempt <= attempt' /\ grant'[c] # claimKey'
      BY <3>1, <3>2, <3>4
    <3> QED
      BY <3>1, <3>3, <3>5 DEF Keyed
  <2> QED
    BY <2>1, <2>2
<1>3. CASE ClaimFails
  <2>1. /\ claimKey # NoKey /\ claimKey' \in {claimKey, NoKey} /\ pc' # "claiming"
        /\ UNCHANGED <<attempt, call>>
    BY <1>3 DEF ClaimFails, Keyed, callVars
  <2>2. \/ UNCHANGED grant
        \/ \E c \in Claims : grant[c] = NoKey /\ grant' = [grant EXCEPT ![c] = claimKey]
    BY <1>3 DEF ClaimFails, LostGrant
  <2>3. claimKey.attempt <= attempt
    BY <2>1 DEF Keyed, Typed
  <2>4. CASE UNCHANGED grant
    BY <2>1, <2>4 DEF Keyed
  <2>5. ASSUME NEW c \in Claims, grant[c] = NoKey, grant' = [grant EXCEPT ![c] = claimKey]
        PROVE  Keyed'
    BY <2>1, <2>3, <2>5 DEF Keyed, Typed
  <2> QED
    BY <2>2, <2>4, <2>5
<1>4. CASE ClaimNone
  BY <1>4 DEF ClaimNone, ForgetKey, Keyed, callVars
<1>5. ASSUME NEW c \in Claims, NEW d, ClaimTake(c, d) \/ ClaimRefuse(c, d) PROVE Keyed'
  <2>1. /\ claimKey # NoKey /\ claimKey' = NoKey /\ pc' # "claiming" /\ attempt' = attempt
        /\ grant' = [grant EXCEPT ![c] = claimKey]
        /\ \A b \in Claims \ {c} : call'[b] = call[b]
    BY <1>5 DEF ClaimTake, ClaimRefuse, Grants, ForgetKey, Keyed, Typed
  <2>2. claimKey.attempt <= attempt
    BY <2>1 DEF Keyed, Typed
  <2> QED
    BY <2>1, <2>2 DEF Keyed, Typed
<1>6. ASSUME NEW c \in Claims,
             CallStep(c) \/ HandlerReturns(c) \/ ReleaseSlot(c) \/ Tick(c) \/ TimeoutPasses(c)
      PROVE  Keyed'
  <2>1. UNCHANGED <<attempt, claimKey, grant>> /\ pc' \in {pc, "loop"}
    BY <1>6, CallStepFrame
  <2>2. \A b \in Claims : call'[b] # "none" => call[b] # "none"
    BY <1>6, CallStepFrame DEF Typed, Open
  <2> QED
    BY <2>1, <2>2 DEF Keyed
<1>7. CASE HbFires \/ HbReplies \/ HbStops
  BY <1>7 DEF HbFires, HbReplies, HbStops, Keyed, callVars
<1>8. CASE UNCHANGED vars
  BY <1>8 DEF vars, workerVars, callVars, Keyed
<1> QED
  BY <1>1, <1>2, <1>3, <1>4, <1>5, <1>6, <1>7, <1>8 DEF Next, RunStep

(***************************************************************************)
(* No call is handed out twice, however often its claim is replayed.       *)
(***************************************************************************)
THEOREM NeverHandedOutTwice == Spec => HandedOutOnce
<1>. DEFINE Once(c) == call[c] # "none" =>
        /\ call'[c] = "await" => call[c] = "await"
        /\ handler'[c] = "running" => handler[c] = "running"
        /\ octx'[c] = "run" => octx[c] = "run"
<1>1. ASSUME Typed, Keyed, Next PROVE \A c \in Claims : Once(c)
  <2>. SUFFICES ASSUME NEW c \in Claims, call[c] # "none" PROVE Once(c)
    OBVIOUS
  <2>1. ASSUME NEW b \in Claims, NEW d, ClaimTake(b, d) \/ ClaimRefuse(b, d) PROVE b # c
    BY <1>1, <2>1 DEF ClaimTake, ClaimRefuse, Grants, Keyed
  <2>2. ASSUME NEW b \in Claims, NEW d, ClaimTake(b, d) \/ ClaimRefuse(b, d) PROVE Once(c)
    BY <1>1, <2>1, <2>2 DEF ClaimTake, ClaimRefuse, Typed
  <2>3. ASSUME NEW b \in Claims, TakeResult(b) \/ TimeoutPasses(b) PROVE Once(c)
    BY <1>1, <2>3 DEF TakeResult, TimeoutPasses, OutcomeContext, Typed, workerVars
  <2>4. ASSUME NEW b \in Claims, HandlerReturns(b) \/ ReleaseSlot(b) PROVE Once(c)
    BY <1>1, <2>4 DEF HandlerReturns, ReleaseSlot, Typed, workerVars
  <2>5. ASSUME NEW b \in Claims, CallStep(b) \/ Tick(b), ~TakeResult(b) PROVE Once(c)
    <3>1. UNCHANGED <<handler, octx>>
      BY <2>5 DEF CallStep, AwaitLapses, DrainTimer, SendOutcome, SendExpired, OutcomeAccepted,
                  OutcomeAbandoned, OutcomeBacksOff, BackoffWakes, BackoffCancelled, Finish,
                  Tick, callRest
    <3>2. call'[c] = "await" => call[c] = "await"
      BY <1>1, <2>5, CallStepFrame DEF Typed, Closed, Open
    <3> QED
      BY <3>1, <3>2
  <2>6. CASE UNCHANGED <<call, handler, octx>>
    BY <2>6
  <2>7. CASE \/ CancelCtx \/ StartRun \/ Registered \/ RegisterFails \/ Acquire \/ LeaveLoop
             \/ PrepareClaim \/ ClaimFails \/ ClaimNone \/ SleepEnds \/ Return
             \/ HbFires \/ HbReplies \/ HbStops
    BY <2>6, <2>7 DEF CancelCtx, StartRun, Registered, RegisterFails, Acquire, LeaveLoop,
         PrepareClaim, ClaimFails, ClaimNone, SleepEnds, Return, HbFires, HbReplies, HbStops,
         callVars
  <2> QED
    BY <1>1, <2>2, <2>3, <2>4, <2>5, <2>7 DEF Next, RunStep
<1>2. Typed /\ Keyed /\ [Next]_vars => [\A c \in Claims : Once(c)]_vars
  BY <1>1
<1> QED
  BY <1>2, TypedInit, TypedStep, KeyedInit, KeyedStep, PTL DEF Spec, HandedOutOnce

-----------------------------------------------------------------------------
(***************************************************************************)
(* Which goroutine owns a call: until it is taken it has no handler and no *)
(* outcome context, while it waits for a result it has no outcome context, *)
(* and at most one call is delivered by the main loop, which then does     *)
(* nothing else.  Before registration nothing has started.                 *)
(***************************************************************************)
Delivered == {c \in Claims : call[c] \in Open /\ ByMain(c)}

Staged ==
  /\ \A c \in Claims : call[c] = "none" => handler[c] = "none" /\ octx[c] = "none"
  /\ \A c \in Claims : call[c] \in {"await", "drain"} => octx[c] = "none"
  /\ \A c \in Delivered : pc = "deliver" /\ \A d \in Delivered : c = d
  /\ pc \in {"idle", "registering"} => hb = "off" /\ \A c \in Claims : call[c] = "none"

LEMMA StagedInit == Init => Staged
  BY DEF Init, Staged, Delivered, Open

\* Whatever ends call c, the other calls keep their state.
LEMMA FinishStaged ==
  ASSUME Typed, Staged, NEW c \in Claims, NEW end \in Closed, Finish(c, end), call[c] \in Open
  PROVE  Staged'
<1>1. /\ UNCHANGED <<handler, octx, hb>> /\ call'[c] = end
      /\ \A b \in Claims \ {c} : call'[b] = call[b]
  BY DEF Finish, callRest, Typed
<1>2. pc' = IF ByMain(c) THEN "loop" ELSE pc
  BY DEF Finish
<1>3. \A b \in Claims : ByMain(b)' <=> ByMain(b)
  BY <1>1 DEF ByMain
<1>4. Delivered' = Delivered \ {c}
  BY <1>1, <1>3 DEF Delivered, Open, Closed
<1>5. pc \notin {"idle", "registering"}
  BY DEF Staged, Open
<1>6. \A b \in Delivered' : pc' = "deliver" /\ \A d \in Delivered' : b = d
  BY <1>2, <1>4 DEF Staged, Delivered
<1> QED
  BY <1>1, <1>2, <1>5, <1>6 DEF Staged, Closed, Open

\* A step of call c that leaves it open, and does not take its result.
LEMMA MoveStaged ==
  ASSUME Typed, Staged, NEW c \in Claims, call[c] \in Open, NEW v \in Open,
         call' = [call EXCEPT ![c] = v], UNCHANGED <<workerVars, handler, octx>>,
         v \in {"await", "drain"} => call[c] \in {"await", "drain"}
  PROVE  Staged'
<1>1. Delivered' = Delivered
  BY DEF Delivered, ByMain, Typed
<1> QED
  BY <1>1 DEF Staged, workerVars, Typed, Open

LEMMA StagedStep == Typed /\ Keyed /\ Staged /\ [Next]_vars => Staged'
<1>. SUFFICES ASSUME Typed, Keyed, Staged, [Next]_vars PROVE Staged'
  OBVIOUS
<1>1. CASE \/ CancelCtx \/ StartRun \/ Registered \/ RegisterFails \/ Acquire \/ LeaveLoop
           \/ PrepareClaim \/ ClaimFails \/ ClaimNone \/ SleepEnds \/ Return
           \/ HbFires \/ HbReplies \/ HbStops
  <2>1. /\ UNCHANGED <<call, handler, octx>>
        /\ pc' # pc => pc # "deliver"
        /\ pc' \in {"idle", "registering"} => pc \in {"idle", "registering"} /\ hb' = hb
    BY <1>1 DEF CancelCtx, StartRun, Registered, RegisterFails, Acquire, LeaveLoop,
         PrepareClaim, ClaimFails, ClaimNone, SleepEnds, Return, HbFires, HbReplies, HbStops,
         callVars, Staged
  <2>2. Delivered' = Delivered
    BY <2>1 DEF Delivered, ByMain
  <2> QED
    BY <2>1, <2>2 DEF Staged
<1>2. ASSUME NEW c \in Claims, NEW d, ClaimTake(c, d) PROVE Staged'
  <2>1. call[c] = "none" /\ pc = "claiming" /\ pc' = "loop" /\ UNCHANGED octx
    BY <1>2 DEF ClaimTake, Grants, Keyed
  <2>2. Delivered = {} /\ Delivered' = {}
    BY <1>2, <2>1 DEF ClaimTake, Staged, Delivered, ByMain, Typed, Open
  <2> QED
    BY <1>2, <2>1, <2>2 DEF ClaimTake, Staged, Typed
<1>3. ASSUME NEW c \in Claims, NEW d, ClaimRefuse(c, d) PROVE Staged'
  <2>1. call[c] = "none" /\ pc = "claiming" /\ pc' = "deliver" /\ UNCHANGED handler
    BY <1>3 DEF ClaimRefuse, Grants, Keyed
  <2>2. Delivered = {} /\ Delivered' = {c}
    BY <1>3, <2>1 DEF ClaimRefuse, Staged, Delivered, ByMain, Typed, Open
  <2> QED
    BY <1>3, <2>1, <2>2 DEF ClaimRefuse, Staged, Typed
<1>4. ASSUME NEW c \in Claims, TakeResult(c) PROVE Staged'
  <2>1. Delivered' = Delivered
    BY <1>4 DEF TakeResult, OutcomeContext, Staged, Delivered, ByMain, Typed, Open
  <2> QED
    BY <1>4, <2>1 DEF TakeResult, Staged, Typed, workerVars
<1>5. ASSUME NEW c \in Claims, AwaitLapses(c) PROVE Staged'
  <2>1. CASE deadline[c] = "expired"
    BY <1>5, <2>1, FinishStaged DEF AwaitLapses, Closed, Open
  <2>2. CASE deadline[c] # "expired"
    BY <1>5, <2>2, MoveStaged DEF AwaitLapses, callRest, Open
  <2> QED
    BY <2>1, <2>2
<1>6. ASSUME NEW c \in Claims,
             \/ DrainTimer(c) \/ SendExpired(c) \/ OutcomeAccepted(c) \/ OutcomeAbandoned(c)
             \/ BackoffCancelled(c)
      PROVE  Staged'
  BY <1>6, FinishStaged
  DEF DrainTimer, SendExpired, OutcomeAccepted, OutcomeAbandoned, BackoffCancelled, Closed, Open
<1>7. ASSUME NEW c \in Claims, SendOutcome(c) \/ OutcomeBacksOff(c) \/ BackoffWakes(c)
      PROVE  Staged'
  BY <1>7, MoveStaged DEF SendOutcome, OutcomeBacksOff, BackoffWakes, callRest, Open
<1>8. ASSUME NEW c \in Claims, HandlerReturns(c) \/ ReleaseSlot(c) \/ Tick(c) PROVE Staged'
  <2>1. UNCHANGED <<pc, hb, call, octx>> /\ \A b \in Claims : handler[b] = "none" => handler'[b] = "none"
    BY <1>8 DEF HandlerReturns, ReleaseSlot, Tick, workerVars, Typed
  <2>2. Delivered' = Delivered
    BY <2>1 DEF Delivered, ByMain
  <2> QED
    BY <2>1, <2>2 DEF Staged
<1>9. ASSUME NEW c \in Claims, TimeoutPasses(c) PROVE Staged'
  <2>1. Delivered' = Delivered
    BY <1>9 DEF TimeoutPasses, Delivered, ByMain, Typed
  <2> QED
    BY <1>9, <2>1 DEF TimeoutPasses, Staged, Typed, workerVars
<1>10. CASE UNCHANGED vars
  BY <1>10 DEF vars, workerVars, callVars, Staged, Delivered, ByMain
<1> QED
  BY <1>1, <1>2, <1>3, <1>4, <1>5, <1>6, <1>7, <1>8, <1>9, <1>10 DEF Next, RunStep, CallStep

-----------------------------------------------------------------------------
(***************************************************************************)
(* The counters: sem counts the handlers and the main loop's slot, wg the  *)
(* goroutines of the open calls.                                           *)
(***************************************************************************)
Spawned == {c \in Claims : call[c] \in Open /\ ~ByMain(c)}

Counted ==
  /\ sem <= MaxConcurrentCalls
  /\ SlotsBalanced
  /\ wg = Cardinality(Spawned)

LEMMA Finite ==
  /\ IsFiniteSet(Busy) /\ Cardinality(Busy) \in Nat
  /\ IsFiniteSet(Spawned) /\ Cardinality(Spawned) \in Nat
<1>1. Busy \in SUBSET Claims /\ Spawned \in SUBSET Claims
  BY DEF Busy, Spawned
<1> QED
  BY <1>1, ClaimsAssumption, FS_Subset, FS_CardinalityType

LEMMA CountedInit == Init => Counted
<1>. SUFFICES ASSUME Init PROVE Counted
  OBVIOUS
<1>1. Busy = {} /\ Spawned = {}
  BY DEF Init, Busy, Spawned, Open
<1>2. Cardinality(Busy) = 0 /\ Cardinality(Spawned) = 0
  BY <1>1, FS_EmptySet
<1> QED
  BY <1>2, MaxConcurrentCallsAssumption DEF Init, Counted, SlotsBalanced, LoopSlot

\* The end of call c: its goroutine leaves wg, or the main loop its slot.
LEMMA FinishCounted ==
  ASSUME Typed, Staged, Counted, NEW c \in Claims, NEW end \in Closed, Finish(c, end),
         call[c] \in Open
  PROVE  Counted'
<1>1. /\ UNCHANGED <<handler, octx>> /\ call'[c] = end
      /\ \A b \in Claims \ {c} : call'[b] = call[b]
  BY DEF Finish, callRest, Typed
<1>2. Busy' = Busy
  BY <1>1 DEF Busy
<1>3. Spawned' = Spawned \ {c}
  BY <1>1 DEF Spawned, ByMain, Open, Closed
<1>4. CASE ByMain(c)
  <2>1. pc = "deliver" /\ pc' = "loop" /\ sem' = sem - 1 /\ wg' = wg
    BY <1>4 DEF Finish, GiveSlotBack, Staged, Delivered
  <2>2. Spawned' = Spawned
    BY <1>3, <1>4 DEF Spawned
  <2> QED
    BY <1>2, <2>1, <2>2, Finite, MaxConcurrentCallsAssumption
    DEF Counted, SlotsBalanced, LoopSlot, Typed
<1>5. CASE ~ByMain(c)
  <2>1. UNCHANGED <<pc, sem>> /\ wg' = wg - 1
    BY <1>5 DEF Finish
  <2>2. c \in Spawned
    BY <1>5 DEF Spawned
  <2>3. Cardinality(Spawned') = Cardinality(Spawned) - 1
    BY <1>3, <2>2, Finite, FS_RemoveElement
  <2> QED
    BY <1>2, <2>1, <2>3 DEF Counted, SlotsBalanced, LoopSlot
<1> QED
  BY <1>4, <1>5

LEMMA CountedStep == Typed /\ Keyed /\ Staged /\ Counted /\ [Next]_vars => Counted'
<1>. SUFFICES ASSUME Typed, Keyed, Staged, Counted, [Next]_vars PROVE Counted'
  OBVIOUS
<1>. USE MaxConcurrentCallsAssumption
<1>1. CASE \/ CancelCtx \/ StartRun \/ Registered \/ RegisterFails \/ Acquire \/ LeaveLoop
           \/ PrepareClaim \/ ClaimFails \/ ClaimNone \/ SleepEnds \/ Return
           \/ HbFires \/ HbReplies \/ HbStops
  <2>1. UNCHANGED <<call, handler, octx, wg>>
    BY <1>1 DEF CancelCtx, StartRun, Registered, RegisterFails, Acquire, LeaveLoop,
         PrepareClaim, ClaimFails, ClaimNone, SleepEnds, Return, HbFires, HbReplies, HbStops,
         callVars
  <2>2. Busy' = Busy /\ Spawned' = Spawned
    BY <2>1 DEF Busy, Spawned, ByMain
  <2>3. CASE Acquire
    BY <2>1, <2>2, <2>3, Finite DEF Acquire, SlotFree, Counted, SlotsBalanced, LoopSlot, Typed
  <2>4. CASE ClaimFails \/ ClaimNone
    BY <2>1, <2>2, <2>4, Finite
    DEF ClaimFails, ClaimNone, GiveSlotBack, Counted, SlotsBalanced, LoopSlot, Typed
  <2>5. CASE \/ CancelCtx \/ StartRun \/ Registered \/ RegisterFails \/ LeaveLoop
             \/ PrepareClaim \/ SleepEnds \/ Return \/ HbFires \/ HbReplies \/ HbStops
    <3>1. /\ UNCHANGED sem
          /\ \/ LoopSlot' = LoopSlot
             \/ LoopSlot' = 0 /\ LoopSlot = 1 /\ pc = "acquired" /\ pc' = "stopping"
          /\ (pc \in {"stopping", "returned"} => pc' \in {"stopping", "returned"})
      BY <2>5 DEF CancelCtx, StartRun, Registered, RegisterFails, LeaveLoop,
         PrepareClaim, SleepEnds, Return, HbFires, HbReplies, HbStops, LoopSlot
    <3> QED
      BY <2>1, <2>2, <3>1, Finite DEF Counted, SlotsBalanced, LoopSlot, Typed
  <2> QED
    BY <1>1, <2>3, <2>4, <2>5
<1>2. ASSUME NEW c \in Claims, NEW d, ClaimTake(c, d) PROVE Counted'
  <2>1. call[c] = "none" /\ handler[c] = "none" /\ octx[c] = "none"
    BY <1>2 DEF ClaimTake, Grants, Keyed, Staged
  <2>2. Busy' = Busy \cup {c} /\ c \notin Busy
    BY <1>2, <2>1 DEF ClaimTake, Busy, Typed
  <2>3. Spawned' = Spawned \cup {c} /\ c \notin Spawned
    BY <1>2, <2>1 DEF ClaimTake, Spawned, ByMain, Typed, Open
  <2>4. /\ Cardinality(Busy') = Cardinality(Busy) + 1
        /\ Cardinality(Spawned') = Cardinality(Spawned) + 1
    BY <2>2, <2>3, Finite, FS_AddElement
  <2>5. pc = "claiming" /\ pc' = "loop" /\ sem' = sem /\ wg' = wg + 1
    BY <1>2 DEF ClaimTake
  <2> QED
    BY <2>4, <2>5, Finite DEF Counted, SlotsBalanced, LoopSlot, Typed
<1>3. ASSUME NEW c \in Claims, NEW d, ClaimRefuse(c, d) PROVE Counted'
  <2>1. call[c] = "none"
    BY <1>3 DEF ClaimRefuse, Grants, Keyed
  <2>2. Busy' = Busy /\ Spawned' = Spawned
    BY <1>3, <2>1 DEF ClaimRefuse, Busy, Spawned, ByMain, Typed, Open
  <2> QED
    BY <1>3, <2>2, Finite DEF ClaimRefuse, Counted, SlotsBalanced, LoopSlot, Typed
<1>4. ASSUME NEW c \in Claims, ReleaseSlot(c) PROVE Counted'
  <2>1. Busy' = Busy \ {c} /\ c \in Busy
    BY <1>4 DEF ReleaseSlot, Busy, Typed
  <2>2. Cardinality(Busy') = Cardinality(Busy) - 1
    BY <2>1, Finite, FS_RemoveElement
  <2>3. Spawned' = Spawned
    BY <1>4 DEF ReleaseSlot, Spawned, ByMain
  <2>4. pc' = pc /\ sem' = sem - 1 /\ wg' = wg
    BY <1>4 DEF ReleaseSlot
  <2> QED
    BY <2>2, <2>3, <2>4, Finite DEF Counted, SlotsBalanced, LoopSlot, Typed
<1>5. ASSUME NEW c \in Claims,
             \/ DrainTimer(c) \/ SendExpired(c) \/ OutcomeAccepted(c) \/ OutcomeAbandoned(c)
             \/ BackoffCancelled(c) \/ (AwaitLapses(c) /\ deadline[c] = "expired")
      PROVE  Counted'
  BY <1>5, FinishCounted DEF DrainTimer, SendExpired, OutcomeAccepted, OutcomeAbandoned,
     BackoffCancelled, AwaitLapses, Closed, Open
<1>6. ASSUME NEW c \in Claims,
             \/ TakeResult(c) \/ SendOutcome(c) \/ OutcomeBacksOff(c) \/ BackoffWakes(c)
             \/ HandlerReturns(c) \/ Tick(c) \/ TimeoutPasses(c)
             \/ (AwaitLapses(c) /\ deadline[c] # "expired")
      PROVE  Counted'
  <2>1. UNCHANGED workerVars
    BY <1>6 DEF TakeResult, SendOutcome, OutcomeBacksOff, BackoffWakes, HandlerReturns, Tick,
       TimeoutPasses, AwaitLapses
  <2>2. Busy' = Busy
    BY <1>6 DEF TakeResult, SendOutcome, OutcomeBacksOff, BackoffWakes, HandlerReturns, Tick,
       TimeoutPasses, AwaitLapses, callRest, Busy, Typed
  <2>3. Spawned' = Spawned
    <3>1. CASE TakeResult(c)
      BY <3>1 DEF TakeResult, OutcomeContext, Staged, Spawned, ByMain, Typed, Open
    <3>2. CASE TimeoutPasses(c)
      BY <3>2 DEF TimeoutPasses, Spawned, ByMain, Typed
    <3>3. CASE \/ SendOutcome(c) \/ OutcomeBacksOff(c) \/ BackoffWakes(c)
               \/ (AwaitLapses(c) /\ deadline[c] # "expired")
      BY <3>3 DEF SendOutcome, OutcomeBacksOff, BackoffWakes, AwaitLapses, callRest,
         Spawned, ByMain, Typed, Open
    <3>4. CASE HandlerReturns(c) \/ Tick(c)
      BY <3>4 DEF HandlerReturns, Tick, callRest, Spawned, ByMain
    <3> QED
      BY <1>6, <3>1, <3>2, <3>3, <3>4
  <2> QED
    BY <2>1, <2>2, <2>3 DEF workerVars, Counted, SlotsBalanced, LoopSlot
<1>7. CASE UNCHANGED vars
  BY <1>7 DEF vars, workerVars, callVars, Counted, SlotsBalanced, LoopSlot, Busy, Spawned, ByMain
<1> QED
  BY <1>1, <1>2, <1>3, <1>4, <1>5, <1>6, <1>7 DEF Next, RunStep, CallStep

-----------------------------------------------------------------------------
Inductive == Typed /\ Keyed /\ Staged /\ Counted

LEMMA InductiveInvariant == Spec => []Inductive
<1>1. Init => Inductive
  BY TypedInit, KeyedInit, StagedInit, CountedInit DEF Inductive
<1>2. Inductive /\ [Next]_vars => Inductive'
  BY TypedStep, KeyedStep, StagedStep, CountedStep DEF Inductive
<1> QED
  BY <1>1, <1>2, PTL DEF Spec

(***************************************************************************)
(* The state of the worker is well typed: sem never exceeds the capacity   *)
(* of its channel and never underflows, and neither does the WaitGroup,    *)
(* which would panic.                                                      *)
(***************************************************************************)
THEOREM WellTyped == Spec => []TypeOK
<1>1. Inductive => TypeOK
  <2>. SUFFICES ASSUME Inductive PROVE TypeOK
    OBVIOUS
  <2>1. sem \in 0 .. MaxConcurrentCalls /\ wg \in Nat
    BY Finite, MaxConcurrentCallsAssumption
    DEF Inductive, Typed, Counted, SlotsBalanced, LoopSlot
  <2> QED
    BY <2>1 DEF Inductive, Typed, TypeOK
<1> QED
  BY <1>1, InductiveInvariant, PTL

(***************************************************************************)
(* No slot is lost or returned twice, and no more than MaxConcurrentCalls  *)
(* handlers run at a time, abandoned ones included.                        *)
(***************************************************************************)
THEOREM SlotsAccounted == Spec => [](SlotsBalanced /\ HandlerBound)
<1>1. Inductive => SlotsBalanced /\ HandlerBound
  BY Finite, MaxConcurrentCallsAssumption
  DEF Inductive, Typed, Counted, SlotsBalanced, LoopSlot, HandlerBound
<1> QED
  BY <1>1, InductiveInvariant, PTL

(***************************************************************************)
(* When Run has returned no goroutine of it is left but handlers that      *)
(* ignored their context.                                                  *)
(***************************************************************************)
THEOREM ReturnsClean == Spec => []ReturnedClean
<1>1. Init => ReturnedClean
  BY DEF Init, ReturnedClean
<1>2. Inductive /\ ReturnedClean /\ [Next]_vars => ReturnedClean'
  <2>. SUFFICES ASSUME Inductive, ReturnedClean, [Next]_vars, pc' = "returned"
                PROVE  hb' \in {"off", "stopped"} /\ \A c \in Claims : call'[c] \notin Open
    BY DEF ReturnedClean
  <2>1. CASE Return
    <3>1. Spawned = {}
      BY <2>1, Finite, FS_EmptySet DEF Return, AllEnded, Inductive, Counted
    <3>2. \A c \in Claims : call[c] \notin Open
      BY <2>1, <3>1 DEF Return, Inductive, Staged, Delivered, Spawned
    <3> QED
      BY <2>1, <3>2 DEF Return, AllEnded, callVars
  <2>2. CASE RegisterFails
    BY <2>2 DEF RegisterFails, Inductive, Staged, callVars, Open
  <2>3. CASE pc = "returned"
    <3>1. hb \in {"off", "stopped"} /\ \A c \in Claims : call[c] \notin Open
      BY <2>3 DEF ReturnedClean
    <3>2. UNCHANGED hb
      BY <2>3, <3>1, CallStepFrame DEF Next, RunStep, CancelCtx, StartRun, Registered, RegisterFails,
         Acquire, LeaveLoop, PrepareClaim, ClaimFails, ClaimNone, ClaimTake, ClaimRefuse,
         SleepEnds, Return, HbFires, HbReplies, HbStops, vars, workerVars
    <3>3. UNCHANGED call
      BY <2>3, <3>1, CallStepFrame DEF Next, RunStep, CancelCtx, StartRun, Registered, RegisterFails,
         Acquire, LeaveLoop, PrepareClaim, ClaimFails, ClaimNone, ClaimTake, ClaimRefuse,
         SleepEnds, Return, HbFires, HbReplies, HbStops, vars, callVars
    <3> QED
      BY <3>1, <3>2, <3>3
  <2>4. pc # "returned" => Return \/ RegisterFails
    <3>. SUFFICES ASSUME pc # "returned" PROVE Return \/ RegisterFails
      OBVIOUS
    <3> QED
      BY CallStepFrame DEF Next, RunStep, CancelCtx, StartRun, Registered,
         Acquire, LeaveLoop, PrepareClaim, ClaimFails, ClaimNone, ClaimTake, ClaimRefuse,
         SleepEnds, HbFires, HbReplies, HbStops, vars, workerVars
  <2> QED
    BY <2>1, <2>2, <2>3, <2>4
<1> QED
  BY <1>1, <1>2, InductiveInvariant, PTL DEF Spec

-----------------------------------------------------------------------------
(* A claim whose reply was lost. *)

\* Run does not leave its last stage, and a registration is not taken back.
LEMMA StageStays ==
  Typed /\ Staged /\ [Next]_vars =>
    /\ pc \in {"stopping", "returned"} => pc' \in {"stopping", "returned"}
    /\ pc' \in {"idle", "registering"} => pc \in {"idle", "registering"}
<1>. SUFFICES ASSUME Typed, Staged, [Next]_vars
              PROVE  /\ pc \in {"stopping", "returned"} => pc' \in {"stopping", "returned"}
                     /\ pc' \in {"idle", "registering"} => pc \in {"idle", "registering"}
  OBVIOUS
<1>1. ASSUME NEW c \in Claims, NEW end, Finish(c, end), call[c] \in Open
      PROVE  pc' = pc \/ (pc = "deliver" /\ pc' = "loop")
  BY <1>1 DEF Finish, Staged, Delivered
<1>2. ASSUME NEW c \in Claims, CallStep(c) PROVE pc' = pc \/ (pc = "deliver" /\ pc' = "loop")
  <2>1. CASE \/ DrainTimer(c) \/ SendExpired(c) \/ OutcomeAccepted(c) \/ OutcomeAbandoned(c)
             \/ BackoffCancelled(c) \/ (AwaitLapses(c) /\ deadline[c] = "expired")
    BY <1>1, <2>1 DEF DrainTimer, SendExpired, OutcomeAccepted, OutcomeAbandoned,
       BackoffCancelled, AwaitLapses, Open
  <2>2. CASE \/ TakeResult(c) \/ SendOutcome(c) \/ OutcomeBacksOff(c) \/ BackoffWakes(c)
             \/ (AwaitLapses(c) /\ deadline[c] # "expired")
    BY <2>2 DEF TakeResult, SendOutcome, OutcomeBacksOff, BackoffWakes, AwaitLapses, workerVars
  <2> QED
    BY <1>2, <2>1, <2>2 DEF CallStep
<1>3. ASSUME NEW c \in Claims, HandlerReturns(c) \/ ReleaseSlot(c) \/ Tick(c) \/ TimeoutPasses(c)
      PROVE  pc' = pc
  BY <1>3 DEF HandlerReturns, ReleaseSlot, Tick, TimeoutPasses, workerVars
<1>4. CASE RunStep \/ CancelCtx \/ HbFires \/ HbReplies \/ HbStops
  BY <1>4 DEF RunStep, CancelCtx, StartRun, Registered, RegisterFails, Acquire, LeaveLoop,
     PrepareClaim, ClaimFails, ClaimNone, ClaimTake, ClaimRefuse, SleepEnds, Return,
     HbFires, HbReplies, HbStops
<1>5. CASE UNCHANGED vars
  BY <1>5 DEF vars, workerVars
<1> QED
  BY <1>2, <1>3, <1>4, <1>5 DEF Next

(***************************************************************************)
(* Curable is what IsRetryable and the two kinds of requests make of it.   *)
(***************************************************************************)
LEMMA CurableMeans ==
  ASSUME NEW x \in Exchange
  PROVE  /\ Curable(x) <=> SubmitErr(x).nil \/ IsRetryable(SubmitErr(x))
         /\ Curable(x) => DoErr(x).nil \/ IsRetryable(DoErr(x))
<1>. USE DEF IsRetryable, RetryableStatus, Curable
<1>1. x.reply \in BOOLEAN /\ x.status \in 0 .. 599
  BY DEF Exchange
<1>2. NoError.nil
  BY DEF NoError
<1>3. ~Malformed.nil /\ Malformed.malformed
  BY DEF Malformed, NoError
<1>4. /\ ~StatusError(x.status).nil /\ ~StatusError(x.status).malformed
      /\ ~StatusError(x.status).ctx /\ ~StatusError(x.status).unknown
      /\ StatusError(x.status).status = x.status /\ ~StatusError(x.status).net
  BY DEF StatusError, NoError
<1>5. ASSUME NEW why
      PROVE  /\ ~TransportError(why).nil /\ ~TransportError(why).malformed
             /\ TransportError(why).ctx <=> why \in {"deadline", "canceled"}
             /\ ~TransportError(why).unknown
             /\ TransportError(why).status = 0 /\ TransportError(why).net
  <2>. DEFINE b == why \in {"deadline", "canceled"}
  <2>1. b \in BOOLEAN
    OBVIOUS
  <2>2. TransportError(why) = [NoError EXCEPT !.nil = FALSE, !.net = TRUE, !.ctx = b]
    BY DEF TransportError
  <2>. HIDE DEF b
  <2>3. /\ ~TransportError(why).nil /\ ~TransportError(why).malformed
        /\ TransportError(why).ctx <=> b
        /\ ~TransportError(why).unknown
        /\ TransportError(why).status = 0 /\ TransportError(why).net
    BY <2>1, <2>2 DEF NoError
  <2> QED
    BY <2>3 DEF b
<1>6. CASE ~x.reply
  <2>1. DoErr(x) = TransportError(x.why) /\ SubmitErr(x) = TransportError(x.why)
    BY <1>6 DEF DoErr, SubmitErr, Success
  <2> QED
    BY <1>5, <1>6, <2>1
<1>7. CASE x.reply /\ ~Success(x)
  <2>1. DoErr(x) = StatusError(x.status) /\ SubmitErr(x) = StatusError(x.status)
    BY <1>7 DEF DoErr, SubmitErr
  <2>2. x.status # 200
    BY <1>1, <1>7 DEF Success
  <2> QED
    BY <1>1, <1>4, <1>7, <2>1, <2>2
<1>8. CASE Success(x)
  <2>1. x.reply /\ x.status \in 200 .. 299
    BY <1>8 DEF Success
  <2>2. /\ DoErr(x) = IF x.body = "good" THEN NoError ELSE Malformed
        /\ SubmitErr(x) = IF x.status = 200 /\ x.body = "good" THEN NoError ELSE Malformed
    BY <1>8, <2>1 DEF DoErr, SubmitErr
  <2> QED
    BY <1>1, <1>2, <1>3, <2>1, <2>2
<1> QED
  BY <1>1, <1>6, <1>7, <1>8

(***************************************************************************)
(* A key names one claim at most, keys are built for the tokens of the     *)
(* worker, and nothing is granted before it has registered.                *)
(***************************************************************************)
Named ==
  /\ \A c, d \in Claims : grant[c] # NoKey /\ grant[c] = grant[d] => c = d
  /\ \A c \in Claims : grant[c].token <= token
  /\ claimKey.token <= token
  /\ pc \in {"idle", "registering"} => claimKey = NoKey /\ \A c \in Claims : grant[c] = NoKey

Remembered == Named /\ GrantNotForgotten

LEMMA RememberedInit == Init => Remembered
  BY DEF Init, Remembered, Named, GrantNotForgotten, NoKey

\* What a step that grants nothing and keeps the key has to leave alone.
LEMMA RememberedKept ==
  ASSUME Typed, Staged, Remembered, [Next]_vars, UNCHANGED <<claimKey, grant>>, token <= token',
         \A c \in Claims : call'[c] = "none" => call[c] = "none"
  PROVE  Remembered'
<1>1. /\ pc \in {"stopping", "returned"} => pc' \in {"stopping", "returned"}
      /\ pc' \in {"idle", "registering"} => pc \in {"idle", "registering"}
  BY StageStays
<1>2. token \in Int /\ token' \in Int /\ claimKey.token \in Int
  BY TypedStep, BoundsAssumption DEF Typed, Key, NoKey
<1>3. \A c \in Claims : grant[c].token \in Int
  BY BoundsAssumption DEF Typed, Key, NoKey
<1>4. Named'
  BY <1>1, <1>2, <1>3 DEF Remembered, Named
<1>5. GrantNotForgotten'
  <2>. SUFFICES ASSUME NEW c \in Claims, grant[c] # NoKey, call[c] = "none", grant[c] # claimKey
                PROVE  grant[c].token # token' \/ pc' \in {"stopping", "returned"}
    BY DEF GrantNotForgotten
  <2>1. grant[c].token # token \/ pc \in {"stopping", "returned"}
    BY DEF Remembered, GrantNotForgotten
  <2>2. grant[c].token <= token
    BY DEF Remembered, Named
  <2> QED
    BY <1>1, <1>2, <1>3, <2>1, <2>2
<1> QED
  BY <1>4, <1>5 DEF Remembered

LEMMA RememberedStep ==
  ASSUME OnlyCurable
  PROVE  Typed /\ Keyed /\ Staged /\ Remembered /\ [Next]_vars => Remembered'
<1>. SUFFICES ASSUME Typed, Keyed, Staged, Remembered, [Next]_vars PROVE Remembered'
  OBVIOUS
<1>. USE BoundsAssumption
<1>1. CASE \/ CancelCtx \/ StartRun \/ RegisterFails \/ Acquire \/ LeaveLoop \/ SleepEnds
           \/ Return \/ HbFires \/ HbStops \/ UNCHANGED vars
  <2>1. UNCHANGED <<claimKey, grant, token, call>>
    BY <1>1 DEF CancelCtx, StartRun, RegisterFails, Acquire, LeaveLoop, SleepEnds, Return,
       HbFires, HbStops, vars, workerVars, callVars
  <2> QED
    BY <2>1, RememberedKept DEF Typed
<1>2. CASE HbReplies
  <2>1. UNCHANGED <<claimKey, grant, call>> /\ token' \in {token, token + 1}
    BY <1>2 DEF HbReplies, callVars
  <2> QED
    BY <2>1, RememberedKept DEF Typed
\* The first token: nothing is granted yet.
<1>3. CASE Registered
  <2>1. /\ UNCHANGED <<claimKey, grant, call>> /\ token' = 1 /\ pc' = "loop"
        /\ claimKey = NoKey
        /\ \A c \in Claims : grant[c] = NoKey
    BY <1>3 DEF Registered, callVars, Remembered, Named
  <2> QED
    BY <2>1 DEF Remembered, Named, GrantNotForgotten, NoKey
\* A key is only replaced when it is empty, or was built for another token.
<1>4. CASE PrepareClaim
  <2>1. CASE KeyReusable
    BY <1>4, <2>1, RememberedKept DEF PrepareClaim, callVars, Typed
  <2>2. CASE ~KeyReusable
    <3>1. UNCHANGED <<grant, call, token>> /\ pc = "acquired" /\ pc' = "claiming"
      BY <1>4 DEF PrepareClaim, callVars
    <3>2. ASSUME NEW c \in Claims, grant[c] # NoKey, call[c] = "none"
          PROVE  grant[c].token # token
      BY <2>2, <3>1, <3>2 DEF KeyReusable, Remembered, GrantNotForgotten
    <3>3. Named'
      BY <1>4, <2>2, <3>1 DEF PrepareClaim, Remembered, Named, Typed
    <3>4. GrantNotForgotten'
      BY <3>1, <3>2 DEF GrantNotForgotten
    <3> QED
      BY <3>3, <3>4 DEF Remembered
  <2> QED
    BY <2>1, <2>2
\* The retried key is the one under which the claim may have been granted.
<1>5. CASE ClaimFails
  <2>1. /\ UNCHANGED <<call, token>> /\ pc = "claiming" /\ claimKey # NoKey
        /\ pc' = IF Done THEN "stopping" ELSE "sleep"
    BY <1>5 DEF ClaimFails, callVars, Keyed
  <2>2. UNCHANGED claimKey
    <3>1. PICK x \in Arrivals(Done) :
            /\ ~DoErr(x).nil
            /\ claimKey' = IF Done \/ IsRetryable(DoErr(x)) THEN claimKey ELSE NoKey
      BY <1>5 DEF ClaimFails
    <3>2. ~Done => IsRetryable(DoErr(x))
      BY <3>1, CurableMeans, ExchangesAssumption DEF Arrivals, OnlyCurable
    <3> QED
      BY <3>1, <3>2
  <2>3. CASE UNCHANGED grant
    BY <2>1, <2>2, <2>3, RememberedKept DEF Typed
  <2>4. ASSUME ~Granted(claimKey), NEW c \in Claims, grant[c] = NoKey,
               grant' = [grant EXCEPT ![c] = claimKey]
        PROVE  Remembered'
    <3>1. claimKey.token <= token
      BY DEF Remembered, Named
    <3>2. /\ grant'[c] = claimKey
          /\ \A b \in Claims \ {c} : grant'[b] = grant[b] /\ grant[b] # claimKey
      BY <2>4 DEF Granted, Typed
    <3>3. Named'
      BY <2>1, <2>2, <3>1, <3>2 DEF Remembered, Named
    <3>4. GrantNotForgotten'
      BY <2>1, <2>2, <3>2 DEF Remembered, GrantNotForgotten
    <3> QED
      BY <3>3, <3>4 DEF Remembered
  <2>5. \/ UNCHANGED grant
        \/ /\ ~Granted(claimKey)
           /\ \E c \in Claims : grant[c] = NoKey /\ grant' = [grant EXCEPT ![c] = claimKey]
    BY <1>5 DEF ClaimFails, LostGrant
  <2> QED
    BY <2>3, <2>4, <2>5
\* An empty answer: nothing was granted under the key.
<1>6. CASE ClaimNone
  <2>1. /\ UNCHANGED <<call, token, grant>> /\ pc = "claiming" /\ pc' = "sleep"
        /\ claimKey' = NoKey
        /\ \A c \in Claims : grant[c] # claimKey
    BY <1>6 DEF ClaimNone, ForgetKey, Granted, callVars
  <2>2. NoKey.token <= token
    BY DEF Typed, NoKey
  <2> QED
    BY <2>1, <2>2 DEF Remembered, Named, GrantNotForgotten
\* The claim of the key is the one that is received.
<1>7. ASSUME NEW c \in Claims, NEW d, ClaimTake(c, d) \/ ClaimRefuse(c, d) PROVE Remembered'
  <2>1. /\ UNCHANGED token /\ pc = "claiming" /\ pc' \in {"loop", "deliver"}
        /\ claimKey # NoKey /\ claimKey' = NoKey
        /\ grant'[c] = claimKey /\ call'[c] # "none"
        /\ \A b \in Claims \ {c} :
             grant'[b] = grant[b] /\ grant[b] # claimKey /\ call'[b] = call[b]
    BY <1>7 DEF ClaimTake, ClaimRefuse, Grants, Granted, ForgetKey, Typed, Keyed, Remembered, Named
  <2>2. claimKey.token <= token /\ NoKey.token <= token
    BY DEF Remembered, Named, Typed, NoKey
  <2>3. Named'
    BY <2>1, <2>2 DEF Remembered, Named
  <2>4. GrantNotForgotten'
    BY <2>1 DEF Remembered, GrantNotForgotten
  <2> QED
    BY <2>3, <2>4 DEF Remembered
<1>8. ASSUME NEW c \in Claims,
             CallStep(c) \/ HandlerReturns(c) \/ ReleaseSlot(c) \/ Tick(c) \/ TimeoutPasses(c)
      PROVE  Remembered'
  <2>1. UNCHANGED <<claimKey, grant, token>>
    BY <1>8, CallStepFrame
  <2>2. \A b \in Claims : call'[b] = "none" => call[b] = "none"
    BY <1>8, CallStepFrame DEF Typed, Open, Closed
  <2> QED
    BY <2>1, <2>2, RememberedKept DEF Typed
<1> QED
  BY <1>1, <1>2, <1>3, <1>4, <1>5, <1>6, <1>7, <1>8 DEF Next, RunStep

(***************************************************************************)
(* When the only faults are ones a retry can cure, a claim that was        *)
(* granted and never received is the one the worker asks for next, until   *)
(* its token is replaced or it stops.                                      *)
(***************************************************************************)
THEOREM GrantsRemembered == ASSUME OnlyCurable PROVE Spec => []GrantNotForgotten
<1>1. Inductive /\ Remembered /\ [Next]_vars => Remembered'
  BY RememberedStep DEF Inductive
<1>2. Remembered => GrantNotForgotten
  BY DEF Remembered
<1> QED
  BY <1>1, <1>2, RememberedInit, InductiveInvariant, PTL DEF Spec

-----------------------------------------------------------------------------
(* When nil means a shutdown. *)

\* No exchange ends with a context error before its context does: the HTTP client
\* has no timeout of its own.
NoClientTimeout == \A x \in Exchanges : x.reply \/ x.why \notin {"deadline", "canceled"}

\* Only a context that is done stops the loop.
Stopped ==
  /\ NilMeansShutdown
  /\ pc = "stopping" => ctxDone

LEMMA StoppedStep ==
  ASSUME NoClientTimeout, Stopped, [Next]_vars
  PROVE  Stopped'
<1>. USE DEF Stopped, NilMeansShutdown
<1>1. ASSUME NEW c \in Claims,
             CallStep(c) \/ HandlerReturns(c) \/ ReleaseSlot(c) \/ Tick(c) \/ TimeoutPasses(c)
      PROVE  Stopped'
  BY <1>1, CallStepFrame
<1>2. CASE RegisterFails
  <2>1. ASSUME NEW x \in Arrivals(ctxDone), DoErr(x).ctx, ~ctxDone PROVE FALSE
    <3>1. x \in Exchanges
      BY <2>1 DEF Arrivals
    <3>2. ~x.reply /\ x.why \in {"deadline", "canceled"}
      BY <2>1 DEF DoErr, TransportError, StatusError, Malformed, NoError, Success
    <3>. QED
      BY <3>1, <3>2 DEF NoClientTimeout
  <2>. QED
    BY <1>2, <2>1 DEF RegisterFails
<1>3. CASE CancelCtx \/ StartRun \/ Registered \/ HbFires \/ HbReplies \/ HbStops \/ UNCHANGED vars
  BY <1>3 DEF CancelCtx, StartRun, Registered, HbFires, HbReplies, HbStops, vars, workerVars
<1>4. CASE Acquire \/ LeaveLoop \/ PrepareClaim \/ ClaimFails \/ ClaimNone \/ SleepEnds \/ Return
  BY <1>4 DEF Acquire, LeaveLoop, PrepareClaim, ClaimFails, ClaimNone, SleepEnds, Return, Done
<1>5. ASSUME NEW c \in Claims, NEW d, ClaimTake(c, d) \/ ClaimRefuse(c, d) PROVE Stopped'
  BY <1>5 DEF ClaimTake, ClaimRefuse
<1>. QED
  BY <1>1, <1>2, <1>3, <1>4, <1>5 DEF Next, RunStep

(***************************************************************************)
(* Without a timeout of the HTTP client, Run returns nil for a shutdown    *)
(* only: the timeout is the one exception.                                 *)
(***************************************************************************)
THEOREM NilIsShutdown == ASSUME NoClientTimeout PROVE Spec => []NilMeansShutdown
<1>1. Init => Stopped
  BY DEF Init, Stopped, NilMeansShutdown
<1>2. Stopped /\ [Next]_vars => Stopped'
  BY StoppedStep
<1>3. Stopped => NilMeansShutdown
  BY DEF Stopped
<1>. QED
  BY <1>1, <1>2, <1>3, PTL DEF Spec
=============================================================================
