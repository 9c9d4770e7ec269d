----------------------------- MODULE ToolWorker -----------------------------
(***************************************************************************)
(* One run of serverapi.ToolWorker: the main loop of Run, one goroutine    *)
(* per claimed call, one goroutine per handler, the heartbeat goroutine,   *)
(* and the server as the worker sees it.                                   *)
(*                                                                         *)
(* Time is abstracted to what the code compares: whether a claim deadline  *)
(* is further away than the poll interval ("early"), nearer than that      *)
(* ("late") or passed ("expired").  Every HTTP exchange ends in one of     *)
(* Exchanges, or, when its context is over, in a cancelled request.  The   *)
(* server grants a claim at most once, under the idempotency key of the    *)
(* request, and answers a repeated key with the same claim.                *)
(***************************************************************************)
EXTENDS ApiErrors, FiniteSets

CONSTANTS
  Claims,              \* the tool calls the server has to hand out
  MaxConcurrentCalls,  \* config.MaxConcurrentCalls, after its default
  Exchanges,           \* how an HTTP exchange can end
  MaxAttempts,         \* bound: distinct claim keys one run builds
  MaxToken             \* bound: executor tokens the server issues

ASSUME ClaimsAssumption == IsFiniteSet(Claims)
ASSUME MaxConcurrentCallsAssumption == MaxConcurrentCalls \in Nat \ {0}
ASSUME ExchangesAssumption == Exchanges \subseteq Exchange
ASSUME BoundsAssumption == MaxAttempts \in Nat \ {0} /\ MaxToken \in Nat \ {0}

VARIABLES
  pc,        \* where Run is
  ctxDone,   \* the context given to Run is done
  runErr,    \* what Run returned: "none" before it returns, "nil", "error"
  sem,       \* slots taken in the channel sem
  wg,        \* the WaitGroup of the call goroutines
  token,     \* registration.ExecutorToken, by serial number; 0 before the first
  attempt,   \* the counter that makes claim keys fresh
  claimKey,  \* claimKey and claimToken; NoKey is the empty string
  hb,        \* the heartbeat goroutine
  call,      \* per claim, the goroutine that reports it
  handler,   \* per claim, the goroutine that runs w.execute
  deadline,  \* per claim, claim.ClaimExpiresAt against the clock
  octx,      \* per claim, the context its outcome is sent under
  tried,     \* per claim, an outcome request has been sent
  grant      \* the server: per claim, the key under which it was granted

workerVars == <<pc, ctxDone, runErr, sem, wg, token, attempt, claimKey, hb>>
callVars == <<call, handler, deadline, octx, tried>>
callRest == <<handler, deadline, octx, tried, grant>>
vars == <<workerVars, callVars, grant>>

NoKey == [token |-> 0, attempt |-> 0]
Key == [token : 1 .. MaxToken, attempt : 1 .. MaxAttempts]

\* runCtx is done: its parent is, or Run has called cancel.
Done == ctxDone \/ pc \in {"stopping", "returned"}

\* How a request whose context is over, or not, may end.
Arrivals(over) ==
  Exchanges \cup IF over THEN {NoReply("canceled"), Reply(200, "bad")} ELSE {}

Open == {"await", "drain", "send", "inflight", "backoff"}
Closed == {"reported", "failed", "lapsed"}

\* Handlers that hold a slot of sem: the slot is released last.
Busy == {c \in Claims : handler[c] \in {"running", "sent"}}

\* The outcome of c is sent by the main loop, not by a goroutine of its own.
ByMain(c) == octx[c] \in {"run", "runOver"}

OutcomeCtxOver(c) ==
  \/ octx[c] = "deadline" /\ deadline[c] = "expired"
  \/ octx[c] = "run" /\ Done
  \/ octx[c] \in {"backgroundOver", "runOver"}

TypeOK ==
  /\ pc \in {"idle", "registering", "loop", "acquired", "claiming", "sleep",
             "deliver", "stopping", "returned"}
  /\ ctxDone \in BOOLEAN
  /\ runErr \in {"none", "nil", "error"}
  /\ sem \in 0 .. MaxConcurrentCalls
  /\ wg \in Nat
  /\ token \in 0 .. MaxToken
  /\ attempt \in 0 .. MaxAttempts
  /\ claimKey \in Key \cup {NoKey}
  /\ hb \in {"off", "wait", "register", "heartbeat", "stopped"}
  /\ call \in [Claims -> {"none"} \cup Open \cup Closed]
  /\ handler \in [Claims -> {"none", "running", "sent", "exited"}]
  /\ deadline \in [Claims -> {"none", "early", "late", "expired", "unset"}]
  /\ octx \in [Claims -> {"none", "deadline", "background", "backgroundOver",
                          "run", "runOver"}]
  /\ tried \in [Claims -> BOOLEAN]
  /\ grant \in [Claims -> Key \cup {NoKey}]

Init ==
  /\ pc = "idle"
  /\ ctxDone = FALSE
  /\ runErr = "none"
  /\ sem = 0
  /\ wg = 0
  /\ token = 0
  /\ attempt = 0
  /\ claimKey = NoKey
  /\ hb = "off"
  /\ call = [c \in Claims |-> "none"]
  /\ handler = [c \in Claims |-> "none"]
  /\ deadline = [c \in Claims |-> "none"]
  /\ octx = [c \in Claims |-> "none"]
  /\ tried = [c \in Claims |-> FALSE]
  /\ grant = [c \in Claims |-> NoKey]

-----------------------------------------------------------------------------
(* Run: registration. *)

\* The caller cancels the context of Run, or its deadline passes.
CancelCtx ==
  /\ ~ctxDone
  /\ ctxDone' = TRUE
  /\ UNCHANGED <<pc, runErr, sem, wg, token, attempt, claimKey, hb, callVars, grant>>

\* A second call of Run fails the compare-and-swap and changes nothing.
StartRun ==
  /\ pc = "idle"
  /\ pc' = "registering"
  /\ UNCHANGED <<ctxDone, runErr, sem, wg, token, attempt, claimKey, hb, callVars, grant>>

Registered ==
  /\ pc = "registering"
  /\ \E x \in Arrivals(ctxDone) : DoErr(x).nil
  /\ token' = 1
  /\ hb' = "wait"
  /\ pc' = "loop"
  /\ UNCHANGED <<ctxDone, runErr, sem, wg, attempt, claimKey, callVars, grant>>

\* A context error of the first registration is taken for a shutdown.
RegisterFails ==
  /\ pc = "registering"
  /\ \E x \in Arrivals(ctxDone) :
       /\ ~DoErr(x).nil
       /\ runErr' = IF DoErr(x).ctx THEN "nil" ELSE "error"
  /\ pc' = "returned"
  /\ UNCHANGED <<ctxDone, sem, wg, token, attempt, claimKey, hb, callVars, grant>>

-----------------------------------------------------------------------------
(* Run: the claim loop. *)

\* A mutant: a channel one slot too large.
SlotFreeOffByOne == sem <= MaxConcurrentCalls

SlotFree == sem < MaxConcurrentCalls

\* A mutant: a path of the loop that forgets its slot.
LeakSlot == UNCHANGED sem

\* <-sem in the main loop.
GiveSlotBack == sem' = sem - 1

\* select takes the slot even when runCtx is done as well.
Acquire ==
  /\ pc = "loop"
  /\ SlotFree
  /\ sem' = sem + 1
  /\ pc' = "acquired"
  /\ UNCHANGED <<ctxDone, runErr, wg, token, attempt, claimKey, hb, callVars, grant>>

\* Leaving from "acquired" keeps the slot: nobody waits for it any more.
LeaveLoop ==
  /\ pc \in {"loop", "acquired"}
  /\ Done
  /\ pc' = "stopping"
  /\ UNCHANGED <<ctxDone, runErr, sem, wg, token, attempt, claimKey, hb, callVars, grant>>

\* A mutant: a fresh key for every request.
KeyNeverReusable == FALSE

\* The key survives only for the token it was built with.
KeyReusable == claimKey # NoKey /\ claimKey.token = token

PrepareClaim ==
  /\ pc = "acquired"
  /\ ~Done
  /\ IF KeyReusable
       THEN UNCHANGED <<attempt, claimKey>>
       ELSE /\ attempt < MaxAttempts
            /\ attempt' = attempt + 1
            /\ claimKey' = [token |-> token, attempt |-> attempt + 1]
  /\ pc' = "claiming"
  /\ UNCHANGED <<ctxDone, runErr, sem, wg, token, hb, callVars, grant>>

\* The server: key already names a granted claim.
Granted(key) == \E c \in Claims : grant[c] = key

\* The server: a request it carries out may grant a claim whose reply is lost.
LostGrant(x) ==
  \/ UNCHANGED grant
  \/ /\ MayApply(x)
     /\ ~Granted(claimKey)
     /\ \E c \in Claims : grant[c] = NoKey /\ grant' = [grant EXCEPT ![c] = claimKey]

\* A retryable error keeps the key, so that the retry finds a lost grant.
ClaimFails ==
  /\ pc = "claiming"
  /\ \E x \in Arrivals(Done) :
       /\ ~DoErr(x).nil
       /\ LostGrant(x)
       /\ claimKey' = IF Done \/ IsRetryable(DoErr(x)) THEN claimKey ELSE NoKey
  /\ GiveSlotBack
  /\ pc' = IF Done THEN "stopping" ELSE "sleep"
  /\ UNCHANGED <<ctxDone, runErr, wg, token, attempt, hb, callVars>>

\* A mutant: the key outlives the claim it was answered with.
KeepKey == UNCHANGED claimKey

ForgetKey == claimKey' = NoKey

ClaimNone ==
  /\ pc = "claiming"
  /\ \E x \in Exchanges : DoErr(x).nil
  /\ ~Granted(claimKey)
  /\ ForgetKey
  /\ GiveSlotBack
  /\ pc' = "sleep"
  /\ UNCHANGED <<ctxDone, runErr, wg, token, attempt, hb, callVars, grant>>

\* The server answers the request with claim c: a replay of the key's own
\* claim, or a claim it grants now.
Grants(c) ==
  /\ \E x \in Exchanges : DoErr(x).nil
  /\ \/ grant[c] = claimKey
     \/ grant[c] = NoKey /\ ~Granted(claimKey)
  /\ grant' = [grant EXCEPT ![c] = claimKey]

\* A valid deadline: a handler starts, and the slot passes to it.
ClaimTake(c, d) ==
  /\ pc = "claiming"
  /\ Grants(c)
  /\ ForgetKey
  /\ wg' = wg + 1
  /\ call' = [call EXCEPT ![c] = "await"]
  /\ handler' = [handler EXCEPT ![c] = "running"]
  /\ deadline' = [deadline EXCEPT ![c] = d]
  /\ pc' = "loop"
  /\ UNCHANGED <<ctxDone, runErr, sem, token, attempt, hb, octx, tried>>

\* An unreadable or past deadline: Run itself reports an internal failure,
\* under runCtx and 30 seconds.
ClaimRefuse(c, d) ==
  /\ pc = "claiming"
  /\ Grants(c)
  /\ ForgetKey
  /\ call' = [call EXCEPT ![c] = "send"]
  /\ deadline' = [deadline EXCEPT ![c] = d]
  /\ octx' = [octx EXCEPT ![c] = "run"]
  /\ pc' = "deliver"
  /\ UNCHANGED <<ctxDone, runErr, sem, wg, token, attempt, hb, handler, tried>>

SleepEnds ==
  /\ pc = "sleep"
  /\ pc' = "loop"
  /\ UNCHANGED <<ctxDone, runErr, sem, wg, token, attempt, claimKey, hb, callVars, grant>>

\* Two mutants: Run returns without waiting for the one or the other.
HeartbeatForgotten == wg = 0
CallsForgotten == hb = "stopped"

\* wg.Wait and <-heartbeatDone.
AllEnded == wg = 0 /\ hb = "stopped"

Return ==
  /\ pc = "stopping"
  /\ AllEnded
  /\ pc' = "returned"
  /\ runErr' = "nil"
  /\ UNCHANGED <<ctxDone, sem, wg, token, attempt, claimKey, hb, callVars, grant>>

-----------------------------------------------------------------------------
(* The handler goroutine of claim c. *)

\* w.execute ends, by return or recovered panic, and its result is buffered.
HandlerReturns(c) ==
  /\ handler[c] = "running"
  /\ handler' = [handler EXCEPT ![c] = "sent"]
  /\ UNCHANGED <<workerVars, call, deadline, octx, tried, grant>>

\* The deferred receive, after the result is sent and before it is delivered.
ReleaseSlot(c) ==
  /\ handler[c] = "sent"
  /\ handler' = [handler EXCEPT ![c] = "exited"]
  /\ sem' = sem - 1
  /\ UNCHANGED <<pc, ctxDone, runErr, wg, token, attempt, claimKey, hb,
                 call, deadline, octx, tried, grant>>

-----------------------------------------------------------------------------
(* The goroutine of call c: awaiting the result. *)

HasResult(c) == handler[c] \in {"sent", "exited"}

\* A mutant: the goroutine of the call, not the handler, returns the slot.
FinishFreesSlot(c, end) ==
  /\ call' = [call EXCEPT ![c] = end]
  /\ sem' = IF ByMain(c) \/ ~HasResult(c) THEN sem - 1 ELSE sem
  /\ IF ByMain(c) THEN pc' = "loop" /\ UNCHANGED wg ELSE wg' = wg - 1 /\ UNCHANGED pc
  /\ UNCHANGED <<ctxDone, runErr, token, attempt, claimKey, hb, callRest>>

\* The goroutine of c returns, or Run goes on after delivering c itself.
Finish(c, end) ==
  /\ call' = [call EXCEPT ![c] = end]
  /\ IF ByMain(c)
       THEN GiveSlotBack /\ pc' = "loop" /\ UNCHANGED wg
       ELSE wg' = wg - 1 /\ UNCHANGED <<sem, pc>>
  /\ UNCHANGED <<ctxDone, runErr, token, attempt, claimKey, hb, callRest>>

\* A mutant: no bound on the delivery.
UnboundedContext(c) == "none"

\* outcomeContext: the claim deadline, or 30 seconds once it has passed.
OutcomeContext(c) == IF deadline[c] = "expired" THEN "background" ELSE "deadline"

TakeResult(c) ==
  /\ call[c] \in {"await", "drain"}
  /\ HasResult(c)
  /\ call' = [call EXCEPT ![c] = "send"]
  /\ octx' = [octx EXCEPT ![c] = OutcomeContext(c)]
  /\ UNCHANGED <<workerVars, handler, deadline, tried, grant>>

\* A mutant: the context of the call has no deadline.
CallCtxCancelled(c) == Done

\* callCtx is derived from runCtx with the claim deadline.
CallCtxOver(c) == Done \/ deadline[c] = "expired"

\* awaitResult gives up on a handler whose context is over; the goroutine
\* then waits on until the deadline, unless that has passed already.
AwaitLapses(c) ==
  /\ call[c] = "await"
  /\ ~HasResult(c)
  /\ CallCtxOver(c)
  /\ IF deadline[c] = "expired"
       THEN Finish(c, "lapsed")
       ELSE call' = [call EXCEPT ![c] = "drain"] /\ UNCHANGED <<workerVars, callRest>>

\* A mutant: the timer does not run to the deadline.
DrainTimerShort(c) ==
  /\ call[c] = "drain"
  /\ Finish(c, "lapsed")

\* The timer wins, which it may even if a result has just arrived.
DrainTimer(c) ==
  /\ call[c] = "drain"
  /\ deadline[c] = "expired"
  /\ Finish(c, "lapsed")

-----------------------------------------------------------------------------
(* submitOutcomeWithRetry for call c. *)

\* A request is not sent under a context that is over.
SendOutcome(c) ==
  /\ call[c] = "send"
  /\ ~OutcomeCtxOver(c)
  /\ call' = [call EXCEPT ![c] = "inflight"]
  /\ tried' = [tried EXCEPT ![c] = TRUE]
  /\ UNCHANGED <<workerVars, handler, deadline, octx, grant>>

SendExpired(c) ==
  /\ call[c] = "send"
  /\ OutcomeCtxOver(c)
  /\ Finish(c, "failed")

\* A mutant: retried for as long as the context lives.
AlwaysRetry(c) == TRUE

\* A retry must start before the deadline; an unreadable one sets no limit.
MayRetry(c) == deadline[c] \in {"unset", "early"}

OutcomeAccepted(c) ==
  /\ call[c] = "inflight"
  /\ \E x \in Arrivals(OutcomeCtxOver(c)) : SubmitErr(x).nil
  /\ Finish(c, "reported")

OutcomeAbandoned(c) ==
  /\ call[c] = "inflight"
  /\ \E x \in Arrivals(OutcomeCtxOver(c)) :
       ~SubmitErr(x).nil /\ (IsRetryable(SubmitErr(x)) => ~MayRetry(c))
  /\ Finish(c, "failed")

OutcomeBacksOff(c) ==
  /\ call[c] = "inflight"
  /\ \E x \in Arrivals(OutcomeCtxOver(c)) : IsRetryable(SubmitErr(x))
  /\ MayRetry(c)
  /\ call' = [call EXCEPT ![c] = "backoff"]
  /\ UNCHANGED <<workerVars, callRest>>

BackoffWakes(c) ==
  /\ call[c] = "backoff"
  /\ call' = [call EXCEPT ![c] = "send"]
  /\ UNCHANGED <<workerVars, callRest>>

BackoffCancelled(c) ==
  /\ call[c] = "backoff"
  /\ OutcomeCtxOver(c)
  /\ Finish(c, "failed")

-----------------------------------------------------------------------------
(* Time. *)

\* The clock moves towards, then past, the claim deadline.
Tick(c) ==
  /\ call[c] \in Open
  /\ deadline[c] \in {"early", "late"}
  /\ deadline' = [deadline EXCEPT ![c] = IF @ = "early" THEN "late" ELSE "expired"]
  /\ UNCHANGED <<workerVars, call, handler, octx, tried, grant>>

\* The 30 seconds of an outcome context that is not the claim deadline pass.
TimeoutPasses(c) ==
  /\ call[c] \in Open
  /\ octx[c] \in {"background", "run"}
  /\ octx' = [octx EXCEPT ![c] = IF @ = "run" THEN "runOver" ELSE "backgroundOver"]
  /\ UNCHANGED <<workerVars, call, handler, deadline, tried, grant>>

-----------------------------------------------------------------------------
(* The heartbeat goroutine; when it fires and which call it makes depend on *)
(* the lifetime of the registration, which is left open here.               *)

HbFires ==
  /\ hb = "wait"
  /\ hb' \in {"register", "heartbeat"}
  /\ UNCHANGED <<pc, ctxDone, runErr, sem, wg, token, attempt, claimKey, callVars, grant>>

\* maintainRegistration stores a fresh registration; every failure, and every
\* heartbeat, leaves the token as it is.
HbReplies ==
  /\ hb \in {"register", "heartbeat"}
  /\ \E x \in Arrivals(Done) :
       IF hb = "register" /\ DoErr(x).nil
         THEN token < MaxToken /\ token' = token + 1
         ELSE UNCHANGED token
  /\ hb' = "wait"
  /\ UNCHANGED <<pc, ctxDone, runErr, sem, wg, attempt, claimKey, callVars, grant>>

HbStops ==
  /\ hb = "wait"
  /\ Done
  /\ hb' = "stopped"
  /\ UNCHANGED <<pc, ctxDone, runErr, sem, wg, token, attempt, claimKey, callVars, grant>>

-----------------------------------------------------------------------------
RunStep ==
  \/ StartRun \/ Registered \/ RegisterFails
  \/ Acquire \/ LeaveLoop \/ PrepareClaim
  \/ ClaimFails \/ ClaimNone
  \/ \E c \in Claims, d \in {"early", "late"} : ClaimTake(c, d)
  \/ \E c \in Claims, d \in {"unset", "expired"} : ClaimRefuse(c, d)
  \/ SleepEnds \/ Return

CallStep(c) ==
  \/ TakeResult(c) \/ AwaitLapses(c) \/ DrainTimer(c)
  \/ SendOutcome(c) \/ SendExpired(c)
  \/ OutcomeAccepted(c) \/ OutcomeAbandoned(c) \/ OutcomeBacksOff(c)
  \/ BackoffWakes(c) \/ BackoffCancelled(c)

Next ==
  \/ CancelCtx
  \/ RunStep
  \/ \E c \in Claims : HandlerReturns(c) \/ ReleaseSlot(c)
  \/ \E c \in Claims : CallStep(c)
  \/ \E c \in Claims : Tick(c) \/ TimeoutPasses(c)
  \/ HbFires \/ HbReplies \/ HbStops

Spec == Init /\ [][Next]_vars
=============================================================================
