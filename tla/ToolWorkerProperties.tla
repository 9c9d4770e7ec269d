------------------------ MODULE ToolWorkerProperties ------------------------
(* What a run of ToolWorker must and must not do. *)
EXTENDS ToolWorker

-----------------------------------------------------------------------------
(* Safety. *)

(***************************************************************************)
(* At most MaxConcurrentCalls handlers exist at a time, and a handler that *)
(* ignores its context counts until it really ends, although its call was  *)
(* given up at the deadline.                                               *)
(***************************************************************************)
HandlerBound == Cardinality(Busy) <= MaxConcurrentCalls

(***************************************************************************)
(* While the worker polls, every slot taken belongs to a handler or to the *)
(* claim the main loop is working on: no path of the loop loses a slot     *)
(* (the worker would poll less and less and then never again) or returns   *)
(* one twice.  A worker that is stopping may leave with one slot of its    *)
(* own.                                                                    *)
(***************************************************************************)
LoopSlot == IF pc \in {"acquired", "claiming", "deliver"} THEN 1 ELSE 0

SlotsBalanced ==
  LET held == Cardinality(Busy) + LoopSlot
  IN  sem = held \/ (pc \in {"stopping", "returned"} /\ sem = held + 1)

(***************************************************************************)
(* No call is handed to a handler, or refused, a second time, although a   *)
(* claim request may be repeated after its reply was lost, the key may be  *)
(* rebuilt for a new token, and the server replays the claim of a key it   *)
(* has seen.                                                               *)
(***************************************************************************)
HandedOutOnce ==
  [][\A c \in Claims : call[c] # "none" =>
        /\ call'[c] = "await" => call[c] = "await"
        /\ handler'[c] = "running" => handler[c] = "running"
        /\ octx'[c] = "run" => octx[c] = "run"]_vars

(***************************************************************************)
(* When Run returns, nothing it started is left but handlers that ignored  *)
(* their context: every call goroutine has ended and so has the heartbeat, *)
(* so no request is sent after Run.                                        *)
(***************************************************************************)
ReturnedClean ==
  pc = "returned" => hb \in {"off", "stopped"} /\ \A c \in Claims : call[c] \notin Open

(***************************************************************************)
(* A result is not thrown away: a call is only given up without a result   *)
(* once its deadline has passed, also during a shutdown, and an outcome    *)
(* that was never sent had no context left to be sent under.               *)
(***************************************************************************)
NoResultDropped ==
  \A c \in Claims :
    /\ call[c] = "lapsed" => deadline[c] = "expired"
    /\ call[c] = "failed" /\ ~tried[c] => OutcomeCtxOver(c)

(***************************************************************************)
(* A request that repeats an outcome is sent only before the claim         *)
(* deadline; past it the outcome gets one attempt, never a second.         *)
(***************************************************************************)
OneAttemptPastDeadline ==
  [][\A c \in Claims :
       call[c] = "send" /\ call'[c] = "inflight" /\ tried[c] => deadline[c] # "expired"]_vars

\* The exchange succeeds, or fails in a way that a retry may cure: for want of
\* time at the server, for too many requests, or for a fault of the server or of
\* the network.
Curable(x) ==
  \/ x.reply /\ x.status = 200 /\ x.body = "good"
  \/ x.reply /\ (x.status \in {408, 429} \/ x.status >= 500)
  \/ ~x.reply /\ x.why \notin {"deadline", "canceled"}

OnlyCurable == \A x \in Exchanges : Curable(x)

(***************************************************************************)
(* When the only faults are ones a retry can cure, an outcome is given up  *)
(* only when the deadline is nearer than a poll interval or its context is *)
(* over.                                                                   *)
(***************************************************************************)
RetriedUntilDeadline ==
  \A c \in Claims :
    call[c] = "failed" => deadline[c] \in {"late", "expired"} \/ OutcomeCtxOver(c)

(***************************************************************************)
(* When the only faults are ones a retry can cure, a claim the server has  *)
(* granted and the worker has not received is still the claim the worker   *)
(* asks for, unless its token was replaced or the worker is stopping.      *)
(***************************************************************************)
GrantNotForgotten ==
  \A c \in Claims :
    grant[c] # NoKey /\ call[c] = "none" =>
      \/ grant[c] = claimKey
      \/ grant[c].token # token
      \/ pc \in {"stopping", "returned"}

(***************************************************************************)
(* Run returns nil for a shutdown: its context was cancelled or timed out. *)
(***************************************************************************)
NilMeansShutdown == runErr = "nil" => ctxDone

-----------------------------------------------------------------------------
(* Liveness.  Handlers need not return, and the peer need not answer: a     *)
(* request ends once its context is over.                                   *)

Fairness ==
  /\ WF_vars(ctxDone /\ (Registered \/ RegisterFails))
  /\ WF_vars(Acquire \/ LeaveLoop \/ PrepareClaim \/ SleepEnds \/ Return)
  /\ WF_vars(Done /\ (ClaimFails \/ ClaimNone))
  /\ WF_vars(Done /\ HbReplies)
  /\ SF_vars(HbStops)
  /\ \A c \in Claims :
       /\ WF_vars(ReleaseSlot(c))
       /\ WF_vars(TakeResult(c) \/ AwaitLapses(c) \/ DrainTimer(c))
       /\ WF_vars(SendOutcome(c) \/ SendExpired(c))
       /\ WF_vars(OutcomeCtxOver(c) /\ (OutcomeAccepted(c) \/ OutcomeAbandoned(c)))
       /\ WF_vars(BackoffWakes(c) \/ BackoffCancelled(c))
       /\ WF_vars(Tick(c))
       /\ WF_vars(TimeoutPasses(c))

FairSpec == Spec /\ Fairness

(***************************************************************************)
(* Once its context is done Run returns, even if every handler ignores its *)
(* context and the server never answers again.                             *)
(***************************************************************************)
ShutdownCompletes == ctxDone /\ pc # "idle" ~> pc = "returned"

(***************************************************************************)
(* Every call the worker takes is reported or given up, shutdown or not,   *)
(* although its handler may never return.                                  *)
(***************************************************************************)
CallsEnd == \A c \in Claims : call[c] \in Open ~> call[c] \in Closed

(***************************************************************************)
(* With handlers that return and a server whose replies get through now    *)
(* and then, a granted claim whose reply was lost is recovered by the      *)
(* retry, unless the worker stops or its token is replaced first.          *)
(***************************************************************************)
RecoverySpec ==
  /\ FairSpec
  /\ WF_vars(ClaimFails \/ ClaimNone)
  /\ \A c \in Claims :
       /\ WF_vars(HandlerReturns(c))
       /\ WF_vars(OutcomeAccepted(c) \/ OutcomeAbandoned(c))
       /\ SF_vars(\/ \E d \in {"early", "late"} : ClaimTake(c, d)
                  \/ \E d \in {"unset", "expired"} : ClaimRefuse(c, d))

GrantRecovered ==
  \A c \in Claims :
    grant[c] # NoKey /\ call[c] = "none" ~>
      call[c] # "none" \/ Done \/ grant[c].token # token

-----------------------------------------------------------------------------
(***************************************************************************)
(* The worker keeps the contract of its calls: call goroutines and the     *)
(* main loop's own deliveries are its open calls, the handlers holding a   *)
(* slot its running ones.                                                  *)
(***************************************************************************)
Stage(c) == IF call[c] = "none" THEN "new" ELSE IF call[c] \in Open THEN "open" ELSE "closed"

Contract == INSTANCE CallContract WITH
  Limit <- MaxConcurrentCalls,
  stage <- [c \in Claims |-> Stage(c)],
  running <- Busy,
  returned <- (pc = "returned")

KeepsContract == Contract!Spec
=============================================================================
