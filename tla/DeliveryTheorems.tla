-------------------------- MODULE DeliveryTheorems --------------------------
(***************************************************************************)
(* What becomes of the result of a call, for every instance of ToolWorker: *)
(* it is not dropped, and it is not sent again past the deadline; and that *)
(* the worker implements CallContract.                                     *)
(***************************************************************************)
EXTENDS ToolWorkerTheorems

(***************************************************************************)
(* The delivery of one outcome.  The context it is sent under was chosen   *)
(* by the deadline, so a context of 30 seconds means that the deadline had *)
(* passed or was never readable; a repeated outcome is under the deadline  *)
(* itself, or there is none.                                               *)
(***************************************************************************)
Sending == {"send", "inflight", "backoff"}

Delivery(c) ==
  /\ call[c] = "lapsed" => deadline[c] = "expired"
  /\ call[c] = "failed" /\ ~tried[c] => OutcomeCtxOver(c)
  /\ call[c] \in {"none", "await", "drain"} => ~tried[c]
  /\ call[c] = "inflight" => tried[c]
  /\ call[c] \in Sending => octx[c] # "none"
  /\ octx[c] \in {"background", "backgroundOver"} => deadline[c] = "expired"
  /\ octx[c] \in {"run", "runOver"} => deadline[c] \in {"unset", "expired"}
  /\ call[c] \in {"send", "backoff"} /\ tried[c] => octx[c] = "deadline" \/ deadline[c] = "unset"

AllDelivery == \A c \in Claims : Delivery(c)

LEMMA DeliveryInit == Init => AllDelivery
  BY DEF Init, AllDelivery, Delivery, Sending

\* A context that is done stays done.
LEMMA ContextStays == [Next]_vars /\ ctxDone => ctxDone'
  BY CallStepFrame DEF Next, RunStep, CancelCtx, StartRun, Registered, RegisterFails, Acquire,
     LeaveLoop, PrepareClaim, ClaimFails, ClaimNone, ClaimTake, ClaimRefuse, SleepEnds, Return,
     HbFires, HbReplies, HbStops, vars, workerVars

\* A shutdown is never taken back.
LEMMA DoneStays == Typed /\ Staged /\ [Next]_vars /\ Done => Done'
  BY StageStays, ContextStays DEF Done

\* A call the step does not touch.
LEMMA DeliveryKept ==
  ASSUME NEW c \in Claims, Delivery(c), Done => Done',
         call'[c] = call[c], deadline'[c] = deadline[c],
         octx'[c] = octx[c], tried'[c] = tried[c]
  PROVE  Delivery(c)'
<1>1. OutcomeCtxOver(c) => OutcomeCtxOver(c)'
  BY DEF OutcomeCtxOver
<1> QED
  BY <1>1 DEF Delivery

LEMMA FinishDelivery ==
  ASSUME Typed, AllDelivery, NEW c \in Claims, NEW end \in Closed, Finish(c, end),
         Done => Done',
         end = "lapsed" => deadline[c] = "expired",
         end = "failed" => tried[c] \/ OutcomeCtxOver(c)
  PROVE  AllDelivery'
<1>1. /\ UNCHANGED <<deadline, octx, tried>> /\ call'[c] = end
      /\ \A b \in Claims \ {c} : call'[b] = call[b]
  BY DEF Finish, callRest, Typed
<1>2. \A b \in Claims \ {c} : Delivery(b)'
  BY <1>1, DeliveryKept DEF AllDelivery
<1>3. OutcomeCtxOver(c) => OutcomeCtxOver(c)'
  BY <1>1 DEF OutcomeCtxOver
<1>4. Delivery(c)'
  BY <1>1, <1>3 DEF AllDelivery, Delivery, Closed, Sending
<1> QED
  BY <1>2, <1>4 DEF AllDelivery

LEMMA DeliveryStep == Inductive /\ AllDelivery /\ [Next]_vars => AllDelivery'
<1>. SUFFICES ASSUME Inductive, AllDelivery, [Next]_vars PROVE AllDelivery'
  OBVIOUS
<1>1. Typed /\ Keyed /\ Staged /\ (Done => Done')
  BY DoneStays DEF Inductive
<1>2. CASE UNCHANGED <<call, deadline, octx, tried>>
  BY <1>1, <1>2, DeliveryKept DEF AllDelivery
<1>3. CASE \/ CancelCtx \/ StartRun \/ Registered \/ RegisterFails \/ Acquire \/ LeaveLoop
           \/ PrepareClaim \/ ClaimFails \/ ClaimNone \/ SleepEnds \/ Return
           \/ HbFires \/ HbReplies \/ HbStops \/ UNCHANGED vars
  BY <1>2, <1>3 DEF CancelCtx, StartRun, Registered, RegisterFails, Acquire, LeaveLoop,
     PrepareClaim, ClaimFails, ClaimNone, SleepEnds, Return, HbFires, HbReplies, HbStops,
     vars, callVars
<1>4. ASSUME NEW c \in Claims, NEW d, ClaimTake(c, d) PROVE AllDelivery'
  <2>1. call[c] = "none" /\ octx[c] = "none"
    BY <1>1, <1>4 DEF ClaimTake, Grants, Keyed, Staged
  <2>2. Delivery(c)'
    BY <1>1, <1>4, <2>1 DEF ClaimTake, AllDelivery, Delivery, Sending, Typed
  <2>3. ASSUME NEW b \in Claims \ {c} PROVE Delivery(b)'
    BY <1>1, <1>4, DeliveryKept DEF ClaimTake, AllDelivery, Typed
  <2> QED
    BY <2>2, <2>3 DEF AllDelivery
<1>5. ASSUME NEW c \in Claims, NEW d \in {"unset", "expired"}, ClaimRefuse(c, d)
      PROVE  AllDelivery'
  <2>1. call[c] = "none"
    BY <1>1, <1>5 DEF ClaimRefuse, Grants, Keyed
  <2>2. Delivery(c)'
    BY <1>1, <1>5, <2>1 DEF ClaimRefuse, AllDelivery, Delivery, Sending, Typed
  <2>3. ASSUME NEW b \in Claims \ {c} PROVE Delivery(b)'
    BY <1>1, <1>5, DeliveryKept DEF ClaimRefuse, AllDelivery, Typed
  <2> QED
    BY <2>2, <2>3 DEF AllDelivery
<1>6. ASSUME NEW c \in Claims, HandlerReturns(c) \/ ReleaseSlot(c) PROVE AllDelivery'
  BY <1>2, <1>6 DEF HandlerReturns, ReleaseSlot
<1>7. ASSUME NEW c \in Claims, (AwaitLapses(c) /\ deadline[c] = "expired") \/ DrainTimer(c)
      PROVE  AllDelivery'
  BY <1>1, <1>7, FinishDelivery DEF AwaitLapses, DrainTimer, Closed
<1>8. ASSUME NEW c \in Claims,
             SendExpired(c) \/ OutcomeAccepted(c) \/ OutcomeAbandoned(c) \/ BackoffCancelled(c)
      PROVE  AllDelivery'
  <2>1. \E end \in {"reported", "failed"} : Finish(c, end)
    BY <1>8 DEF SendExpired, OutcomeAccepted, OutcomeAbandoned, BackoffCancelled
  <2>2. tried[c] \/ OutcomeCtxOver(c)
    BY <1>8 DEF SendExpired, OutcomeAccepted, OutcomeAbandoned, BackoffCancelled,
       AllDelivery, Delivery
  <2> QED
    BY <1>1, <2>1, <2>2, FinishDelivery DEF Closed
<1>9. ASSUME NEW c \in Claims,
             \/ TakeResult(c) \/ SendOutcome(c) \/ OutcomeBacksOff(c) \/ BackoffWakes(c)
             \/ (AwaitLapses(c) /\ deadline[c] # "expired") \/ Tick(c) \/ TimeoutPasses(c)
      PROVE  AllDelivery'
  <2>1. ASSUME NEW b \in Claims \ {c} PROVE Delivery(b)'
    <3>1. /\ call'[b] = call[b] /\ deadline'[b] = deadline[b]
          /\ octx'[b] = octx[b] /\ tried'[b] = tried[b]
      BY <1>1, <1>9 DEF TakeResult, SendOutcome, OutcomeBacksOff, BackoffWakes, AwaitLapses,
         Tick, TimeoutPasses, callRest, Typed
    <3> QED
      BY <1>1, <3>1, DeliveryKept DEF AllDelivery
  <2>2. Delivery(c)
    BY DEF AllDelivery
  <2>3. ASSUME TakeResult(c) PROVE Delivery(c)'
    BY <1>1, <2>2, <2>3 DEF TakeResult, OutcomeContext, Delivery, Sending, Staged, Typed
  <2>4. ASSUME SendOutcome(c) PROVE Delivery(c)'
    BY <1>1, <2>2, <2>4 DEF SendOutcome, Delivery, Sending, Typed
  <2>5. ASSUME OutcomeBacksOff(c) \/ BackoffWakes(c) PROVE Delivery(c)'
    BY <1>1, <2>2, <2>5 DEF OutcomeBacksOff, BackoffWakes, MayRetry, callRest, Delivery, Sending, Typed
  <2>6. ASSUME AwaitLapses(c) /\ deadline[c] # "expired" PROVE Delivery(c)'
    BY <1>1, <2>2, <2>6 DEF AwaitLapses, callRest, Delivery, Sending, Typed
  <2>7. ASSUME Tick(c) PROVE Delivery(c)'
    BY <1>1, <2>2, <2>7 DEF Tick, Open, Delivery, Sending, Typed
  <2>8. ASSUME TimeoutPasses(c) PROVE Delivery(c)'
    BY <1>1, <2>2, <2>8 DEF TimeoutPasses, Open, Delivery, Sending, Typed
  <2>9. Delivery(c)'
    BY <1>9, <2>3, <2>4, <2>5, <2>6, <2>7, <2>8
  <2> QED
    BY <2>1, <2>9 DEF AllDelivery
<1> QED
  BY <1>3, <1>4, <1>5, <1>6, <1>7, <1>8, <1>9 DEF Next, RunStep, CallStep

LEMMA DeliveryInvariant == Spec => []AllDelivery
  BY DeliveryInit, DeliveryStep, InductiveInvariant, PTL DEF Spec

(***************************************************************************)
(* A call is given up without its result only once its deadline has        *)
(* passed, and an outcome that was never sent had no context left.         *)
(***************************************************************************)
THEOREM ResultsKept == Spec => []NoResultDropped
<1>1. AllDelivery => NoResultDropped
  BY DEF AllDelivery, Delivery, NoResultDropped
<1> QED
  BY <1>1, DeliveryInvariant, PTL

(***************************************************************************)
(* An outcome that was sent is not sent again past the claim deadline.     *)
(***************************************************************************)
THEOREM NoRetryPastDeadline == Spec => OneAttemptPastDeadline
<1>. DEFINE InTime(c) ==
        call[c] = "send" /\ call'[c] = "inflight" /\ tried[c] => deadline[c] # "expired"
<1>1. ASSUME Inductive, AllDelivery, Next PROVE \A c \in Claims : InTime(c)
  <2>. SUFFICES ASSUME NEW c \in Claims, call[c] = "send", call'[c] = "inflight", tried[c]
                PROVE  deadline[c] # "expired"
    OBVIOUS
  <2>1. ~OutcomeCtxOver(c)
    <3>. SUFFICES ASSUME ~SendOutcome(c) PROVE FALSE
      BY DEF SendOutcome
    <3>1. Typed /\ Keyed
      BY <1>1 DEF Inductive
    <3>2. ASSUME NEW b \in Claims, CallStep(b) PROVE FALSE
      <4>1. CASE b = c
        BY <3>1, <3>2, <4>1 DEF CallStep, TakeResult, AwaitLapses, DrainTimer, SendExpired,
           OutcomeAccepted, OutcomeAbandoned, OutcomeBacksOff, BackoffWakes, BackoffCancelled,
           Finish, Typed
      <4>2. CASE b # c
        BY <3>1, <3>2, <4>2, CallStepFrame DEF Typed
      <4> QED
        BY <4>1, <4>2
    <3>3. ASSUME NEW b \in Claims, NEW d, ClaimTake(b, d) \/ ClaimRefuse(b, d) PROVE FALSE
      BY <3>1, <3>3 DEF ClaimTake, ClaimRefuse, Typed
    <3>4. call' # call
      OBVIOUS
    <3> QED
      BY <1>1, <3>2, <3>3, <3>4 DEF Next, RunStep, CancelCtx, StartRun, Registered, RegisterFails,
         Acquire, LeaveLoop, PrepareClaim, ClaimFails, ClaimNone, SleepEnds, Return,
         HandlerReturns, ReleaseSlot, Tick, TimeoutPasses, HbFires, HbReplies, HbStops, callVars
  <2> QED
    BY <1>1, <2>1 DEF AllDelivery, Delivery, OutcomeCtxOver
<1>2. Inductive /\ AllDelivery /\ [Next]_vars => [\A c \in Claims : InTime(c)]_vars
  BY <1>1
<1> QED
  BY <1>2, InductiveInvariant, DeliveryInvariant, PTL DEF Spec, OneAttemptPastDeadline

-----------------------------------------------------------------------------
(***************************************************************************)
(* A call that was taken has a deadline, or an unreadable one, and one     *)
(* that failed had no time left for another attempt.                       *)
(***************************************************************************)
Persistent(c) ==
  /\ call[c] # "none" => deadline[c] # "none"
  /\ call[c] = "failed" => deadline[c] \in {"late", "expired"} \/ OutcomeCtxOver(c)

AllPersistent == \A c \in Claims : Persistent(c)

\* Only a failure for want of time ends a call as failed.
LEMMA FailsForTime ==
  ASSUME OnlyCurable, Typed, NEW c \in Claims, deadline[c] # "none",
         SendExpired(c) \/ OutcomeAbandoned(c) \/ BackoffCancelled(c)
  PROVE  deadline[c] \in {"late", "expired"} \/ OutcomeCtxOver(c)
<1>. SUFFICES ASSUME ~OutcomeCtxOver(c) PROVE deadline[c] \in {"late", "expired"}
  OBVIOUS
<1>1. PICK x \in Exchanges : ~SubmitErr(x).nil /\ (IsRetryable(SubmitErr(x)) => ~MayRetry(c))
  BY DEF SendExpired, BackoffCancelled, OutcomeAbandoned, Arrivals
<1>2. ~MayRetry(c)
  BY <1>1, CurableMeans, ExchangesAssumption DEF OnlyCurable
<1> QED
  BY <1>2 DEF MayRetry, Typed

LEMMA PersistentStep ==
  ASSUME OnlyCurable
  PROVE  Inductive /\ AllPersistent /\ [Next]_vars => AllPersistent'
<1>. SUFFICES ASSUME Inductive, AllPersistent, [Next]_vars PROVE AllPersistent'
  OBVIOUS
<1>1. Typed /\ Keyed /\ (Done => Done')
  BY DoneStays DEF Inductive
<1>2. ASSUME NEW c \in Claims, call'[c] = call[c] \/ (call[c] # "none" /\ call'[c] # "failed"),
             deadline'[c] = deadline[c], octx'[c] = octx[c] \/ call'[c] # "failed"
      PROVE  Persistent(c)'
  BY <1>1, <1>2 DEF AllPersistent, Persistent, OutcomeCtxOver
<1>3. CASE \/ CancelCtx \/ StartRun \/ Registered \/ RegisterFails \/ Acquire \/ LeaveLoop
           \/ PrepareClaim \/ ClaimFails \/ ClaimNone \/ SleepEnds \/ Return
           \/ HbFires \/ HbReplies \/ HbStops \/ UNCHANGED vars
  <2>1. UNCHANGED <<call, deadline, octx>>
    BY <1>3 DEF CancelCtx, StartRun, Registered, RegisterFails, Acquire, LeaveLoop,
       PrepareClaim, ClaimFails, ClaimNone, SleepEnds, Return, HbFires, HbReplies, HbStops,
       vars, callVars
  <2> QED
    BY <1>2, <2>1 DEF AllPersistent
<1>4. ASSUME NEW c \in Claims, NEW d \in {"early", "late", "unset", "expired"},
             ClaimTake(c, d) \/ ClaimRefuse(c, d)
      PROVE  AllPersistent'
  <2>1. Persistent(c)'
    BY <1>1, <1>4 DEF ClaimTake, ClaimRefuse, Persistent, Typed
  <2>2. ASSUME NEW b \in Claims \ {c} PROVE Persistent(b)'
    BY <1>1, <1>2, <1>4 DEF ClaimTake, ClaimRefuse, Typed
  <2> QED
    BY <2>1, <2>2 DEF AllPersistent
<1>5. ASSUME NEW c \in Claims, NEW end \in Closed, Finish(c, end), call[c] \in Open,
             end = "failed" => deadline[c] \in {"late", "expired"} \/ OutcomeCtxOver(c)
      PROVE  AllPersistent'
  <2>1. /\ UNCHANGED <<deadline, octx>> /\ call'[c] = end
        /\ \A b \in Claims \ {c} : call'[b] = call[b]
    BY <1>1, <1>5 DEF Finish, callRest, Typed
  <2>2. OutcomeCtxOver(c) => OutcomeCtxOver(c)'
    BY <1>1, <2>1 DEF OutcomeCtxOver
  <2>3. Persistent(c)'
    BY <1>5, <2>1, <2>2 DEF AllPersistent, Persistent, Open
  <2>4. ASSUME NEW b \in Claims \ {c} PROVE Persistent(b)'
    BY <1>2, <2>1
  <2> QED
    BY <2>3, <2>4 DEF AllPersistent
<1>6. ASSUME NEW c \in Claims, SendExpired(c) \/ OutcomeAbandoned(c) \/ BackoffCancelled(c)
      PROVE  AllPersistent'
  <2>1. call[c] \in Open /\ Finish(c, "failed")
    BY <1>6 DEF SendExpired, OutcomeAbandoned, BackoffCancelled, Open
  <2>2. deadline[c] # "none"
    BY <2>1 DEF AllPersistent, Persistent, Open
  <2> QED
    BY <1>1, <1>5, <1>6, <2>1, <2>2, FailsForTime DEF Closed
<1>7. ASSUME NEW c \in Claims,
             \/ OutcomeAccepted(c) \/ DrainTimer(c) \/ (AwaitLapses(c) /\ deadline[c] = "expired")
      PROVE  AllPersistent'
  BY <1>5, <1>7 DEF OutcomeAccepted, DrainTimer, AwaitLapses, Open, Closed
<1>8. ASSUME NEW c \in Claims,
             \/ TakeResult(c) \/ SendOutcome(c) \/ OutcomeBacksOff(c) \/ BackoffWakes(c)
             \/ (AwaitLapses(c) /\ deadline[c] # "expired") \/ TimeoutPasses(c)
      PROVE  AllPersistent'
  <2>1. /\ UNCHANGED deadline
        /\ call[c] \in Open /\ call'[c] \in Open
        /\ \A b \in Claims \ {c} : call'[b] = call[b] /\ octx'[b] = octx[b]
    BY <1>1, <1>8 DEF TakeResult, SendOutcome, OutcomeBacksOff, BackoffWakes, AwaitLapses,
       TimeoutPasses, callRest, Open, Typed
  <2> QED
    BY <1>2, <2>1 DEF AllPersistent, Open
<1>9. ASSUME NEW c \in Claims, HandlerReturns(c) \/ ReleaseSlot(c) PROVE AllPersistent'
  BY <1>2, <1>9 DEF HandlerReturns, ReleaseSlot, AllPersistent
<1>10. ASSUME NEW c \in Claims, Tick(c) PROVE AllPersistent'
  <2>1. Persistent(c)'
    BY <1>1, <1>10 DEF Tick, Persistent, Open, Typed
  <2>2. ASSUME NEW b \in Claims \ {c} PROVE Persistent(b)'
    BY <1>1, <1>2, <1>10 DEF Tick, Typed
  <2> QED
    BY <2>1, <2>2 DEF AllPersistent
<1> QED
  BY <1>3, <1>4, <1>6, <1>7, <1>8, <1>9, <1>10 DEF Next, RunStep, CallStep

(***************************************************************************)
(* When the only faults are ones a retry can cure, an outcome is given up  *)
(* only when the deadline is nearer than a poll interval or its context is *)
(* over.                                                                   *)
(***************************************************************************)
THEOREM RetriedWhileTimeIsLeft == ASSUME OnlyCurable PROVE Spec => []RetriedUntilDeadline
<1>1. Init => AllPersistent
  BY DEF Init, AllPersistent, Persistent
<1>2. Inductive /\ AllPersistent /\ [Next]_vars => AllPersistent'
  BY PersistentStep
<1>3. AllPersistent => RetriedUntilDeadline
  BY DEF AllPersistent, Persistent, RetriedUntilDeadline
<1> QED
  BY <1>1, <1>2, <1>3, InductiveInvariant, PTL DEF Spec

-----------------------------------------------------------------------------
(* The refinement of CallContract. *)

\* What the contract sees of a step that leaves the stages and handlers alone.
LEMMA ContractStutter ==
  ASSUME \A c \in Claims : Stage(c)' = Stage(c), Busy' = Busy,
         (pc = "returned")' = (pc = "returned")
  PROVE  UNCHANGED Contract!vars
  BY DEF Contract!vars

LEMMA ContractInit == Init => Contract!Init
  BY DEF Init, Contract!Init, Stage, Busy

\* The end of a call closes it.
LEMMA ContractClose ==
  ASSUME Typed, Staged, NEW c \in Claims, NEW end \in Closed, Finish(c, end), call[c] \in Open
  PROVE  Contract!Close(c)
<1>1. /\ UNCHANGED handler /\ call'[c] = end
      /\ \A b \in Claims \ {c} : call'[b] = call[b]
  BY DEF Finish, callRest, Typed
<1>2. Stage(c) = "open" /\ Stage(c)' = "closed"
  BY <1>1 DEF Stage, Open, Closed
<1>3. \A b \in Claims \ {c} : Stage(b)' = Stage(b)
  BY <1>1 DEF Stage
<1>4. Busy' = Busy
  BY <1>1 DEF Busy
<1>5. (pc = "returned")' = (pc = "returned")
  BY DEF Finish, Staged, Delivered
<1> QED
  BY <1>2, <1>3, <1>4, <1>5 DEF Contract!Close

LEMMA ContractStep ==
  Inductive /\ ReturnedClean /\ ReturnedClean' /\ [Next]_vars => [Contract!Next]_Contract!vars
<1>. SUFFICES ASSUME Inductive, ReturnedClean, ReturnedClean', [Next]_vars
              PROVE  Contract!Next \/ UNCHANGED Contract!vars
  OBVIOUS
<1>. USE DEF Inductive
<1>1. ASSUME UNCHANGED <<call, handler>>, (pc = "returned") <=> (pc' = "returned")
      PROVE  UNCHANGED Contract!vars
  BY <1>1, ContractStutter DEF Stage, Busy
<1>2. CASE \/ CancelCtx \/ StartRun \/ Registered \/ Acquire \/ LeaveLoop \/ PrepareClaim
           \/ ClaimFails \/ ClaimNone \/ SleepEnds \/ HbFires \/ HbReplies \/ HbStops
           \/ UNCHANGED vars
  BY <1>1, <1>2 DEF CancelCtx, StartRun, Registered, Acquire, LeaveLoop, PrepareClaim,
     ClaimFails, ClaimNone, SleepEnds, HbFires, HbReplies, HbStops, vars, workerVars, callVars
<1>3. CASE RegisterFails \/ Return
  <2>1. pc # "returned" /\ pc' = "returned" /\ UNCHANGED <<call, handler>>
    BY <1>3 DEF RegisterFails, Return, callVars
  <2>2. \A c \in Claims : call[c] \notin Open
    BY <2>1 DEF ReturnedClean
  <2>3. /\ \A c \in Claims : Stage(c)' = Stage(c) /\ Stage(c) # "open"
        /\ Busy' = Busy
    BY <2>1, <2>2 DEF Stage, Busy
  <2> QED
    BY <2>1, <2>3 DEF Contract!Next, Contract!Return
<1>4. ASSUME NEW c \in Claims, NEW d, ClaimTake(c, d) \/ ClaimRefuse(c, d)
      PROVE  Contract!Next
  <2>1. call[c] = "none" /\ handler[c] = "none" /\ pc = "claiming" /\ pc' # "returned"
    BY <1>4 DEF ClaimTake, ClaimRefuse, Grants, Keyed, Staged
  <2>2. /\ call'[c] \in {"await", "send"}
        /\ \A b \in Claims \ {c} : call'[b] = call[b]
    BY <1>4 DEF ClaimTake, ClaimRefuse, Typed
  <2>3. /\ Stage(c) = "new" /\ Stage(c)' = "open"
        /\ \A b \in Claims \ {c} : Stage(b)' = Stage(b)
    BY <2>1, <2>2 DEF Stage, Open
  <2>4. Contract!Open(c)
    BY <2>1, <2>3 DEF Contract!Open
  <2>5. CASE ClaimTake(c, d)
    <3>1. Busy' = Busy \cup {c}
      BY <2>5 DEF ClaimTake, Busy, Typed
    <3>2. Cardinality(Busy) < MaxConcurrentCalls
      BY <2>1, Finite, MaxConcurrentCallsAssumption DEF Counted, SlotsBalanced, LoopSlot, Typed
    <3>3. Contract!Cardinality(Busy) = Cardinality(Busy)
      BY DEF Contract!Cardinality, Cardinality
    <3> QED
      BY <2>4, <3>1, <3>2, <3>3 DEF Contract!Next, Contract!Begin
  <2>6. CASE ClaimRefuse(c, d)
    <3>1. Busy' = Busy
      BY <2>6 DEF ClaimRefuse, Busy
    <3> QED
      BY <2>4, <3>1 DEF Contract!Next, Contract!Refuse
  <2> QED
    BY <1>4, <2>5, <2>6
<1>5. ASSUME NEW c \in Claims, ReleaseSlot(c) PROVE Contract!Next
  <2>1. c \in Busy /\ Busy' = Busy \ {c}
    BY <1>5 DEF ReleaseSlot, Busy, Typed
  <2>2. UNCHANGED pc /\ \A b \in Claims : Stage(b)' = Stage(b)
    BY <1>5 DEF ReleaseSlot, Stage
  <2> QED
    BY <2>1, <2>2 DEF Contract!Next, Contract!HandlerEnds
<1>6. ASSUME NEW c \in Claims,
             \/ DrainTimer(c) \/ SendExpired(c) \/ OutcomeAccepted(c) \/ OutcomeAbandoned(c)
             \/ BackoffCancelled(c) \/ (AwaitLapses(c) /\ deadline[c] = "expired")
      PROVE  Contract!Next
  BY <1>6, ContractClose DEF DrainTimer, SendExpired, OutcomeAccepted, OutcomeAbandoned,
     BackoffCancelled, AwaitLapses, Closed, Open, Contract!Next
<1>7. ASSUME NEW c \in Claims,
             \/ TakeResult(c) \/ SendOutcome(c) \/ OutcomeBacksOff(c) \/ BackoffWakes(c)
             \/ HandlerReturns(c) \/ Tick(c) \/ TimeoutPasses(c)
             \/ (AwaitLapses(c) /\ deadline[c] # "expired")
      PROVE  UNCHANGED Contract!vars
  <2>1. UNCHANGED pc
    BY <1>7 DEF TakeResult, SendOutcome, OutcomeBacksOff, BackoffWakes, HandlerReturns, Tick,
       TimeoutPasses, AwaitLapses, workerVars
  <2>2. Busy' = Busy
    BY <1>7 DEF TakeResult, SendOutcome, OutcomeBacksOff, BackoffWakes, HandlerReturns, Tick,
       TimeoutPasses, AwaitLapses, callRest, Busy, Typed
  <2>3. \A b \in Claims : Stage(b)' = Stage(b)
    BY <1>7 DEF TakeResult, SendOutcome, OutcomeBacksOff, BackoffWakes, HandlerReturns, Tick,
       TimeoutPasses, AwaitLapses, callRest, Stage, Open, Typed
  <2> QED
    BY <2>1, <2>2, <2>3, ContractStutter
<1> QED
  BY <1>2, <1>3, <1>4, <1>5, <1>6, <1>7 DEF Next, RunStep, CallStep

(***************************************************************************)
(* The worker implements CallContract: whatever the network and the        *)
(* handlers do, a call is opened at most once and has at most one handler, *)
(* handlers are limited, and nothing is open once Run has returned.        *)
(***************************************************************************)
THEOREM ImplementsContract == Spec => KeepsContract
  BY ContractInit, ContractStep, InductiveInvariant, ReturnsClean, PTL
  DEF Spec, KeepsContract, Contract!Spec
=============================================================================
