-------------------------- MODULE HeartbeatTheorems --------------------------
(***************************************************************************)
(* What holds of the heartbeat goroutine for every configuration.          *)
(***************************************************************************)
EXTENDS Heartbeat, TLAPS

(***************************************************************************)
(* maintenanceDelay is positive, never above the interval, and fires at    *)
(* the refresh point at the latest unless that has passed, in which case   *)
(* it fires within a second.                                               *)
(***************************************************************************)
LEMMA DelayBounds ==
  ASSUME NEW t \in Int, NEW e \in Int
  PROVE  /\ MaintenanceDelay(t, e) \in Nat
         /\ 0 < MaintenanceDelay(t, e)
         /\ MaintenanceDelay(t, e) <= HeartbeatInterval
         /\ \/ t + MaintenanceDelay(t, e) <= e - RefreshSkew
            \/ e - RefreshSkew <= t /\ MaintenanceDelay(t, e) <= Second
  BY DurationsAssumption DEF MaintenanceDelay, Shorter

(***************************************************************************)
(* The budget grows by one call and one pause per failure.                 *)
(***************************************************************************)
LEMMA BudgetStep ==
  ASSUME NEW n \in Nat
  PROVE  /\ Budget(n) \in Nat
         /\ Budget(n + 1) = Budget(n) + Latency + Second
         /\ Latency + Second <= Budget(n)
<1>. DEFINE w == Latency + Second
<1>1. w \in Nat
  BY DurationsAssumption
<1>2. (n + 1) * w = n * w + w /\ (n + 2) * w = n * w + w + w
  BY <1>1
<1>3. n * w \in Nat
  BY <1>1
<1>4. Budget(n) = n * w + w /\ Budget(n + 1) = n * w + w + w
  BY <1>2 DEF Budget
<1> QED
  BY <1>1, <1>3, <1>4, DurationsAssumption

LEMMA BudgetMonotone ==
  ASSUME NEW n \in 0 .. MaxFails
  PROVE  Budget(n) <= Budget(MaxFails)
<1>. DEFINE w == Latency + Second
<1>1. w \in Nat /\ MaxFails \in Nat
  BY DurationsAssumption
<1>2. PICK k \in Nat : MaxFails = n + k
  <2>1. MaxFails - n \in Nat /\ MaxFails = n + (MaxFails - n)
    BY <1>1
  <2> QED
    BY <2>1
<1>3. (MaxFails + 1) * w = (n + 1) * w + k * w
  BY <1>1, <1>2
<1>4. k * w \in Nat /\ (n + 1) * w \in Nat
  BY <1>1, <1>2
<1> QED
  BY <1>3, <1>4 DEF Budget

-----------------------------------------------------------------------------
(***************************************************************************)
(* The state of the goroutine is well typed, and the clock stays within    *)
(* the timer it waits for or the call it makes.                            *)
(***************************************************************************)
Clocked ==
  /\ TypeOK
  /\ sentAt <= now
  /\ hb = "wait" => sentAt < fireAt /\ now <= fireAt /\ fireAt <= sentAt + Latency + HeartbeatInterval
  /\ hb \in {"register", "heartbeat"} => now <= sentAt + Latency

LEMMA ClockedInit == Init => Clocked
<1>. SUFFICES ASSUME Init PROVE Clocked
  OBVIOUS
<1>1. expires \in Nat
  BY LifetimesAssumption DEF Init
<1>2. fireAt \in Nat /\ 0 < fireAt /\ fireAt <= HeartbeatInterval
  BY <1>1, DelayBounds DEF Init
<1>3. now = 0 /\ sentAt = 0 /\ fails = 0 /\ hb = "wait" /\ stopping = FALSE
  BY DEF Init
<1>4. fails \in 0 .. MaxFails
  BY <1>3, DurationsAssumption
<1>5. TypeOK
  BY <1>1, <1>2, <1>3, <1>4 DEF TypeOK
<1>6. now <= fireAt /\ sentAt < fireAt /\ fireAt <= sentAt + Latency + HeartbeatInterval
  BY <1>2, <1>3, DurationsAssumption
<1> QED
  BY <1>3, <1>5, <1>6 DEF Clocked

\* After Rearm the goroutine waits for a timer in the future.
LEMMA RearmClocked ==
  ASSUME Clocked, hb \in {"register", "heartbeat"}, NEW e \in Int, Rearm(e),
         UNCHANGED <<now, sentAt>>
  PROVE  /\ hb' = "wait"
         /\ fireAt' \in Nat
         /\ sentAt' < fireAt' /\ now' < fireAt'
         /\ fireAt' <= sentAt' + Latency + HeartbeatInterval
<1>1. now \in Nat /\ sentAt \in Nat /\ sentAt <= now /\ now <= sentAt + Latency
  BY DEF Clocked, TypeOK
<1>2. /\ MaintenanceDelay(now, e) \in Nat
      /\ 0 < MaintenanceDelay(now, e)
      /\ MaintenanceDelay(now, e) <= HeartbeatInterval
  BY <1>1, DelayBounds
<1>3. hb' = "wait" /\ fireAt' = now + MaintenanceDelay(now, e)
  BY DEF Rearm
<1> QED
  BY <1>1, <1>2, <1>3, DurationsAssumption

LEMMA ClockedStep == Clocked /\ [Next]_vars => Clocked'
<1>. SUFFICES ASSUME Clocked, [Next]_vars PROVE Clocked'
  OBVIOUS
<1>. USE DurationsAssumption
<1>1. CASE Fire
  BY <1>1 DEF Fire, Clocked, TypeOK
<1>2. CASE Registers
  <2>1. expires' \in Nat
    BY <1>2, LifetimesAssumption DEF Registers, Clocked, TypeOK
  <2>2. hb' = "wait" /\ fireAt' \in Nat /\ sentAt' < fireAt' /\ now' < fireAt'
        /\ fireAt' <= sentAt' + Latency + HeartbeatInterval
    BY <1>2, <2>1, RearmClocked DEF Registers
  <2> QED
    BY <1>2, <2>1, <2>2 DEF Registers, Clocked, TypeOK
<1>3. CASE RegisterFails
  <2>1. hb' = "wait" /\ fireAt' \in Nat /\ sentAt' < fireAt' /\ now' < fireAt'
        /\ fireAt' <= sentAt' + Latency + HeartbeatInterval
    BY <1>3, RearmClocked DEF RegisterFails, Clocked, TypeOK
  <2> QED
    BY <1>3, <2>1 DEF RegisterFails, Clocked, TypeOK
<1>4. CASE Beats
  <2>1. expires' \in Nat
    BY <1>4, LifetimesAssumption DEF Beats, Clocked, TypeOK
  <2>2. hb' = "wait" /\ fireAt' \in Nat /\ sentAt' < fireAt' /\ now' < fireAt'
        /\ fireAt' <= sentAt' + Latency + HeartbeatInterval
    BY <1>4, <2>1, RearmClocked DEF Beats
  <2> QED
    BY <1>4, <2>1, <2>2 DEF Beats, Clocked, TypeOK
<1>5. CASE BeatFails
  <2>1. hb' = "wait" /\ fireAt' \in Nat /\ sentAt' < fireAt' /\ now' < fireAt'
        /\ fireAt' <= sentAt' + Latency + HeartbeatInterval
    BY <1>5, RearmClocked DEF BeatFails, Clocked, TypeOK
  <2> QED
    BY <1>5, <2>1 DEF BeatFails, Clocked, TypeOK
<1>6. CASE CancelCtx
  BY <1>6 DEF CancelCtx, Clocked, TypeOK
<1>7. CASE Stop
  BY <1>7 DEF Stop, Clocked, TypeOK
<1>8. CASE TimePasses
  BY <1>8 DEF TimePasses, Clocked, TypeOK
<1>9. CASE UNCHANGED vars
  BY <1>9 DEF vars, Clocked, TypeOK
<1> QED
  BY <1>1, <1>2, <1>3, <1>4, <1>5, <1>6, <1>7, <1>8, <1>9 DEF Next

THEOREM ClockedInvariant == Spec => []Clocked
  BY ClockedInit, ClockedStep, PTL DEF Spec

(***************************************************************************)
(* The state of the heartbeat goroutine keeps its type: the timer is armed *)
(* for a time, whatever expiry the server sends, and the failures counted  *)
(* stay within MaxFails.                                                   *)
(***************************************************************************)
THEOREM HeartbeatTyped == Spec => []TypeOK
<1>1. Clocked => TypeOK
  BY DEF Clocked
<1> QED
  BY <1>1, ClockedInvariant, PTL

(***************************************************************************)
(* The server hears from the executor at least once per interval and       *)
(* latency, for every configuration and every life of a token.             *)
(***************************************************************************)
THEOREM AlwaysHeard == Spec => []HeardEveryInterval
<1>1. Clocked => HeardEveryInterval
  BY DurationsAssumption DEF Clocked, TypeOK, HeardEveryInterval
<1> QED
  BY <1>1, ClockedInvariant, PTL

(***************************************************************************)
(* The goroutine never calls the server twice at the same instant, for     *)
(* every configuration.                                                    *)
(***************************************************************************)
THEOREM SpinFree == Spec => NeverSpins
<1>1. Clocked /\ [Next]_vars => [hb = "wait" /\ hb' \in {"register", "heartbeat"} => now > sentAt]_vars
  <2>. SUFFICES ASSUME Clocked, Next, hb = "wait", hb' \in {"register", "heartbeat"}
                PROVE  now > sentAt
    OBVIOUS
  <2>1. Fire
    BY DEF Next, Registers, RegisterFails, Beats, BeatFails, CancelCtx, Stop, TimePasses, Rearm
  <2> QED
    BY <2>1 DEF Fire, Clocked, TypeOK
<1> QED
  BY <1>1, ClockedInvariant, PTL DEF Spec, NeverSpins

-----------------------------------------------------------------------------
(***************************************************************************)
(* How late the next registration can be: the moment the token is due plus *)
(* the budget of the failures so far.                                      *)
(***************************************************************************)
Due == expires - RefreshSkew

Punctual ==
  ~stopping =>
    /\ hb = "wait" => fireAt <= Due + Budget(fails)
    /\ hb = "register" => sentAt <= Due + Budget(fails) /\ Due < sentAt
    /\ hb = "heartbeat" => sentAt <= Due
    /\ hb # "stopped"

LEMMA PunctualInit == Timely /\ Init => Punctual
<1>. SUFFICES ASSUME Timely, Init PROVE Punctual
  OBVIOUS
<1>1. expires \in Nat /\ RefreshSkew <= expires
  BY LifetimesAssumption DEF Init, Timely
<1>2. Budget(0) \in Nat /\ Latency + Second <= Budget(0)
  BY BudgetStep
<1>3. /\ MaintenanceDelay(0, expires) \in Nat
      /\ \/ 0 + MaintenanceDelay(0, expires) <= expires - RefreshSkew
         \/ MaintenanceDelay(0, expires) <= Second
  BY <1>1, DelayBounds
<1>4. fireAt <= Due + Budget(0)
  BY <1>1, <1>2, <1>3, DurationsAssumption DEF Init, Due
<1> QED
  BY <1>4 DEF Init, Punctual

\* A call that is answered late leaves the next timer within the budget.
LEMMA RearmPunctual ==
  ASSUME now \in Nat, NEW e \in Nat, NEW b \in Nat, Latency + Second <= b,
         now <= e - RefreshSkew + b - Second, Rearm(e)
  PROVE  hb' = "wait" /\ fireAt' <= e - RefreshSkew + b
<1>1. \/ now + MaintenanceDelay(now, e) <= e - RefreshSkew
      \/ MaintenanceDelay(now, e) <= Second
  BY DelayBounds
<1>2. MaintenanceDelay(now, e) \in Nat
  BY DelayBounds
<1> QED
  BY <1>1, <1>2, DurationsAssumption DEF Rearm

LEMMA PunctualStep == Timely /\ Clocked /\ Punctual /\ [Next]_vars => Punctual'
<1>. SUFFICES ASSUME Timely, Clocked, Punctual, [Next]_vars, ~stopping'
              PROVE  Punctual'
  BY DEF Punctual
<1>. USE DurationsAssumption
<1>a. ~stopping
  BY DEF Next, Fire, Registers, RegisterFails, Beats, BeatFails, CancelCtx, Stop, TimePasses, vars
<1>b. /\ now \in Nat /\ expires \in Nat /\ sentAt \in Nat /\ fireAt \in Nat
      /\ fails \in 0 .. MaxFails
      /\ hb \in {"register", "heartbeat"} => now <= sentAt + Latency
  BY DEF Clocked, TypeOK
<1>c. Budget(fails) \in Nat /\ Latency + Second <= Budget(fails)
  BY <1>b, BudgetStep
<1>1. CASE Fire
  <2>1. hb = "wait" /\ now >= fireAt /\ fireAt <= Due + Budget(fails) /\ now <= fireAt
    BY <1>1, <1>a DEF Fire, Punctual, Clocked
  <2>2. sentAt' = now /\ now' = now /\ fails' = fails /\ expires' = expires
    BY <1>1 DEF Fire
  <2>3. hb' = IF now + RefreshSkew > expires THEN "register" ELSE "heartbeat"
    BY <1>1 DEF Fire
  <2>4. CASE now + RefreshSkew > expires
    BY <1>b, <1>c, <2>1, <2>2, <2>3, <2>4 DEF Punctual, Due, Budget
  <2>5. CASE ~(now + RefreshSkew > expires)
    BY <1>b, <1>c, <2>1, <2>2, <2>3, <2>5 DEF Punctual, Due, Budget
  <2> QED
    BY <2>4, <2>5
<1>2. CASE Registers \/ Beats
  <2>1. PICK life \in Lifetimes : expires' = now + life
    BY <1>2 DEF Registers, Beats
  <2>2. RefreshSkew <= life /\ life \in Nat
    BY LifetimesAssumption DEF Timely
  <2>3. fails' \in Nat
    BY <1>2, <1>b DEF Registers, Beats
  <2>4. Budget(fails') \in Nat /\ Latency + Second <= Budget(fails')
    BY <2>3, BudgetStep
  <2>5. expires' \in Nat /\ now <= expires' - RefreshSkew + Budget(fails') - Second
    BY <1>b, <2>1, <2>2, <2>4
  <2>6. Rearm(expires')
    BY <1>2 DEF Registers, Beats
  <2>7. hb' = "wait" /\ fireAt' <= expires' - RefreshSkew + Budget(fails')
    BY <1>b, <2>4, <2>5, <2>6, RearmPunctual
  <2> QED
    BY <2>7 DEF Punctual, Due, Budget
<1>3. CASE RegisterFails
  <2>1. fails' = fails + 1 /\ expires' = expires /\ Rearm(expires) /\ hb = "register"
    BY <1>3, <1>a DEF RegisterFails
  <2>2. sentAt <= Due + Budget(fails)
    BY <1>a, <2>1 DEF Punctual
  <2>3. Budget(fails + 1) = Budget(fails) + Latency + Second
    BY <1>b, BudgetStep
  <2>4. now <= expires - RefreshSkew + Budget(fails + 1) - Second
    BY <1>b, <1>c, <2>1, <2>2, <2>3 DEF Due
  <2>5. hb' = "wait" /\ fireAt' <= expires - RefreshSkew + Budget(fails + 1)
    BY <1>b, <1>c, <2>1, <2>3, <2>4, RearmPunctual, SMTT(20)
  <2> QED
    BY <2>1, <2>5 DEF Punctual, Due, Budget
<1>4. CASE BeatFails
  <2>1. fails' = fails /\ expires' = expires /\ Rearm(expires) /\ hb = "heartbeat"
    BY <1>4 DEF BeatFails
  <2>2. sentAt <= Due
    BY <1>a, <2>1 DEF Punctual
  <2>3. now <= expires - RefreshSkew + Budget(fails) - Second
    BY <1>b, <1>c, <2>1, <2>2 DEF Due
  <2>4. hb' = "wait" /\ fireAt' <= expires - RefreshSkew + Budget(fails)
    BY <1>b, <1>c, <2>1, <2>3, RearmPunctual
  <2> QED
    BY <2>1, <2>4 DEF Punctual, Due, Budget
<1>5. CASE CancelCtx
  BY <1>5 DEF CancelCtx
<1>6. CASE Stop
  BY <1>6, <1>a DEF Stop
<1>7. CASE TimePasses
  BY <1>7, <1>a DEF TimePasses, Punctual, Due, Budget
<1>8. CASE UNCHANGED vars
  BY <1>8, <1>a DEF vars, Punctual, Due, Budget
<1> QED
  BY <1>1, <1>2, <1>3, <1>4, <1>5, <1>6, <1>7, <1>8 DEF Next

(***************************************************************************)
(* In a timely configuration the executor token never lapses while the     *)
(* worker runs, whatever becomes of the heartbeats and although up to      *)
(* MaxFails registrations in a row fail.                                   *)
(***************************************************************************)
THEOREM TokenKeptAlive == ASSUME Timely PROVE Spec => []NeverLapses
<1>1. Clocked /\ Punctual => NeverLapses
  <2>. SUFFICES ASSUME Clocked, Punctual, ~stopping PROVE now < expires
    BY DEF NeverLapses
  <2>1. /\ now \in Nat /\ expires \in Nat /\ sentAt \in Nat /\ fireAt \in Nat
        /\ fails \in 0 .. MaxFails
        /\ hb \in {"wait", "register", "heartbeat", "stopped"}
        /\ hb \in {"register", "heartbeat"} => now <= sentAt + Latency
        /\ hb = "wait" => now <= fireAt
    BY DEF Clocked, TypeOK
  <2>2. fails \in Nat /\ MaxFails \in Nat
    BY <2>1, DurationsAssumption
  <2>3. Budget(fails) \in Nat /\ Budget(MaxFails) \in Nat
    BY <2>2, BudgetStep
  <2>4. Budget(fails) <= Budget(MaxFails) /\ Budget(MaxFails) + Latency < RefreshSkew
    BY <2>1, BudgetMonotone DEF Timely
  <2>5. now <= Due + Budget(fails) + Latency
    BY <2>1, <2>3, DurationsAssumption DEF Punctual, Due
  <2> QED
    BY <2>1, <2>3, <2>4, <2>5, DurationsAssumption DEF Due
<1>2. Spec => []Punctual
  BY PunctualInit, PunctualStep, ClockedInvariant, PTL DEF Spec
<1> QED
  BY <1>1, <1>2, ClockedInvariant, PTL
=============================================================================
