------------------------------ MODULE Heartbeat ------------------------------
(***************************************************************************)
(* The heartbeat goroutine of ToolWorker.Run against the clock: when it    *)
(* fires, which of the two calls it makes, and whether the executor token  *)
(* is kept alive.  Durations are whole units of time.  The goroutine runs  *)
(* as soon as its timer fires, and a call takes at most Latency, answered  *)
(* or not.                                                                 *)
(***************************************************************************)
EXTENDS Integers

CONSTANTS
  HeartbeatInterval,  \* config.HeartbeatInterval
  RefreshSkew,        \* config.RefreshSkew
  Second,             \* time.Second
  Lifetimes,          \* what is left of a token's life when a reply names it
  Latency,            \* the longest a registration or heartbeat call takes
  MaxFails,           \* bound: registrations that fail in a row
  MaxTime             \* bound: the clock

ASSUME DurationsAssumption ==
  /\ HeartbeatInterval \in Nat \ {0}
  /\ RefreshSkew \in Nat \ {0}
  /\ Second \in Nat \ {0}
  /\ Latency \in Nat
  /\ MaxFails \in Nat
  /\ MaxTime \in Nat

\* A reply that names an expiry in the past is refused by the client.
ASSUME LifetimesAssumption == Lifetimes \subseteq Nat \ {0}

VARIABLES
  now,       \* time.Now()
  expires,   \* registration.ExecutorTokenExpiresAt
  hb,        \* "wait", "register", "heartbeat" or "stopped"
  fireAt,    \* when the timer fires
  sentAt,    \* when the last registration or heartbeat was sent
  fails,     \* registrations that failed since one succeeded
  stopping   \* runCtx is done

vars == <<now, expires, hb, fireAt, sentAt, fails, stopping>>

Shorter(a, b) == IF a < b THEN a ELSE b

\* Three mutants: the expiry is ignored, the interval is ignored, and a token
\* that is due is tried again at once.
IgnoresExpiry(t, e) ==
  IF e - RefreshSkew - t <= 0 THEN Shorter(Second, HeartbeatInterval) ELSE HeartbeatInterval
IgnoresInterval(t, e) ==
  IF e - RefreshSkew - t <= 0 THEN Shorter(Second, HeartbeatInterval) ELSE e - RefreshSkew - t
RetriesAtOnce(t, e) ==
  IF e - RefreshSkew - t <= 0 THEN 0 ELSE Shorter(e - RefreshSkew - t, HeartbeatInterval)

\* maintenanceDelay: to the heartbeat or the refresh, whichever comes first,
\* and a second at most when the refresh is due already.
MaintenanceDelay(t, e) ==
  LET delay == e - RefreshSkew - t
  IN  IF delay <= 0 THEN Shorter(Second, HeartbeatInterval)
                    ELSE Shorter(delay, HeartbeatInterval)

\* A mutant: a delay without a lower bound, taken for a time.
RearmAtDelay(e) == hb' = "wait" /\ fireAt' = Shorter(e - RefreshSkew - now, HeartbeatInterval)

\* timer.Reset, after the registration has been read again.
Rearm(e) == hb' = "wait" /\ fireAt' = now + MaintenanceDelay(now, e)

\* The timer is armed when the first registration has just succeeded.
Init ==
  /\ now = 0
  /\ expires \in Lifetimes
  /\ hb = "wait"
  /\ fireAt = MaintenanceDelay(0, expires)
  /\ sentAt = 0
  /\ fails = 0
  /\ stopping = FALSE

\* The token is refreshed once it expires within RefreshSkew; until then, and
\* at that very instant, a heartbeat is sent.
Fire ==
  /\ hb = "wait"
  /\ now >= fireAt
  /\ hb' = IF now + RefreshSkew > expires THEN "register" ELSE "heartbeat"
  /\ sentAt' = now
  /\ UNCHANGED <<now, expires, fireAt, fails, stopping>>

Registers ==
  /\ hb = "register"
  /\ \E life \in Lifetimes : expires' = now + life
  /\ fails' = 0
  /\ Rearm(expires')
  /\ UNCHANGED <<now, sentAt, stopping>>

RegisterFails ==
  /\ hb = "register"
  /\ stopping \/ fails < MaxFails
  /\ fails' = IF fails < MaxFails THEN fails + 1 ELSE fails
  /\ Rearm(expires)
  /\ UNCHANGED <<now, expires, sentAt, stopping>>

\* A heartbeat moves the expiry of the token, either way.
Beats ==
  /\ hb = "heartbeat"
  /\ \E life \in Lifetimes : expires' = now + life
  /\ Rearm(expires')
  /\ UNCHANGED <<now, sentAt, fails, stopping>>

BeatFails ==
  /\ hb = "heartbeat"
  /\ Rearm(expires)
  /\ UNCHANGED <<now, expires, sentAt, fails, stopping>>

CancelCtx ==
  /\ ~stopping
  /\ stopping' = TRUE
  /\ UNCHANGED <<now, expires, hb, fireAt, sentAt, fails>>

Stop ==
  /\ hb = "wait"
  /\ stopping
  /\ hb' = "stopped"
  /\ UNCHANGED <<now, expires, fireAt, sentAt, fails, stopping>>

\* Time does not pass a timer that has fired or a call that has to end.
TimePasses ==
  /\ now < MaxTime
  /\ hb = "wait" => now < fireAt
  /\ hb \in {"register", "heartbeat"} => now < sentAt + Latency
  /\ now' = now + 1
  /\ UNCHANGED <<expires, hb, fireAt, sentAt, fails, stopping>>

Next ==
  \/ Fire \/ Registers \/ RegisterFails \/ Beats \/ BeatFails
  \/ CancelCtx \/ Stop \/ TimePasses

Spec == Init /\ [][Next]_vars

-----------------------------------------------------------------------------
TypeOK ==
  /\ now \in Nat
  /\ expires \in Nat
  /\ hb \in {"wait", "register", "heartbeat", "stopped"}
  /\ fireAt \in Nat
  /\ sentAt \in Nat
  /\ fails \in 0 .. MaxFails
  /\ stopping \in BOOLEAN

(***************************************************************************)
(* The configuration leaves room, between the moment a token is due and    *)
(* its expiry, for one heartbeat and MaxFails registrations that fail and  *)
(* one registration that succeeds, and no token is younger than the skew.  *)
(* The defaults of the code (a skew of 10s, a client timeout of 30s) leave *)
(* that room only while calls take less than 5s.                           *)
(***************************************************************************)
Budget(n) == (n + 1) * (Latency + Second)

Timely ==
  /\ Budget(MaxFails) + Latency < RefreshSkew
  /\ \A life \in Lifetimes : RefreshSkew <= life

(***************************************************************************)
(* Under Timely, the executor token the claim loop reads never lapses      *)
(* while the worker runs, whatever becomes of the heartbeats.              *)
(***************************************************************************)
NeverLapses == ~stopping => now < expires

(***************************************************************************)
(* The server hears from the executor at least once per interval and       *)
(* latency, so a worker does not fall silent because its token lives long. *)
(***************************************************************************)
HeardEveryInterval == hb # "stopped" => now <= sentAt + HeartbeatInterval + Latency

(***************************************************************************)
(* Time passes between any two calls of the heartbeat goroutine: a token   *)
(* that is due, or a server that answers at once, never makes it spin.     *)
(***************************************************************************)
NeverSpins == [][hb = "wait" /\ hb' \in {"register", "heartbeat"} => now > sentAt]_vars
=============================================================================
