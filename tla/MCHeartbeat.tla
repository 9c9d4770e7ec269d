----------------------------- MODULE MCHeartbeat -----------------------------
(* An instance of Heartbeat that is Timely: (1 + 1) * (1 + 1) + 1 < 6. *)
EXTENDS Heartbeat

\* Exactly the skew, just above it, and longer than skew and interval.
MCLifetimes == {6, 7, 17}

ASSUME InstanceIsTimely == Timely
=============================================================================
