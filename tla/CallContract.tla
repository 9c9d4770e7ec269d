---------------------------- MODULE CallContract ----------------------------
(***************************************************************************)
(* What a worker promises about the calls it claims, whatever the network  *)
(* and the handlers do: a call is opened at most once, has at most one     *)
(* handler, and is closed; no more than Limit handlers run at a time, the  *)
(* ones that outlive their call included; and once the worker has returned *)
(* no call is open and none is opened, although a handler may still run.   *)
(***************************************************************************)
EXTENDS Integers, FiniteSets

CONSTANTS Claims, Limit

VARIABLES
  stage,    \* per claim: "new", "open" or "closed"
  running,  \* the claims whose handler runs
  returned  \* the worker has returned

vars == <<stage, running, returned>>

Init ==
  /\ stage = [c \in Claims |-> "new"]
  /\ running = {}
  /\ returned = FALSE

Open(c) ==
  /\ ~returned
  /\ stage[c] = "new"
  /\ stage' = [stage EXCEPT ![c] = "open"]
  /\ UNCHANGED returned

Begin(c) ==
  /\ Open(c)
  /\ Cardinality(running) < Limit
  /\ running' = running \cup {c}

\* A call that is answered without running a handler.
Refuse(c) == Open(c) /\ UNCHANGED running

Close(c) ==
  /\ stage[c] = "open"
  /\ stage' = [stage EXCEPT ![c] = "closed"]
  /\ UNCHANGED <<running, returned>>

HandlerEnds(c) ==
  /\ c \in running
  /\ running' = running \ {c}
  /\ UNCHANGED <<stage, returned>>

Return ==
  /\ ~returned
  /\ \A c \in Claims : stage[c] # "open"
  /\ returned' = TRUE
  /\ UNCHANGED <<stage, running>>

Next ==
  \/ \E c \in Claims : Begin(c) \/ Refuse(c) \/ Close(c) \/ HandlerEnds(c)
  \/ Return

Spec == Init /\ [][Next]_vars
=============================================================================
