-------------------------- MODULE CommandContract --------------------------
(***************************************************************************)
(* What the methods that change something in the cloud promise, whatever   *)
(* the network does: a command has its effect once at most, although it is *)
(* called again and its requests are lost, late or sent twice; a success   *)
(* is reported after the effect; and while all its calls are known to have *)
(* changed nothing there is none, and none is to come.  A command whose    *)
(* calls end without that knowledge stays open: its effect may have        *)
(* happened, may happen later, or never.                                   *)
(***************************************************************************)
EXTENDS Integers

CONSTANT Commands  \* what callers want done

VARIABLES
  status,   \* per command: "new", "open", "success" or "refused"
  applied   \* per command, how often it had its effect

vars == <<status, applied>>

Init ==
  /\ status = [c \in Commands |-> "new"]
  /\ applied = [c \in Commands |-> 0]

Becomes(c, new) ==
  /\ status' = [status EXCEPT ![c] = new]
  /\ UNCHANGED applied

\* A first call, or another one after calls that changed nothing.
Begin(c) ==
  /\ status[c] \in {"new", "refused"}
  /\ Becomes(c, "open")

\* The effect may come long after the caller has given up.
Effect(c) ==
  /\ status[c] = "open"
  /\ applied[c] = 0
  /\ applied' = [applied EXCEPT ![c] = 1]
  /\ UNCHANGED status

Succeed(c) ==
  /\ status[c] = "open"
  /\ applied[c] = 1
  /\ Becomes(c, "success")

\* A first call may be refused before anything is sent.
Refuse(c) ==
  /\ status[c] \in {"new", "open"}
  /\ applied[c] = 0
  /\ Becomes(c, "refused")

Changes(c) == status'[c] # status[c] \/ applied'[c] # applied[c]

Next ==
  \E c \in Commands :
    Changes(c) /\ (Begin(c) \/ Effect(c) \/ Succeed(c) \/ Refuse(c))

Spec == Init /\ [][Next]_vars
=============================================================================
