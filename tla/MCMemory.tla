------------------------------ MODULE MCMemory ------------------------------
(* Small instances of Memory: what the applications want, and how exchanges *)
(* end without an answer of the cloud.                                      *)
EXTENDS Memory, TLC

CONSTANTS t1, t2

\* An update next to a create, whose block it may list, and next to a delete that
\* competes with it for the blocks both list.
MCKinds == {[t \in Intents |-> IF t = t1 THEN other ELSE "update"] : other \in {"create", "delete"}}
MCText == [t \in Intents |-> IF t = t1 THEN "a" ELSE "b"]

\* One exchange per case that the code tells apart: errors of the transport, a
\* success with a body that is rejected, a redirect, refusals and timeouts.
MCAnswers ==
  {NoReply("network"), NoReply("canceled"), Reply(200, "bad"), Reply(307, "none"),
   Reply(401, "none"), Reply(429, "none"), Reply(408, "none"), Reply(503, "none")}
=============================================================================
