---------------------------- MODULE MCToolWorker ----------------------------
(* Small instances of ToolWorker: the exchanges TLC enumerates, and the     *)
(* symmetry of the claims.                                                  *)
EXTENDS ToolWorkerProperties, TLC

\* One exchange per case that the code tells apart.
AllFaults ==
  {Reply(200, "good"), Reply(200, "bad"), Reply(202, "good"), Reply(503, "none"),
   Reply(429, "none"), Reply(401, "none"), NoReply("network"), NoReply("deadline")}

\* Only faults that a retry can cure.
TransientFaults == {Reply(200, "good"), Reply(503, "none"), Reply(429, "none"), NoReply("network")}
ASSUME TransientFaultsAssumption == \A x \in TransientFaults : Curable(x)

ClaimSymmetry == Permutations(Claims)
=============================================================================
