---------------------------- MODULE MCConsoleCli ----------------------------
(* Small instances of ConsoleCli: how exchanges end without an answer of    *)
(* the cloud, and what may be exchanged for each other.                     *)
EXTENDS ConsoleCli, TLC

\* One exchange per case that the code tells apart.
MCAnswers ==
  {NoReply("network"), Reply(200, "bad"), Reply(303, "none"), Reply(307, "none"), Reply(503, "none")}

MCSymmetry ==
  Permutations(Runs) \cup Permutations(Orgs) \cup Permutations(VersionIds) \cup Permutations(Texts)
=============================================================================
