----------------------------- MODULE MCManifest -----------------------------
(* Small instances of Manifest: publishers under every policy, and how      *)
(* exchanges end without an answer of the cloud.                            *)
EXTENDS Manifest

CONSTANTS cond1, cond2, plain, force, misfit, twice, empty, other

MCPolicy == [p \in Publishers |->
  IF p \in {cond1, cond2} THEN "replace_if_token_match"
  ELSE IF p \in {force, misfit} THEN "replace"
  ELSE IF p = other THEN "unsupported" ELSE "default"]

Version(v) == [name |-> "tool", version |-> v]

\* Two publishers of the same tools, one of a tool in two versions, one of none.
MCTools == [p \in Publishers |->
  IF p \in {cond1, force} THEN {Version(1)}
  ELSE IF p = cond2 THEN {Version(2)}
  ELSE IF p = twice THEN {Version(2), Version(3)}
  ELSE IF p = empty THEN {} ELSE {Version(3)}]

MCOld == {Version(0)}

\* One exchange per case that the code tells apart.
MCAnswers ==
  {NoReply("network"), Reply(200, "bad"), Reply(307, "none"), Reply(429, "none"), Reply(503, "none")}
=============================================================================
