----------------------------- MODULE MCSession ------------------------------
(* Small instances of Session: the life of one session beside another one,  *)
(* and how exchanges end without an answer of the cloud.                    *)
EXTENDS Session

CONSTANTS c1, c2, a1, r1, d1

MCKind == [c \in Commands |->
  IF c \in {c1, c2} THEN "create" ELSE IF c = a1 THEN "archive"
  ELSE IF c = r1 THEN "restore" ELSE "delete"]

\* All but the second create are about the session of the first.
MCOf == [c \in Commands |-> IF c = c2 THEN c2 ELSE c1]

\* One exchange per case that the code tells apart; a caller repeats any error.
MCAnswers ==
  {NoReply("network"), Reply(200, "bad"), Reply(303, "none"), Reply(307, "none"), Reply(503, "none")}

\* Only a redirect, as of one URL scheme to the other.
OnlyRedirects == {Reply(303, "none")}
=============================================================================
