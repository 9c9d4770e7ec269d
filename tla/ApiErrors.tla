----------------------------- MODULE ApiErrors -----------------------------
(***************************************************************************)
(* What a caller of the Agent API learns from one HTTP exchange, and how   *)
(* the error it gets is classified for a retry.                            *)
(*                                                                         *)
(* An exchange is a record: either no response arrived, and "why" says     *)
(* what the transport reported, or a response arrived with a status and a  *)
(* body.  A body is "good" when it decodes as one JSON document and passes *)
(* the validation of the call, "bad" when it is truncated, undecodable,    *)
(* followed by other data or fails that validation, "none" when the        *)
(* caller does not decode it.  The wording of errors, the error code of an *)
(* envelope and the headers are left out.                                  *)
(***************************************************************************)
EXTENDS Integers

(***************************************************************************)
(* "deadline" is every error that satisfies errors.Is(err,                 *)
(* context.DeadlineExceeded): the deadline of the request's context, and   *)
(* also the Timeout of the http.Client, whose error satisfies it too.      *)
(***************************************************************************)
Causes == {"network", "deadline", "canceled"}

Bodies == {"none", "good", "bad"}

Exchange == [reply : BOOLEAN, why : Causes \cup {"none"}, status : 0 .. 599, body : Bodies]

NoReply(why) == [reply |-> FALSE, why |-> why, status |-> 0, body |-> "none"]

Reply(status, body) == [reply |-> TRUE, why |-> "none", status |-> status, body |-> body]

Success(x) == x.reply /\ x.status \in 200 .. 299

(***************************************************************************)
(* Go errors, by the questions IsRetryable asks of them: is it             *)
(* errMalformedProtocol, is it a context error, is it an Error whose       *)
(* outcome is unknown or that carries a status, is it a net.Error.         *)
(***************************************************************************)
NoError == [nil |-> TRUE, malformed |-> FALSE, ctx |-> FALSE,
            unknown |-> FALSE, status |-> 0, net |-> FALSE]

Errors == [nil : BOOLEAN, malformed : BOOLEAN, ctx : BOOLEAN,
           unknown : BOOLEAN, status : 0 .. 599, net : BOOLEAN]

Malformed == [NoError EXCEPT !.nil = FALSE, !.malformed = TRUE]

StatusError(status) == [NoError EXCEPT !.nil = FALSE, !.status = status]

\* The *url.Error of http.Client.Do: always a net.Error, whatever it wraps.
TransportError(why) ==
  [NoError EXCEPT !.nil = FALSE, !.net = TRUE, !.ctx = why \in {"deadline", "canceled"}]

\* A mutant: only server failures are worth a retry.
ServerFailureOnly(status) == status >= 500

RetryableStatus(status) == status \in {408, 429} \/ status >= 500

IsRetryable(e) ==
  /\ ~e.nil
  /\ ~e.malformed
  /\ ~e.ctx
  /\ ~e.unknown
  /\ IF e.status # 0 THEN RetryableStatus(e.status) ELSE e.net

(***************************************************************************)
(* client.do over httpjson.Do: the error of a call whose response body is  *)
(* decoded, and of registration, heartbeat and claim, which turn a body    *)
(* they reject into the same malformed-protocol error.                     *)
(***************************************************************************)
DoErr(x) ==
  CASE ~x.reply                      -> TransportError(x.why)
    [] x.reply /\ ~Success(x)        -> StatusError(x.status)
    [] Success(x) /\ x.body = "good" -> NoError
    [] Success(x) /\ x.body # "good" -> Malformed

\* submitOutcome accepts 200 only: any other 2xx is a malformed response.
SubmitErr(x) == IF Success(x) /\ x.status # 200 THEN Malformed ELSE DoErr(x)

(***************************************************************************)
(* The server, seen from the client: a request that was refused with a 4xx *)
(* other than a timeout has had no effect; any other may have been carried *)
(* out, whether or not its response arrived.                               *)
(***************************************************************************)
MayApply(x) == ~(x.reply /\ x.status \in 400 .. 499 \ {408})
=============================================================================
