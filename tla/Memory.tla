------------------------------- MODULE Memory -------------------------------
(***************************************************************************)
(* The memory methods of serverapi.Client: applications that read, create, *)
(* update and delete the memory blocks of one user through memoryRequest,  *)
(* a network that loses, delays and answers for the cloud, and the cloud.  *)
(*                                                                         *)
(* An intent is one thing an application wants done.  It makes one call at *)
(* a time: an update or a delete first lists the blocks and passes on the  *)
(* version it saw.  What an application does after a failed call is what   *)
(* the README asks of it: the same call again after an error IsRetryable   *)
(* accepts, a create replayed with the key it was given when the outcome   *)
(* is unknown, and no other write before a new decision.                   *)
(***************************************************************************)
EXTENDS ApiErrors, FiniteSets

CONSTANTS
  Intents,    \* what the applications want done
  Kinds,      \* what they may be: per intent "create", "update" or "delete"
  Text,       \* per intent: params.Text
  BlockIds,   \* the IDs the cloud gives to blocks, none of them twice
  OldTexts,   \* the texts of blocks that exist from the start
  Answers,    \* how an exchange can end without an answer of the cloud
  MaxCalls    \* bound: calls of one intent

ASSUME KindsAssumption == Kinds \subseteq [Intents -> {"create", "update", "delete"}]
\* Nobody but the cloud acknowledges a call.
ASSUME AnswersAssumption ==
  /\ Answers \subseteq Exchange
  /\ \A x \in Answers : ~(Success(x) /\ x.body = "good")
ASSUME MaxCallsAssumption == MaxCalls \in Nat \ {0}

VARIABLES
  kind,      \* per intent, what it is; it never changes
  blocks,    \* the cloud: the memory of the user
  created,   \* the cloud: the idempotency keys of creations
  wire,      \* requests the cloud may yet receive
  reply,     \* per intent, the answer of the cloud to its present call, and
             \* the block it picks if that answer is a listing
  phase,     \* per intent, where its present call is
  calls,     \* per intent, how many calls it has made
  observed,  \* per intent, the ID and the block its write refers to
  key,       \* per intent, the idempotency key the application holds
  err,       \* per intent, the error of a call that failed, until it is dealt with
  verdict,   \* history: per intent and call, what the caller was told
  applied    \* history: per intent and call, how often the cloud carried it out

cloudVars == <<blocks, created, applied>>
vars == <<kind, cloudVars, wire, reply, phase, calls, observed, key, err, verdict>>

NoKey == <<>>
NoBlock == [id |-> "none", version |-> 0, text |-> "none"]
Calls == 1 .. MaxCalls
Texts == OldTexts \cup {Text[t] : t \in Intents}
NoReplyYet == [answer |-> NoReply("none"), block |-> NoBlock]

\* A generated key, 16 random bytes, is named after the call that needs it.
Keys == Intents \X Calls

Blocks == [id : BlockIds, version : Nat \ {0}, text : Texts]
Free == [state |-> "free", version |-> 0, text |-> "none"]
Stored == [state : {"live", "gone"}, version : Nat \ {0}, text : Texts]
Live(id) == blocks[id].state = "live"

\* Only a create has a key, and an update or a delete names a version of a block.
WellFormed(r) ==
  \/ r.op = "list" /\ r.key = NoKey
  \/ r.op = "create" /\ r.key \in Keys
  \/ /\ r.op \in {"update", "delete"} /\ r.key = NoKey
     /\ r.id \in BlockIds /\ r.version \in Nat \ {0}

TypeOK ==
  /\ kind \in Kinds
  /\ blocks \in [BlockIds -> {Free} \cup Stored]
  /\ created \subseteq Keys
  /\ \A r \in wire :
       r.intent \in Intents /\ r.call \in 1 .. calls[r.intent] /\ WellFormed(r)
  /\ reply \in [Intents -> [answer : Exchange, block : Blocks \cup {NoBlock}]]
  /\ phase \in [Intents -> {"idle", "waiting", "failed", "over"}]
  /\ calls \in [Intents -> 0 .. MaxCalls]
  /\ observed \in [Intents -> Blocks \cup {NoBlock}]
  /\ key \in [Intents -> Keys \cup {NoKey}]
  /\ err \in [Intents -> Errors]
  /\ verdict \in [Intents -> [Calls -> {"none", "listed", "success", "rejected", "unknown"}]]
  /\ applied \in [Intents -> [Calls -> Nat]]

Init ==
  /\ kind \in Kinds
  /\ blocks \in [BlockIds -> {Free} \cup
                   {[state |-> "live", version |-> 1, text |-> x] : x \in OldTexts}]
  /\ created = {}
  /\ wire = {}
  /\ reply = [t \in Intents |-> NoReplyYet]
  /\ phase = [t \in Intents |-> "idle"]
  /\ calls = [t \in Intents |-> 0]
  /\ observed = [t \in Intents |-> NoBlock]
  /\ key = [t \in Intents |-> NoKey]
  /\ err = [t \in Intents |-> NoError]
  /\ verdict = [t \in Intents |-> [n \in Calls |-> "none"]]
  /\ applied = [t \in Intents |-> [n \in Calls |-> 0]]

-----------------------------------------------------------------------------
(* memoryRequest. *)

\* What the present call of t does: an update or a delete lists first.
Op(t) == IF kind[t] # "create" /\ observed[t] = NoBlock THEN "list" ELSE kind[t]

IsWrite(t) == Op(t) # "list"

\* A success is valid UTF-8, one JSON document, and a result of the right
\* operation whose blocks have an ID, a text, a version, actors and times.
Accepted(x) == Success(x) /\ x.body = "good"

\* A mutant: a timeout of the gateway passes for a rejection.
TimeoutsCertain(x) == ~x.reply \/ x.status < 400 \/ x.status >= 500

\* A write that is not accepted is uncertain, unless its answer establishes
\* that it was rejected.
MayHaveApplied(x) == ~x.reply \/ x.status < 400 \/ x.status = 408 \/ x.status >= 500

\* A mutant: the body of a success is not looked at.
TrustsStatus(write, x) ==
  IF Success(x) THEN NoError ELSE [DoErr(x) EXCEPT !.unknown = write /\ MayHaveApplied(x)]

\* A response that is rejected keeps its status.
MemoryErr(write, x) ==
  IF Accepted(x)
    THEN NoError
    ELSE [DoErr(x) EXCEPT !.unknown = write /\ MayHaveApplied(x), !.status = x.status]

\* A mutant: redirects of writes are followed as well.
FollowsAll(write, x) == x.reply /\ x.status \in {307, 308}

\* Redirects of reads are followed, redirects of writes are an answer.
Follows(write, x) == ~write /\ x.reply /\ x.status \in {301, 302, 303, 307, 308}

\* Two mutants: the current version instead of the observed one, and the
\* version before it.
CurrentVersion(t) == blocks[observed[t].id].version
PreviousVersion(t) == observed[t].version - 1

\* If-Match names the version the caller observed.
IfMatch(t) == observed[t].version

\* The caller's own key, or one made for call n; only a create has one.
CreateKey(t, n) ==
  IF Op(t) # "create" THEN NoKey ELSE IF key[t] = NoKey THEN <<t, n>> ELSE key[t]

\* A mutant: a create that fails does not hand its key back.
KeyLost(k) == NoKey

\* The key of a create comes back with its result and with its error.
ReturnedKey(k) == k

Request(t, n) ==
  [intent |-> t, call |-> n, op |-> Op(t), key |-> CreateKey(t, n),
   id |-> observed[t].id, version |-> IF observed[t] = NoBlock THEN 0 ELSE IfMatch(t)]

\* The checks that need no request, as of the text, the IDs and the version.
RejectedLocally(t) ==
  /\ phase[t] = "idle"
  /\ phase' = [phase EXCEPT ![t] = "over"]
  /\ UNCHANGED <<cloudVars, wire, reply, calls, observed, key, err, verdict>>

\* ctx.Err() just before the request is sent.
CanceledBeforeDispatch(t) ==
  /\ phase[t] = "idle"
  /\ calls[t] < MaxCalls
  /\ calls' = [calls EXCEPT ![t] = @ + 1]
  /\ key' = [key EXCEPT ![t] = ReturnedKey(CreateKey(t, calls'[t]))]
  /\ err' = [err EXCEPT ![t] = [NoError EXCEPT !.nil = FALSE, !.ctx = TRUE]]
  /\ verdict' = [verdict EXCEPT ![t][calls'[t]] = "rejected"]
  /\ phase' = [phase EXCEPT ![t] = "failed"]
  /\ UNCHANGED <<cloudVars, wire, reply, observed>>

Dispatch(t) ==
  /\ phase[t] = "idle"
  /\ calls[t] < MaxCalls
  /\ calls' = [calls EXCEPT ![t] = @ + 1]
  /\ key' = [key EXCEPT ![t] = CreateKey(t, calls'[t])]
  /\ wire' = wire \cup {Request(t, calls'[t])}
  /\ phase' = [phase EXCEPT ![t] = "waiting"]
  /\ UNCHANGED <<cloudVars, reply, observed, err, verdict>>

\* The call of t ends with exchange x, whose listing offers block.
Ends(t, x, block) ==
  LET e == MemoryErr(IsWrite(t), x)
      listed == e.nil /\ ~IsWrite(t)
  IN  /\ err' = [err EXCEPT ![t] = e]
      /\ verdict' = [verdict EXCEPT ![t][calls[t]] =
           IF listed THEN "listed" ELSE IF e.nil THEN "success"
           ELSE IF e.unknown THEN "unknown" ELSE "rejected"]
      /\ observed' = IF listed THEN [observed EXCEPT ![t] = block] ELSE observed
      /\ key' = [key EXCEPT ![t] = ReturnedKey(@)]
      /\ phase' = [phase EXCEPT ![t] =
           IF ~e.nil THEN "failed" ELSE IF listed /\ block # NoBlock THEN "idle" ELSE "over"]
      /\ reply' = [reply EXCEPT ![t] = NoReplyYet]

\* The answer of the cloud arrives.
Receives(t) ==
  /\ phase[t] = "waiting"
  /\ reply[t] # NoReplyYet
  /\ Ends(t, reply[t].answer, reply[t].block)
  /\ UNCHANGED <<cloudVars, wire, calls>>

-----------------------------------------------------------------------------
(* The network. *)

\* The exchange ends, or is redirected, without an answer of the cloud; the
\* request may have got there, may get there later, or never.
AnsweredForCloud(t) ==
  /\ phase[t] = "waiting"
  /\ \E x \in Answers :
       /\ MayApply(x)
       /\ IF Follows(IsWrite(t), x)
            THEN /\ wire' = wire \cup {Request(t, calls[t])}
                 /\ UNCHANGED <<reply, phase, observed, key, err, verdict>>
            ELSE Ends(t, x, NoBlock) /\ UNCHANGED wire
  /\ UNCHANGED <<cloudVars, calls>>

\* A refusal on the way: the request goes no further.
RefusedForCloud(t) ==
  /\ phase[t] = "waiting"
  /\ \E r \in wire : r.intent = t /\ r.call = calls[t] /\ wire' = wire \ {r}
  /\ \E x \in Answers : ~MayApply(x) /\ Ends(t, x, NoBlock)
  /\ UNCHANGED <<cloudVars, calls>>

-----------------------------------------------------------------------------
(* The cloud. *)

\* An answer to a call that has ended already is lost.
Answer(r, x, block) ==
  reply' = IF phase[r.intent] = "waiting" /\ calls[r.intent] = r.call
             THEN [reply EXCEPT ![r.intent] = [answer |-> x, block |-> block]]
             ELSE reply

Applies(r) == applied' = [applied EXCEPT ![r.intent][r.call] = @ + 1]

\* A key names one creation, which is not repeated.
HandlesCreate(r) ==
  /\ r.op = "create"
  /\ IF r.key \in created
       THEN UNCHANGED cloudVars
       ELSE /\ \E id \in BlockIds :
                 /\ blocks[id] = Free
                 /\ blocks' = [blocks EXCEPT ![id] =
                      [state |-> "live", version |-> 1, text |-> Text[r.intent]]]
            /\ created' = created \cup {r.key}
            /\ Applies(r)
  /\ Answer(r, Reply(201, "good"), NoBlock)

Matches(r) == Live(r.id) /\ blocks[r.id].version = r.version

\* The same text keeps the version.
Edited(b, text) ==
  IF b.text = text THEN b ELSE [b EXCEPT !.version = b.version + 1, !.text = text]

HandlesUpdate(r) ==
  /\ r.op = "update"
  /\ Matches(r)
  /\ blocks' = [blocks EXCEPT ![r.id] = Edited(@, Text[r.intent])]
  /\ Applies(r)
  /\ Answer(r, Reply(200, "good"), NoBlock)
  /\ UNCHANGED created

HandlesDelete(r) ==
  /\ r.op = "delete"
  /\ Matches(r)
  /\ blocks' = [blocks EXCEPT ![r.id].state = "gone"]
  /\ Applies(r)
  /\ Answer(r, Reply(200, "good"), NoBlock)
  /\ UNCHANGED created

RefusesConflict(r) ==
  /\ r.op \in {"update", "delete"}
  /\ ~Matches(r)
  /\ Answer(r, Reply(412, "none"), NoBlock)
  /\ UNCHANGED cloudVars

\* Of the listing, the caller picks one block.
HandlesList(r) ==
  /\ r.op = "list"
  /\ IF \E id \in BlockIds : Live(id)
       THEN \E id \in BlockIds :
              /\ Live(id)
              /\ Answer(r, Reply(200, "good"),
                   [id |-> id, version |-> blocks[id].version, text |-> blocks[id].text])
       ELSE Answer(r, Reply(200, "good"), NoBlock)
  /\ UNCHANGED cloudVars

Handles(r) ==
  /\ r \in wire
  /\ wire' = wire \ {r}
  /\ \/ HandlesCreate(r) \/ HandlesUpdate(r) \/ HandlesDelete(r)
     \/ RefusesConflict(r) \/ HandlesList(r)
  /\ UNCHANGED <<phase, calls, observed, key, err, verdict>>

-----------------------------------------------------------------------------
(* The application, after a call that failed. *)

\* The same call again, a create with the key it was given: a retry without it
\* would be wrong as soon as an earlier call of the intent is uncertain.
RetriesCall(t) ==
  /\ phase[t] = "failed"
  /\ IsRetryable(err[t])
  /\ phase' = [phase EXCEPT ![t] = "idle"]
  /\ err' = [err EXCEPT ![t] = NoError]
  /\ UNCHANGED <<cloudVars, wire, reply, calls, observed, key, verdict>>

ReplaysCreate(t) ==
  /\ phase[t] = "failed"
  /\ kind[t] = "create"
  /\ err[t].unknown
  /\ phase' = [phase EXCEPT ![t] = "idle"]
  /\ err' = [err EXCEPT ![t] = NoError]
  /\ UNCHANGED <<cloudVars, wire, reply, calls, observed, key, verdict>>

GivesUp(t) ==
  /\ phase[t] = "failed"
  /\ phase' = [phase EXCEPT ![t] = "over"]
  /\ err' = [err EXCEPT ![t] = NoError]
  /\ UNCHANGED <<cloudVars, wire, reply, calls, observed, key, verdict>>

Next ==
  /\ \/ \E t \in Intents :
          \/ RejectedLocally(t) \/ CanceledBeforeDispatch(t) \/ Dispatch(t) \/ Receives(t)
          \/ AnsweredForCloud(t) \/ RefusedForCloud(t)
          \/ RetriesCall(t) \/ ReplaysCreate(t) \/ GivesUp(t)
     \/ \E r \in wire : Handles(r)
  /\ UNCHANGED kind

Spec == Init /\ [][Next]_vars

-----------------------------------------------------------------------------
(***************************************************************************)
(* An error without OutcomeUnknown is the truth: the write it reports has  *)
(* not been carried out and never will be, however late its request gets   *)
(* to the cloud.                                                           *)
(***************************************************************************)
RejectedNeverApplied ==
  \A t \in Intents, n \in Calls : verdict[t][n] = "rejected" => applied[t][n] = 0

(***************************************************************************)
(* What an application intends happens once at most, although it retries   *)
(* every error that IsRetryable accepts and replays an uncertain create,   *)
(* with the key that came with the error.                                  *)
(***************************************************************************)
WrittenOnce ==
  \A t \in Intents, m, n \in Calls :
    /\ applied[t][n] <= 1
    /\ m # n => applied[t][m] = 0 \/ applied[t][n] = 0

(***************************************************************************)
(* A write reported as successful has been carried out, by this call or,   *)
(* for a create, by an earlier call under the same key.                    *)
(***************************************************************************)
SuccessIsTrue ==
  \A t \in Intents, n \in Calls :
    verdict[t][n] = "success" => \E m \in 1 .. n : applied[t][m] = 1

(***************************************************************************)
(* An update or a delete only ever replaces the very text its caller has   *)
(* read: whatever others wrote in the meantime is not lost.                *)
(***************************************************************************)
ReplacesWhatWasRead ==
  [][\A t \in Intents : kind[t] # "create" /\ applied'[t] # applied[t] =>
       blocks[observed[t].id].text = observed[t].text]_vars

-----------------------------------------------------------------------------
(***************************************************************************)
(* The memory methods keep the contract of commands: a command is an       *)
(* intent, open while a call of it is under way or ended with an unknown   *)
(* outcome, and refused while every call so far was rejected for certain   *)
(* or only listed the blocks.                                              *)
(***************************************************************************)
Uncertain(t) == \E n \in 1 .. calls[t] : verdict[t][n] \in {"none", "unknown"}

Status(t) ==
  IF calls[t] = 0 THEN "new"
  ELSE IF verdict[t][calls[t]] = "success" THEN "success"
  ELSE IF Uncertain(t) THEN "open" ELSE "refused"

\* Every time any call of t was carried out.
Effects(t) == UNION {{n} \X (1 .. applied[t][n]) : n \in Calls}

Contract == INSTANCE CommandContract WITH
  Commands <- Intents,
  status <- [t \in Intents |-> Status(t)],
  applied <- [t \in Intents |-> Cardinality(Effects(t))]

KeepsContract == Contract!Spec
=============================================================================
